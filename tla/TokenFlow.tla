------------------------------- MODULE TokenFlow -------------------------------
(***************************************************************************)
(* The token endpoints of the proxy between an MCP client and the IdP:     *)
(* /token (RetrieveAccessToken) and /refresh (RefreshToken), under either  *)
(* token_behavior.                                                         *)
(*                                                                         *)
(* A handler runs in several steps, because it calls the IdP and may have  *)
(* to fetch the client's or the IdP's keys; handlers of several requests   *)
(* interleave at those points, the clock moves on, answers get lost and    *)
(* the process may be restarted, possibly with the other token_behavior.   *)
(* The proxy keeps no session: everything lives in the sealed blobs the    *)
(* client holds and in the IdP, which spends an authorization code at its  *)
(* first use and, if it rotates refresh tokens, spends each of those too.  *)
(***************************************************************************)
EXTENDS SealedTokens, FiniteSets

CONSTANTS Logins,      \* user logins, one authorization code each
          Requests,    \* request slots: how many requests are served at once
          Clients,     \* [id, proof]: how a client may present itself
          Behaviors,   \* values token_behavior takes over the deployments
          SiConfig,    \* [ttl, max]: token_ttl and token_max_ttl
          Leeway,      \* jwt_leeway, in half seconds
          Lifetimes,   \* lifetimes, in seconds, the IdP gives access tokens;
                       \* NoExp: its JWTs have no exp
          RefreshLifetimes,  \* the same of its refresh tokens; NoExp: they are
                             \* opaque strings, or JWTs without exp
          NoPair,      \* a client that holds no tokens
          MaxTime,     \* bound: the clock stops here
          MaxGen       \* bound: refresh tokens the IdP issues per login

ASSUME TokenFlowAssumption ==
    /\ Clients \subseteq [id : {"none", "dcr", "url"},
                          proof : {"none", "secret", "wrong_secret",
                                   "assertion", "bad_assertion"}]
    /\ Behaviors \subseteq {"proxy", "self_issued"}
    /\ SiConfig \in [ttl : Int, max : Int]
    /\ Leeway \in Nat
    /\ Lifetimes \subseteq Nat \cup {NoExp}
    /\ RefreshLifetimes \subseteq Nat \cup {NoExp}
    /\ MaxTime \in Nat
    /\ MaxGen \in Nat \ {0}

VARIABLES now,        \* the clock, in half seconds
          behavior,   \* token_behavior of the running deployment
          idp,        \* the IdP's view of each login
          job,        \* the handler running in each request slot
          held,       \* the pair of sealed tokens each login's client holds
          validated,  \* history: the IdP JWTs that ValidateJWT accepted
          dropped,    \* history: logins for which an answer of the IdP, after
                      \* it spent a code or token, did not reach the client,
                      \* and no answer did since
          refused     \* history: [login, client] refused at /refresh for its
                      \* credentials

vars == <<now, behavior, idp, job, held, validated, dropped, refused>>

\* An access token of the IdP, and a refresh token: the gen-th that the IdP issued
\* for the login (gen = 0: the empty string of an answer without one), which some
\* IdPs, Keycloak among them, make a JWT with an exp of its own.
JWT == [type : {"jwt"}, sub : Logins, exp : Nat \cup {NoExp}]
IdpRefresh == [type : {"idp_refresh"}, sub : Logins, gen : 0..MaxGen,
               exp : Nat \cup {NoExp}]
EmptyToken(l) == [type |-> "idp_refresh", sub |-> l, gen |-> 0, exp |-> NoExp]

AccessBlob == JWT \cup [type : {"si"}, sub : Logins, iat : Nat, exp : Nat]
RefreshBlob == IdpRefresh \cup [type : {"si"}, sub : Logins, iat : Nat, exp : Nat]
Pair == [at : AccessBlob, rt : RefreshBlob, client : Clients]

ASSUME NoPairAssumption == NoPair \notin Pair

IdpView == [code : {"none", "live", "spent"}, gen : 0..MaxGen, rotates : BOOLEAN]

\* Where a handler can be: checking the assertion of a client, waiting for the IdP's
\* token endpoint, about to validate the JWT it got, waiting for the IdP's keys, or
\* answering.  Its rt is the refresh token it presents, then the one it will seal.
Idle == [stage |-> "idle"]
Job == {Idle}
    \cup [stage : {"client", "exchange"}, login : Logins, client : Clients]
    \cup [stage : {"renew"}, login : Logins, client : Clients, rt : RefreshBlob]
    \cup [stage : {"validate", "jwks"}, login : Logins, client : Clients,
          jwt : JWT, rt : IdpRefresh]
    \cup [stage : {"reply"}, login : Logins, pair : Pair]

TypeOK == /\ now \in Nat
          /\ behavior \in Behaviors
          /\ idp \in [Logins -> IdpView]
          /\ job \in [Requests -> Job]
          /\ held \in [Logins -> Pair \cup {NoPair}]
          /\ validated \subseteq JWT
          /\ dropped \subseteq Logins
          /\ refused \subseteq [login : Logins, client : Clients]

Init == /\ now = 0
        /\ behavior \in Behaviors
        /\ idp \in [Logins -> [code : {"none"}, gen : {0}, rotates : BOOLEAN]]
        /\ job = [r \in Requests |-> Idle]
        /\ held = [l \in Logins |-> NoPair]
        /\ validated = {}
        /\ dropped = {}
        /\ refused = {}
-------------------------------------------------------------------------------
\* A client that authenticates with private_key_jwt.
SendsAssertion(c) == c.id = "url" /\ c.proof \in {"assertion", "bad_assertion"}

\* validateClientAuth at /token.  A request that names no client is let through;
\* a URL client is public unless it sends an assertion, which is then checked; a
\* dynamically registered client must send exactly the secret it was given.
TokenClientOK(c) ==
    \/ c.id = "none"
    \/ c.id = "url" /\ c.proof # "bad_assertion"
    \/ c.id = "dcr" /\ c.proof = "secret"

\* validateClientCredentials at /refresh.  The client_id must decrypt, which a
\* URL does not; a secret is compared only if one is sent.
RefreshClientOK(c) ==
    \/ c.id = "none"
    \/ c.id = "dcr" /\ c.proof # "wrong_secret"

\* Mutant: the claims are not validated.
NotExpired_Unchecked(jwt, t) == TRUE

\* jwt.Parse with jwt.WithLeeway: the token is good strictly before exp + leeway,
\* and for ever if it has no exp, which no option of the parser requires.
NotExpired(jwt, t) == jwt.exp = NoExp \/ t < 2 * jwt.exp + Leeway

\* Mutants: the presented refresh token is sealed again although the IdP sent a
\* new one; an answer without one seals an empty one.
TokenToSeal_Old(presented, answered) == presented
TokenToSeal_Empty(presented, answered) == answered

\* RefreshToken, after the IdP's answer: the presented refresh token is kept if
\* the answer carries none.
TokenToSeal(presented, answered) == IF answered.gen = 0 THEN presented ELSE answered

\* Mutant: the two tokens of the pair are swapped.
SealPair_Swapped(j) ==
    IF behavior = "self_issued"
    THEN [at |-> IssuedAccess(j.login, now, SiConfig),
          rt |-> IssuedRefresh(j.login, now, SiConfig), client |-> j.client]
    ELSE [at |-> j.rt, rt |-> j.jwt, client |-> j.client]

\* encryptTokenPair, or issueSelfIssuedTokens under token_behavior self_issued.
SealPair(j) ==
    IF behavior = "self_issued"
    THEN [at |-> IssuedAccess(j.login, now, SiConfig),
          rt |-> IssuedRefresh(j.login, now, SiConfig), client |-> j.client]
    ELSE [at |-> j.jwt, rt |-> j.rt, client |-> j.client]

Finish(r) == job' = [job EXCEPT ![r] = Idle]
Drop(l) == dropped' = dropped \cup {l}
-------------------------------------------------------------------------------
(***************************************************************************)
(* The user signs in and the callback hands the IdP's authorization code   *)
(* to the client, as it is.                                                *)
(***************************************************************************)
Authorize(l) ==
    /\ idp[l].code = "none"
    /\ idp' = [idp EXCEPT ![l].code = "live"]
    /\ UNCHANGED <<now, behavior, job, held, validated, dropped, refused>>

(***************************************************************************)
(* POST /token, up to the first call of somebody else.  A client may send  *)
(* its code again, for instance after an answer got lost.  One that fails  *)
(* validateClientAuth is refused before the IdP sees the code.             *)
(***************************************************************************)
TokenRequest(r, l, c) ==
    /\ job[r] = Idle
    /\ idp[l].code # "none"
    /\ SendsAssertion(c) \/ TokenClientOK(c)
    /\ job' = [job EXCEPT ![r] =
                  [stage |-> IF SendsAssertion(c) THEN "client" ELSE "exchange",
                   login |-> l, client |-> c]]
    /\ UNCHANGED <<now, behavior, idp, held, validated, dropped, refused>>

(***************************************************************************)
(* validatePrivateKeyJWT fetches the client's document and then its keys,  *)
(* neither call under a context or a deadline.  The assertion is taken, or *)
(* a fetch fails, the assertion is bad, or its jti was seen before         *)
(* (JtiStore): the request is refused and the code is not spent.           *)
(***************************************************************************)
AssertionChecked(r) ==
    LET j == job[r] IN
    /\ j.stage = "client"
    /\ \/ /\ TokenClientOK(j.client)
          /\ job' = [job EXCEPT ![r] =
                        [stage |-> "exchange", login |-> j.login, client |-> j.client]]
       \/ Finish(r)
    /\ UNCHANGED <<now, behavior, idp, held, validated, dropped, refused>>

(***************************************************************************)
(* POST /refresh with the refresh token the client holds, from a client    *)
(* that fails validateClientCredentials.                                   *)
(***************************************************************************)
RefuseClient(l, c) ==
    /\ held[l] # NoPair
    /\ ~ RefreshClientOK(c)
    /\ refused' = refused \cup {[login |-> l, client |-> c]}
    /\ UNCHANGED <<now, behavior, idp, job, held, validated, dropped>>

(***************************************************************************)
(* POST /refresh, proxy behavior, up to the call of the IdP.  Any sealed   *)
(* blob decrypts, so a self-issued refresh token of an earlier deployment  *)
(* goes to the IdP too; an empty refresh token is refused here.            *)
(***************************************************************************)
RefreshRequest(r, l, c) ==
    /\ behavior = "proxy"
    /\ job[r] = Idle
    /\ held[l] # NoPair
    /\ RefreshClientOK(c)
    /\ held[l].rt # EmptyToken(l)
    /\ job' = [job EXCEPT ![r] = [stage |-> "renew", login |-> l, client |-> c,
                                  rt |-> held[l].rt]]
    /\ UNCHANGED <<now, behavior, idp, held, validated, dropped, refused>>

(***************************************************************************)
(* POST /refresh, self_issued behavior: refreshSelfIssuedToken needs       *)
(* nobody else and answers at once.                                        *)
(***************************************************************************)
RefreshSelfIssued(r, l, c) ==
    /\ behavior = "self_issued"
    /\ job[r] = Idle
    /\ held[l] # NoPair
    /\ RefreshClientOK(c)
    /\ held[l].rt.type = "si" /\ MayRefresh(held[l].rt, now)
    /\ LET at == RefreshedAccess(held[l].rt, now, SiConfig)
       IN  job' = [job EXCEPT ![r] =
                     [stage |-> "reply", login |-> l,
                      pair |-> [at |-> at, rt |-> held[l].rt, client |-> c]]]
    /\ UNCHANGED <<now, behavior, idp, held, validated, dropped, refused>>
-------------------------------------------------------------------------------
\* What the IdP gives out at this moment.
ExpAfter(life) == IF life = NoExp THEN NoExp ELSE Unix(now) + life
NewJWT(l, life) == [type |-> "jwt", sub |-> l, exp |-> ExpAfter(life)]
NewTokens(l, gen) == {[type |-> "idp_refresh", sub |-> l, gen |-> gen,
                       exp |-> ExpAfter(life)] : life \in RefreshLifetimes}

\* The IdP honours the latest refresh token of a login; its own deadline for that
\* is one of its reasons to refuse (IdpFails).
Honoured(l, b) == b.type = "idp_refresh" /\ b.sub = l /\ b.gen = idp[l].gen

\* The IdP spends the code of login l and decides whether to give a refresh token.
Exchanges(l, answered) ==
    /\ idp[l].code = "live"
    /\ answered \in {EmptyToken(l)} \cup NewTokens(l, 1)
    /\ idp' = [idp EXCEPT ![l].code = "spent", ![l].gen = answered.gen]

\* The IdP accepts the refresh token rt: it must be the one it honours now.  The
\* answer carries a new one only if this IdP rotates refresh tokens.
Renews(l, rt, answered) ==
    /\ Honoured(l, rt)
    /\ IF idp[l].rotates
         THEN /\ idp[l].gen < MaxGen
              /\ answered \in NewTokens(l, idp[l].gen + 1)
              /\ idp' = [idp EXCEPT ![l].gen = answered.gen]
         ELSE answered = EmptyToken(l) /\ UNCHANGED idp

\* What an answer of the IdP may carry as its refresh token.
Answers(l) == {EmptyToken(l)} \cup UNION {NewTokens(l, gen) : gen \in 1..MaxGen}

(***************************************************************************)
(* The IdP answers the exchange, or the renewal, and the handler goes on   *)
(* to validate the JWT.                                                    *)
(***************************************************************************)
ExchangeAnswered(r) ==
    LET j == job[r] IN
    /\ j.stage = "exchange"
    /\ \E answered \in Answers(j.login), life \in Lifetimes :
          /\ Exchanges(j.login, answered)
          /\ job' = [job EXCEPT ![r] =
                        [stage |-> "validate", login |-> j.login, client |-> j.client,
                         jwt |-> NewJWT(j.login, life), rt |-> answered]]
    /\ UNCHANGED <<now, behavior, held, validated, dropped, refused>>

RenewalAnswered(r) ==
    LET j == job[r] IN
    /\ j.stage = "renew"
    /\ \E answered \in Answers(j.login), life \in Lifetimes :
          /\ Renews(j.login, j.rt, answered)
          /\ job' = [job EXCEPT ![r] =
                        [stage |-> "validate", login |-> j.login, client |-> j.client,
                         jwt |-> NewJWT(j.login, life),
                         rt |-> TokenToSeal(j.rt, answered)]]
    /\ UNCHANGED <<now, behavior, held, validated, dropped, refused>>

\* Mutant: a call of the IdP that gets no answer is never given up.
IdpFails_NoTimeout(r) ==
    /\ job[r].stage \in {"exchange", "renew"}
    /\ FALSE
    /\ Finish(r)
    /\ UNCHANGED <<now, behavior, idp, held, validated, dropped, refused>>

(***************************************************************************)
(* The IdP refuses, cannot be reached, or is too slow for the request's    *)
(* 30-second context: the client gets an error.  The IdP may have spent    *)
(* the code or the refresh token all the same.                             *)
(***************************************************************************)
IdpFails(r) ==
    /\ job[r].stage \in {"exchange", "renew"}
    /\ Finish(r)
    /\ UNCHANGED <<now, behavior, idp, held, validated, dropped, refused>>

IdpAnswerLost(r) ==
    LET j == job[r] IN
    /\ j.stage \in {"exchange", "renew"}
    /\ \E answered \in Answers(j.login) :
          IF j.stage = "exchange" THEN Exchanges(j.login, answered)
                                  ELSE Renews(j.login, j.rt, answered)
    /\ Finish(r)
    /\ Drop(j.login)
    /\ UNCHANGED <<now, behavior, held, validated, refused>>
-------------------------------------------------------------------------------
\* Mutant: the tokens are sealed without a call of ValidateJWT.
Accept_Unvalidated(r) ==
    LET j == job[r] IN
    /\ job' = [job EXCEPT ![r] = [stage |-> "reply", login |-> j.login,
                                  pair |-> SealPair(j)]]
    /\ UNCHANGED <<validated, dropped>>

(***************************************************************************)
(* ValidateJWT once the signing key is at hand, and what follows it in the *)
(* same breath: the tokens are sealed, or, if the JWT is expired or fails  *)
(* for any other reason (its signature, its kid, no JWT at all), the       *)
(* request fails although the IdP has spent what the client sent.          *)
(***************************************************************************)
Accept(r) ==
    LET j == job[r] IN
    /\ NotExpired(j.jwt, now)
    /\ validated' = validated \cup {j.jwt}
    /\ job' = [job EXCEPT ![r] = [stage |-> "reply", login |-> j.login,
                                  pair |-> SealPair(j)]]
    /\ UNCHANGED dropped

Reject(r) == Finish(r) /\ Drop(job[r].login) /\ UNCHANGED validated

KeyCached(r) ==
    /\ job[r].stage = "validate"
    /\ Accept(r) \/ Reject(r)
    /\ UNCHANGED <<now, behavior, idp, held, refused>>

\* The key is not in the cached JWKS: refreshJWKS asks the IdP for its keys.  The
\* call has no context and its client no timeout.
KeyMissing(r) ==
    /\ job[r].stage = "validate"
    /\ job' = [job EXCEPT ![r].stage = "jwks"]
    /\ UNCHANGED <<now, behavior, idp, held, validated, dropped, refused>>

\* The IdP's keys arrive, or the call fails.
KeysFetched(r) ==
    /\ job[r].stage = "jwks"
    /\ Accept(r) \/ Reject(r)
    /\ UNCHANGED <<now, behavior, idp, held, refused>>

(***************************************************************************)
(* The answer reaches the client, which keeps what it got last and so has  *)
(* made up for what was dropped before; or it does not reach the client.   *)
(***************************************************************************)
Deliver(r) ==
    /\ job[r].stage = "reply"
    /\ held' = [held EXCEPT ![job[r].login] = job[r].pair]
    /\ Finish(r)
    /\ dropped' = dropped \ {job[r].login}
    /\ UNCHANGED <<now, behavior, idp, validated, refused>>

ReplyLost(r) ==
    /\ job[r].stage = "reply"
    /\ Finish(r)
    /\ Drop(job[r].login)
    /\ UNCHANGED <<now, behavior, idp, held, validated, refused>>

(***************************************************************************)
(* The process is restarted, perhaps with the other token_behavior.  Every *)
(* handler is gone.                                                        *)
(***************************************************************************)
Restart(b) ==
    /\ behavior' = b
    /\ job' = [r \in Requests |-> Idle]
    /\ dropped' = dropped \cup {job[r].login : r \in {q \in Requests :
                                 job[q].stage \in {"validate", "jwks", "reply"}}}
    /\ UNCHANGED <<now, idp, held, validated, refused>>

Tick == /\ now < MaxTime
        /\ now' = now + 1
        /\ UNCHANGED <<behavior, idp, job, held, validated, dropped, refused>>

Next == \/ Tick
        \/ \E b \in Behaviors : Restart(b)
        \/ \E l \in Logins : Authorize(l)
        \/ \E l \in Logins, c \in Clients :
              \/ RefuseClient(l, c)
              \/ \E r \in Requests : \/ TokenRequest(r, l, c)
                                     \/ RefreshRequest(r, l, c)
                                     \/ RefreshSelfIssued(r, l, c)
        \/ \E r \in Requests :
              \/ AssertionChecked(r)
              \/ ExchangeAnswered(r) \/ RenewalAnswered(r)
              \/ IdpFails(r) \/ IdpAnswerLost(r)
              \/ KeyCached(r) \/ KeyMissing(r) \/ KeysFetched(r)
              \/ Deliver(r) \/ ReplyLost(r)

Spec == Init /\ [][Next]_vars

(***************************************************************************)
(* Fairness.  The runtime runs every handler that can run; a call of the   *)
(* IdP's token endpoint ends, because it carries the request's 30-second   *)
(* context; a reply is delivered or its connection breaks.  Nothing is     *)
(* assumed of the fetches that have no deadline: that of the IdP's keys,   *)
(* and those of a client's document and keys.                              *)
(***************************************************************************)
Progress(r) == \/ ExchangeAnswered(r) \/ RenewalAnswered(r)
               \/ IdpFails(r) \/ IdpAnswerLost(r)
               \/ KeyCached(r) \/ KeyMissing(r)
               \/ Deliver(r) \/ ReplyLost(r)

FairSpec == Spec /\ \A r \in Requests : WF_vars(Progress(r))
-------------------------------------------------------------------------------
\* The handlers that carry tokens of the IdP for the login l to its client.
Carries(r, l) ==
    \/ job[r].stage \in {"validate", "jwks"} /\ job[r].login = l
    \/ /\ job[r].stage = "reply" /\ job[r].login = l
       /\ job[r].pair.rt.type = "idp_refresh"

CarriedToken(r) == IF job[r].stage = "reply" THEN job[r].pair.rt ELSE job[r].rt

(***************************************************************************)
(* AnswersCarryLiveToken: whatever two handlers of the same login do to    *)
(* each other, the refresh token in an answer under way is the one the IdP *)
(* honours at that moment: a rotated token is never sealed again, and a    *)
(* token the IdP keeps is not lost because its answer repeats none.        *)
(***************************************************************************)
AnswersCarryLiveToken ==
    \A r \in Requests, l \in Logins : Carries(r, l) => CarriedToken(r).gen = idp[l].gen

(***************************************************************************)
(* StrandedOnlyByLoss: a client is left without a way to go on (its code   *)
(* spent and no tokens, or a refresh token the IdP has spent) only if an   *)
(* answer to it was dropped after the IdP had spent what it sent (a lost   *)
(* answer, a JWT the proxy refused, or a restart), and since the last      *)
(* answer that did reach it: one loss excuses no later one.                *)
(***************************************************************************)
Stranded(l) ==
    \/ idp[l].code = "spent" /\ held[l] = NoPair
    \/ /\ held[l] # NoPair
       /\ held[l].rt.type = "idp_refresh" /\ held[l].rt.gen # idp[l].gen

OnTheWay(l) ==
    \E r \in Requests : \/ Carries(r, l)
                        \/ job[r].stage = "reply" /\ job[r].login = l

StrandedOnlyByLoss ==
    \A l \in Logins : Stranded(l) => OnTheWay(l) \/ l \in dropped

(***************************************************************************)
(* ServedOnlyValidated: the middleware checks no signature and takes       *)
(* either half of a pair for a bearer token, so whatever it would let      *)
(* through of what a client holds must go back to a JWT of that very login *)
(* that ValidateJWT accepted: it is that JWT, or was issued by the proxy   *)
(* on the strength of one, or (a refresh token of the IdP that is a JWT)   *)
(* was sealed together with one, without having been validated itself.     *)
(***************************************************************************)
Bearers(l) == {b \in {held[l].at, held[l].rt} : Resolves(b, now)}

WasValidated(l, b) == \/ b \in validated
                      \/ b.type = "si" /\ \E v \in validated : v.sub = l

SealedWithValidated(l, b) == b.type = "idp_refresh" /\ held[l].at \in validated

ServedOnlyValidated ==
    \A l \in Logins : held[l] # NoPair =>
        \A b \in Bearers(l) : b.sub = l /\ (WasValidated(l, b) \/ SealedWithValidated(l, b))

(***************************************************************************)
(* IssuedTokenResolves: the access token in a new answer, if it has an exp *)
(* at all, would have been let through by the middleware at most           *)
(* jwt_leeway ago.  ValidateJWT and resolveToken compare the same exp with *)
(* different operators and different tolerances; of a token with an exp    *)
(* only the leeway may come between them.                                  *)
(***************************************************************************)
AnswersResolve ==
    \A r \in Requests :
        /\ job[r].stage # "reply" /\ job'[r].stage = "reply"
        /\ job'[r].pair.at.exp # NoExp
        => Resolves(job'[r].pair.at, now - Leeway)

IssuedTokenResolves == [][AnswersResolve]_vars

(***************************************************************************)
(* Answered: a request is answered in the end, unless it waits for a fetch *)
(* without a deadline: of its client's document and keys, at its start, or *)
(* of the IdP's keys, later on.                                            *)
(***************************************************************************)
Answered == \A r \in Requests :
                (job[r].stage \notin {"idle", "client", "jwks"})
                    ~> (job[r].stage \in {"idle", "jwks"})

(***************************************************************************)
(* EveryRequestAnswered: the 30-second request timeout that every route is *)
(* wired with bounds every request.                                        *)
(***************************************************************************)
EveryRequestAnswered == \A r \in Requests : (job[r] # Idle) ~> (job[r] = Idle)

(***************************************************************************)
(* RedeemerMayRefresh: a client that redeemed the code of a login and was  *)
(* given a refresh token the IdP honours is not refused at /refresh for    *)
(* the very credentials it redeemed the code with: "Public clients         *)
(* (token_endpoint_auth_method=none) rely on PKCE instead".                *)
(***************************************************************************)
RedeemerMayRefresh ==
    \A l \in Logins :
        held[l] # NoPair /\ idp[l].gen > 0 /\ Honoured(l, held[l].rt) =>
            [login |-> l, client |-> held[l].client] \notin refused
===============================================================================
