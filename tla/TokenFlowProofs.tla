---------------------------- MODULE TokenFlowProofs ----------------------------
(***************************************************************************)
(* Proofs about TokenFlow, for any number of logins and of concurrent      *)
(* requests, every configuration, leeway and lifetime, IdPs that rotate    *)
(* refresh tokens and IdPs that do not, and restarts at any moment.        *)
(***************************************************************************)
EXTENDS TokenFlow, SealedTokensProofs

\* The members a handler has at each stage.
LEMMA JobFields ==
    ASSUME NEW j \in Job
    PROVE  /\ j.stage \in {"idle", "client", "exchange", "renew", "validate", "jwks", "reply"}
           /\ j.stage = "idle" => j = Idle
           /\ j.stage # "idle" => j.login \in Logins
           /\ j.stage \in {"client", "exchange"} => j.client \in Clients
           /\ j.stage = "renew" => j.client \in Clients /\ j.rt \in RefreshBlob
           /\ j.stage \in {"validate", "jwks"} =>
                 /\ j.client \in Clients /\ j.jwt \in JWT /\ j.rt \in IdpRefresh
                 /\ j \in [stage : {"validate", "jwks"}, login : Logins, client : Clients,
                           jwt : JWT, rt : IdpRefresh]
           /\ j.stage = "reply" => j.pair \in Pair
BY DEF Job, Idle

\* What the IdP gives out has an expiry of the right type.
LEMMA ExpTyped ==
    ASSUME now \in Nat, NEW life \in Nat \cup {NoExp}
    PROVE  ExpAfter(life) \in Nat \cup {NoExp}
<1>1. CASE life = NoExp
  BY <1>1 DEF ExpAfter
<1>2. CASE life # NoExp
  <2>1. life \in Nat /\ Unix(now) \in Nat
    BY <1>2, UnixNat
  <2>2. Unix(now) + life \in Nat
    BY <2>1, SMT
  <2> QED
    BY <1>2, <2>2 DEF ExpAfter
<1> QED
  BY <1>1, <1>2

\* The empty refresh token has the number 0.
LEMMA EmptyTokenProps ==
    ASSUME NEW l \in Logins
    PROVE  /\ EmptyToken(l) \in IdpRefresh
           /\ EmptyToken(l).sub = l /\ EmptyToken(l).gen = 0
<1>1. 0 \in 0 .. MaxGen
  BY TokenFlowAssumption, SMT
<1> QED
  BY <1>1 DEF EmptyToken, IdpRefresh

\* A new refresh token of the IdP carries the number it was given.
LEMMA NewTokenProps ==
    ASSUME now \in Nat, NEW l \in Logins, NEW gen \in 0 .. MaxGen,
           NEW t \in NewTokens(l, gen)
    PROVE  t \in IdpRefresh /\ t.sub = l /\ t.gen = gen
<1>1. PICK life \in RefreshLifetimes :
         t = [type |-> "idp_refresh", sub |-> l, gen |-> gen, exp |-> ExpAfter(life)]
  BY DEF NewTokens
<1>2. ExpAfter(life) \in Nat \cup {NoExp}
  BY TokenFlowAssumption, ExpTyped
<1> QED
  BY <1>1, <1>2 DEF IdpRefresh

\* The two self-issued tokens of a pair.
LEMMA IssuedTyped ==
    ASSUME now \in Nat, NEW l \in Logins
    PROVE  /\ IssuedAccess(l, now, SiConfig) \in AccessBlob
           /\ IssuedRefresh(l, now, SiConfig) \in RefreshBlob
           /\ IssuedAccess(l, now, SiConfig).type = "si"
           /\ IssuedAccess(l, now, SiConfig).sub = l
           /\ IssuedRefresh(l, now, SiConfig).type = "si"
           /\ IssuedRefresh(l, now, SiConfig).sub = l
<1>1. /\ EffectiveTTL(SiConfig) \in Nat /\ EffectiveMaxTTL(SiConfig) \in Nat
  BY TokenFlowAssumption, EffectiveNat
<1>2. now + EffectiveTTL(SiConfig) \in Nat /\ now + EffectiveMaxTTL(SiConfig) \in Nat
  BY <1>1, SMT
<1> QED
  BY <1>2, UnixNat DEF IssuedAccess, IssuedRefresh, SelfIssued, AccessBlob, RefreshBlob

\* A blob that refreshes is a self-issued one.
LEMMA RefreshedTyped ==
    ASSUME now \in Nat, NEW b \in RefreshBlob, b.type = "si"
    PROVE  /\ RefreshedAccess(b, now, SiConfig) \in AccessBlob
           /\ RefreshedAccess(b, now, SiConfig).type = "si"
           /\ RefreshedAccess(b, now, SiConfig).sub = b.sub
<1>1. b.sub \in Logins /\ b.iat \in Nat /\ b.exp \in Nat
  BY DEF RefreshBlob, IdpRefresh
<1>2. EffectiveTTL(SiConfig) \in Nat
  BY TokenFlowAssumption, EffectiveNat
<1>3. Unix(now + EffectiveTTL(SiConfig)) \in Nat
  BY <1>2, UnixNat, SMT
<1>4. Earlier(Unix(now + EffectiveTTL(SiConfig)), b.exp) \in Nat
  BY <1>1, <1>3, EarlierProps
<1> QED
  BY <1>1, <1>4 DEF RefreshedAccess, SelfIssued, AccessBlob

\* What a handler that has validated its JWT seals.
LEMMA SealPairProps ==
    ASSUME now \in Nat,
           NEW j \in Job, j.stage \in {"validate", "jwks"}
    PROVE  LET p == SealPair(j) IN
           /\ p \in Pair
           /\ \/ p.at = j.jwt /\ p.rt = j.rt
              \/ p.at = IssuedAccess(j.login, now, SiConfig) /\ p.rt.type = "si"
                    /\ p.rt.sub = j.login
<1>1. j.login \in Logins /\ j.client \in Clients /\ j.jwt \in JWT /\ j.rt \in IdpRefresh
  BY JobFields
<1>2. CASE behavior = "self_issued"
  BY <1>1, <1>2, IssuedTyped DEF SealPair, Pair
<1>3. CASE behavior # "self_issued"
  BY <1>1, <1>3 DEF SealPair, Pair, AccessBlob, RefreshBlob
<1> QED
  BY <1>2, <1>3

\* A step that moves one handler.
LEMMA Moved ==
    ASSUME TypeOK, NEW r \in Requests, NEW j, job' = [job EXCEPT ![r] = j]
    PROVE  /\ job'[r] = j
           /\ \A q \in Requests : q # r => job'[q] = job[q]
           /\ j \in Job => job' \in [Requests -> Job]
BY DEF TypeOK

\* What the IdP does to its record of a login.
LEMMA ExchangesProps ==
    ASSUME TypeOK, NEW l \in Logins, NEW answered, Exchanges(l, answered)
    PROVE  /\ answered \in IdpRefresh /\ answered.sub = l
           /\ answered.gen \in 0 .. MaxGen
           /\ idp[l].code = "live"
           /\ idp'[l].code = "spent" /\ idp'[l].gen = answered.gen
           /\ idp'[l].rotates = idp[l].rotates
           /\ \A k \in Logins : k # l => idp'[k] = idp[k]
           /\ idp' \in [Logins -> IdpView]
<1>1. 1 \in 0 .. MaxGen /\ now \in Nat
  BY TokenFlowAssumption, SMT DEF TypeOK
<1>2. answered \in IdpRefresh /\ answered.sub = l
  BY <1>1, EmptyTokenProps, NewTokenProps DEF Exchanges
<1>3. answered.gen \in 0 .. MaxGen
  BY <1>2 DEF IdpRefresh
<1>4. /\ idp[l].code = "live" /\ idp[l] \in IdpView /\ idp \in [Logins -> IdpView]
      /\ idp' = [idp EXCEPT ![l].code = "spent", ![l].gen = answered.gen]
  BY DEF Exchanges, TypeOK
<1>5. idp'[l] = [idp[l] EXCEPT !.code = "spent", !.gen = answered.gen]
  BY <1>4
<1>6. /\ idp'[l].code = "spent" /\ idp'[l].gen = answered.gen
      /\ idp'[l].rotates = idp[l].rotates /\ idp'[l] \in IdpView
  BY <1>3, <1>4, <1>5 DEF IdpView
<1>7. \A k \in Logins : k # l => idp'[k] = idp[k]
  BY <1>4
<1>8. idp' \in [Logins -> IdpView]
  BY <1>4, <1>6, <1>7
<1> QED
  BY <1>2, <1>3, <1>4, <1>6, <1>7, <1>8

\* The refresh token b is the g-th of the login l.
Current(b, l, g) == b.type = "idp_refresh" /\ b.sub = l /\ b.gen = g

\* What a renewal at the IdP does: it rotates to the next number, or leaves the token as it is.
LEMMA RenewsProps ==
    ASSUME TypeOK, NEW l \in Logins, NEW rt \in RefreshBlob, NEW answered,
           Renews(l, rt, answered)
    PROVE  /\ Current(rt, l, idp[l].gen)
           /\ \/ /\ idp[l].rotates
                 /\ idp'[l].gen = idp[l].gen + 1
              \/ ~ idp[l].rotates /\ idp' = idp
           /\ idp'[l].code = idp[l].code
           /\ idp'[l].rotates = idp[l].rotates
           /\ \A k \in Logins : k # l => idp'[k] = idp[k]
           /\ idp' \in [Logins -> IdpView]
           /\ TokenToSeal(rt, answered) \in IdpRefresh
           /\ TokenToSeal(rt, answered).sub = l
           /\ TokenToSeal(rt, answered).gen = idp'[l].gen
           /\ idp[l].gen <= idp'[l].gen
<1>1. /\ idp[l].gen \in 0 .. MaxGen /\ MaxGen \in Nat /\ now \in Nat
      /\ Current(rt, l, idp[l].gen)
  BY TokenFlowAssumption DEF Renews, Honoured, Current, TypeOK, IdpView
<1>2. rt \in IdpRefresh
  BY <1>1 DEF RefreshBlob, IdpRefresh, Current
<1>3. CASE idp[l].rotates
  <2>1. /\ idp[l].gen < MaxGen /\ answered \in NewTokens(l, idp[l].gen + 1)
        /\ idp' = [idp EXCEPT ![l].gen = answered.gen]
    BY <1>3 DEF Renews
  <2>2. /\ idp[l].gen + 1 \in 0 .. MaxGen /\ idp[l].gen + 1 # 0
        /\ idp[l].gen <= idp[l].gen + 1
    BY <1>1, <2>1, SMT
  <2>3. /\ answered \in IdpRefresh /\ answered.sub = l
        /\ answered.gen = idp[l].gen + 1
    BY <1>1, <2>1, <2>2, NewTokenProps
  <2>4. TokenToSeal(rt, answered) = answered
    BY <2>2, <2>3 DEF TokenToSeal
  <2>5. /\ idp'[l].gen = idp[l].gen + 1 /\ idp'[l].code = idp[l].code
        /\ idp'[l].rotates = idp[l].rotates
        /\ \A k \in Logins : k # l => idp'[k] = idp[k]
        /\ idp' \in [Logins -> IdpView]
    BY <2>1, <2>2, <2>3 DEF TypeOK, IdpView
  <2> QED
    BY <1>1, <1>3, <2>2, <2>3, <2>4, <2>5
<1>4. CASE ~ idp[l].rotates
  <2>1. answered = EmptyToken(l) /\ idp' = idp
    BY <1>4 DEF Renews
  <2>2. TokenToSeal(rt, answered) = rt
    BY <2>1, EmptyTokenProps DEF TokenToSeal
  <2>3. idp[l].gen <= idp[l].gen
    BY <1>1, SMT
  <2> QED
    BY <1>1, <1>2, <1>4, <2>1, <2>2, <2>3 DEF TypeOK, Current
<1> QED
  BY <1>3, <1>4
--------------------------------------------------------------------------------
\* The IdP's new access token is one, with a lifetime the configuration allows.
LEMMA NewJWTTyped ==
    ASSUME now \in Nat, NEW l \in Logins, NEW life \in Lifetimes
    PROVE  NewJWT(l, life) \in JWT /\ NewJWT(l, life).sub = l
<1>1. ExpAfter(life) \in Nat \cup {NoExp}
  BY ExpTyped, TokenFlowAssumption
<1> QED
  BY <1>1 DEF NewJWT, JWT

\* Every step keeps the types, one case per action.
LEMMA TypeStep == TypeOK /\ [Next]_vars => TypeOK'
<1> SUFFICES ASSUME TypeOK, [Next]_vars PROVE TypeOK'
  OBVIOUS
<1>a. \A r \in Requests : job[r] \in Job
  BY DEF TypeOK
<1>1. CASE Tick
  BY <1>1, SMT DEF Tick, TypeOK
<1>2. ASSUME NEW b \in Behaviors, Restart(b) PROVE TypeOK'
  <2>1. \A r \in Requests : job[r].stage \in {"validate", "jwks", "reply"} =>
                               job[r].login \in Logins
    BY <1>a, JobFields
  <2> QED
    BY <1>2, <2>1 DEF Restart, TypeOK, Job
<1>3. ASSUME NEW l \in Logins, Authorize(l) PROVE TypeOK'
  <2>1. idp' \in [Logins -> IdpView]
    BY <1>3 DEF Authorize, TypeOK, IdpView
  <2> QED
    BY <1>3, <2>1 DEF Authorize, TypeOK
<1>4. ASSUME NEW l \in Logins, NEW c \in Clients, RefuseClient(l, c) PROVE TypeOK'
  BY <1>4 DEF RefuseClient, TypeOK
<1>5. ASSUME NEW l \in Logins, NEW c \in Clients, NEW r \in Requests, TokenRequest(r, l, c)
      PROVE  TypeOK'
  <2>1. [stage |-> IF SendsAssertion(c) THEN "client" ELSE "exchange",
         login |-> l, client |-> c] \in Job
    BY DEF Job
  <2> QED
    BY <1>5, <2>1, Moved DEF TokenRequest, TypeOK
<1>17. ASSUME NEW r \in Requests, AssertionChecked(r) PROVE TypeOK'
  <2>1. job[r].login \in Logins /\ job[r].client \in Clients
    BY <1>17, <1>a, JobFields DEF AssertionChecked
  <2>2. [stage |-> "exchange", login |-> job[r].login, client |-> job[r].client] \in Job
    BY <2>1 DEF Job
  <2> QED
    BY <1>17, <2>2, Moved DEF AssertionChecked, Finish, Job, TypeOK
<1>6. ASSUME NEW l \in Logins, NEW c \in Clients, NEW r \in Requests, RefreshRequest(r, l, c)
      PROVE  TypeOK'
  <2>1. held[l] \in Pair
    BY <1>6 DEF RefreshRequest, TypeOK
  <2>2. [stage |-> "renew", login |-> l, client |-> c, rt |-> held[l].rt] \in Job
    BY <2>1 DEF Job, Pair
  <2> QED
    BY <1>6, <2>2, Moved DEF RefreshRequest, TypeOK
<1>7. ASSUME NEW l \in Logins, NEW c \in Clients, NEW r \in Requests,
             RefreshSelfIssued(r, l, c)
      PROVE  TypeOK'
  <2> DEFINE at == RefreshedAccess(held[l].rt, now, SiConfig)
  <2>1. held[l] \in Pair /\ held[l].rt.type = "si" /\ now \in Nat
    BY <1>7 DEF RefreshSelfIssued, TypeOK
  <2>2. held[l].rt \in RefreshBlob
    BY <2>1 DEF Pair
  <2>3. at \in AccessBlob
    BY <2>1, <2>2, RefreshedTyped
  <2>4. [stage |-> "reply", login |-> l,
         pair |-> [at |-> at, rt |-> held[l].rt, client |-> c]] \in Job
    BY <2>2, <2>3 DEF Job, Pair
  <2> QED
    BY <1>7, <2>4, Moved DEF RefreshSelfIssued, TypeOK
<1>8. ASSUME NEW r \in Requests, ExchangeAnswered(r) PROVE TypeOK'
  <2>1. job[r].login \in Logins /\ job[r].client \in Clients /\ now \in Nat
    BY <1>8, <1>a, JobFields DEF ExchangeAnswered, TypeOK
  <2>2. PICK answered \in Answers(job[r].login), life \in Lifetimes :
           /\ Exchanges(job[r].login, answered)
           /\ job' = [job EXCEPT ![r] =
                        [stage |-> "validate", login |-> job[r].login,
                         client |-> job[r].client, jwt |-> NewJWT(job[r].login, life),
                         rt |-> answered]]
    BY <1>8 DEF ExchangeAnswered
  <2>3. answered \in IdpRefresh /\ idp' \in [Logins -> IdpView]
    BY <2>1, <2>2, ExchangesProps
  <2>4. [stage |-> "validate", login |-> job[r].login, client |-> job[r].client,
         jwt |-> NewJWT(job[r].login, life), rt |-> answered] \in Job
    BY <2>1, <2>3, NewJWTTyped DEF Job
  <2> QED
    BY <1>8, <2>2, <2>3, <2>4, Moved DEF ExchangeAnswered, TypeOK
<1>9. ASSUME NEW r \in Requests, RenewalAnswered(r) PROVE TypeOK'
  <2>1. /\ job[r].login \in Logins /\ job[r].client \in Clients /\ now \in Nat
        /\ job[r].rt \in RefreshBlob
    BY <1>9, <1>a, JobFields DEF RenewalAnswered, TypeOK
  <2>2. PICK answered \in Answers(job[r].login), life \in Lifetimes :
           /\ Renews(job[r].login, job[r].rt, answered)
           /\ job' = [job EXCEPT ![r] =
                        [stage |-> "validate", login |-> job[r].login,
                         client |-> job[r].client, jwt |-> NewJWT(job[r].login, life),
                         rt |-> TokenToSeal(job[r].rt, answered)]]
    BY <1>9 DEF RenewalAnswered
  <2>3. TokenToSeal(job[r].rt, answered) \in IdpRefresh /\ idp' \in [Logins -> IdpView]
    BY <2>1, <2>2, RenewsProps
  <2>4. [stage |-> "validate", login |-> job[r].login, client |-> job[r].client,
         jwt |-> NewJWT(job[r].login, life), rt |-> TokenToSeal(job[r].rt, answered)] \in Job
    BY <2>1, <2>3, NewJWTTyped DEF Job
  <2> QED
    BY <1>9, <2>2, <2>3, <2>4, Moved DEF RenewalAnswered, TypeOK
<1>10. ASSUME NEW r \in Requests, IdpFails(r) PROVE TypeOK'
  BY <1>10, Moved DEF IdpFails, Finish, Job, TypeOK
<1>11. ASSUME NEW r \in Requests, IdpAnswerLost(r) PROVE TypeOK'
  <2>1. job[r].login \in Logins /\ (job[r].stage = "renew" => job[r].rt \in RefreshBlob)
    BY <1>11, <1>a, JobFields DEF IdpAnswerLost
  <2>2. idp' \in [Logins -> IdpView]
    BY <1>11, <2>1, ExchangesProps, RenewsProps DEF IdpAnswerLost
  <2> QED
    BY <1>11, <2>1, <2>2, Moved DEF IdpAnswerLost, Finish, Drop, Job, TypeOK
<1>12. ASSUME NEW r \in Requests, KeyCached(r) \/ KeysFetched(r) PROVE TypeOK'
  <2>1. /\ job[r].stage \in {"validate", "jwks"} /\ job[r].login \in Logins
        /\ job[r].jwt \in JWT /\ now \in Nat
        /\ UNCHANGED <<now, behavior, idp, held, refused>>
    BY <1>12, <1>a, JobFields DEF KeyCached, KeysFetched, TypeOK
  <2>2. CASE Accept(r)
    <3>1. [stage |-> "reply", login |-> job[r].login, pair |-> SealPair(job[r])] \in Job
      BY <1>a, <2>1, SealPairProps DEF Job
    <3> QED
      BY <2>1, <2>2, <3>1, Moved DEF Accept, TypeOK
  <2>3. CASE Reject(r)
    BY <2>1, <2>3, Moved DEF Reject, Finish, Drop, Job, TypeOK
  <2> QED
    BY <1>12, <2>2, <2>3 DEF KeyCached, KeysFetched
<1>13. ASSUME NEW r \in Requests, KeyMissing(r) PROVE TypeOK'
  <2>1. [job[r] EXCEPT !.stage = "jwks"] \in Job
    BY <1>13, <1>a, JobFields DEF KeyMissing, Job
  <2>2. job' = [job EXCEPT ![r] = [job[r] EXCEPT !.stage = "jwks"]]
    BY <1>13 DEF KeyMissing
  <2> QED
    BY <1>13, <2>1, <2>2, Moved DEF KeyMissing, TypeOK
<1>14. ASSUME NEW r \in Requests, Deliver(r) PROVE TypeOK'
  <2>1. job[r].login \in Logins /\ job[r].pair \in Pair
    BY <1>14, <1>a, JobFields DEF Deliver
  <2> QED
    BY <1>14, <2>1, Moved DEF Deliver, Finish, Job, TypeOK
<1>15. ASSUME NEW r \in Requests, ReplyLost(r) PROVE TypeOK'
  <2>1. job[r].login \in Logins
    BY <1>15, <1>a, JobFields DEF ReplyLost
  <2> QED
    BY <1>15, <2>1, Moved DEF ReplyLost, Finish, Drop, Job, TypeOK
<1>16. CASE UNCHANGED vars
  BY <1>16 DEF vars, TypeOK
<1> QED
  BY <1>1, <1>2, <1>3, <1>4, <1>5, <1>6, <1>7, <1>8, <1>9, <1>10, <1>11, <1>12, <1>13,
     <1>14, <1>15, <1>16, <1>17 DEF Next

(***************************************************************************)
(* TypeCorrect: every variable keeps its type.                             *)
(***************************************************************************)
THEOREM TypeCorrect == Spec => []TypeOK
<1>1. Init => TypeOK
  BY TokenFlowAssumption, SMT DEF Init, TypeOK, IdpView, Job
<1> QED
  BY <1>1, TypeStep, PTL DEF Spec
--------------------------------------------------------------------------------
(***************************************************************************)
(* Where the refresh token is that the IdP honours.  An IdP that rotates   *)
(* takes a token once, so at most one handler carries the answer to it: as *)
(* long as one does, neither the client nor a handler that is about to     *)
(* present a token has the one the IdP would honour next.  That needs the  *)
(* numbers of all tokens in circulation to be at most the IdP's, and that  *)
(* nothing circulates before the code is spent.                            *)
(***************************************************************************)
NothingBeforeExchange ==
    \A l \in Logins :
        idp[l].code # "spent" =>
            /\ held[l] = NoPair /\ idp[l].gen = 0
            /\ \A r \in Requests :
                  job[r].stage \in {"renew", "validate", "jwks", "reply"} => job[r].login # l

TokensWereIssued ==
    /\ \A l \in Logins :
          held[l] # NoPair /\ held[l].rt.type = "idp_refresh" => held[l].rt.gen <= idp[l].gen
    /\ \A r \in Requests :
          job[r].stage = "renew" /\ job[r].rt.type = "idp_refresh" =>
              job[r].rt.gen <= idp[job[r].login].gen

RotatedOnce ==
    \A r \in Requests, l \in Logins :
        idp[l].rotates /\ Carries(r, l) =>
            /\ held[l] # NoPair => ~ Current(held[l].rt, l, idp[l].gen)
            /\ \A q \in Requests :
                  /\ job[q].stage = "renew" /\ job[q].login = l => ~ Current(job[q].rt, l, idp[l].gen)
                  /\ Carries(q, l) => q = r

Circulation == /\ NothingBeforeExchange
               /\ TokensWereIssued
               /\ RotatedOnce
               /\ AnswersCarryLiveToken
               /\ StrandedOnlyByLoss

FlowInv == TypeOK /\ Circulation

\* The same of one handler's record: does it carry IdP tokens, is an answer under way?
HasTokens(j, l) == \/ j.stage \in {"validate", "jwks"} /\ j.login = l
                   \/ j.stage = "reply" /\ j.login = l /\ j.pair.rt.type = "idp_refresh"
GenOf(j) == IF j.stage = "reply" THEN j.pair.rt.gen ELSE j.rt.gen
UnderWay(j, l) == j.stage \in {"validate", "jwks", "reply"} /\ j.login = l

\* The predicates of Circulation, read off the record of one handler.
LEMMA OneHandler ==
    ASSUME NEW l
    PROVE  /\ \A r \in Requests : /\ Carries(r, l) <=> HasTokens(job[r], l)
                                  /\ Carries(r, l)' <=> HasTokens(job'[r], l)
                                  /\ CarriedToken(r).gen = GenOf(job[r])
                                  /\ CarriedToken(r).gen' = GenOf(job'[r])
           /\ OnTheWay(l) <=> \E r \in Requests : UnderWay(job[r], l)
           /\ OnTheWay(l)' <=> \E r \in Requests : UnderWay(job'[r], l)
BY DEF Carries, HasTokens, CarriedToken, GenOf, OnTheWay, UnderWay

(***************************************************************************)
(* A step of one handler that leaves the IdP and the client alone keeps    *)
(* the invariant, if the handler carries afterwards only what it carried   *)
(* before, sets out to renew only a token that no other one is the answer  *)
(* to, and drops an answer only with a note of it.                         *)
(***************************************************************************)
LEMMA HandlerStep ==
    ASSUME FlowInv, NEW r \in Requests, NEW j,
           job' = [job EXCEPT ![r] = j],
           UNCHANGED <<idp, held>>, dropped \subseteq dropped',
           \A l \in Logins : j.stage \in {"renew", "validate", "jwks", "reply"} /\ j.login = l
                             => idp[l].code = "spent",
           j.stage = "renew" =>
               /\ j.rt.type = "idp_refresh" => j.rt.gen <= idp[j.login].gen
               /\ held[j.login] # NoPair /\ j.rt = held[j.login].rt,
           \A l \in Logins : HasTokens(j, l) => HasTokens(job[r], l) /\ GenOf(j) = GenOf(job[r]),
           \A l \in Logins : UnderWay(job[r], l) => UnderWay(j, l) \/ l \in dropped'
    PROVE  Circulation'
<1>1. job'[r] = j /\ \A q \in Requests : q # r => job'[q] = job[q]
  BY Moved DEF FlowInv
<1>2. NothingBeforeExchange'
  BY <1>1 DEF FlowInv, Circulation, NothingBeforeExchange
<1>3. TokensWereIssued'
  BY <1>1 DEF FlowInv, Circulation, TokensWereIssued
<1>4. ASSUME NEW q \in Requests, NEW l \in Logins, Carries(q, l)'
      PROVE  Carries(q, l) /\ CarriedToken(q).gen' = CarriedToken(q).gen
  <2>1. HasTokens(job'[q], l)
    BY <1>4, OneHandler
  <2>2. HasTokens(job[q], l) /\ GenOf(job'[q]) = GenOf(job[q])
    BY <1>1, <2>1
  <2> QED
    BY <2>2, OneHandler
<1>5. RotatedOnce'
  <2> SUFFICES ASSUME NEW q \in Requests, NEW l \in Logins, idp[l].rotates, Carries(q, l)'
               PROVE  /\ held[l] # NoPair => ~ Current(held[l].rt, l, idp[l].gen)
                      /\ \A p \in Requests :
                            /\ job'[p].stage = "renew" /\ job'[p].login = l
                                  => ~ Current(job'[p].rt, l, idp[l].gen)
                            /\ Carries(p, l)' => p = q
    BY DEF RotatedOnce
  <2>1. Carries(q, l)
    BY <1>4
  <2>2. /\ held[l] # NoPair => ~ Current(held[l].rt, l, idp[l].gen)
        /\ \A p \in Requests :
              /\ job[p].stage = "renew" /\ job[p].login = l => ~ Current(job[p].rt, l, idp[l].gen)
              /\ Carries(p, l) => p = q
    BY <2>1 DEF FlowInv, Circulation, RotatedOnce
  <2> QED
    BY <1>1, <1>4, <2>2
<1>6. AnswersCarryLiveToken'
  BY <1>4 DEF FlowInv, Circulation, AnswersCarryLiveToken
<1>7. StrandedOnlyByLoss'
  <2>1. ASSUME NEW l \in Logins, OnTheWay(l) PROVE OnTheWay(l)' \/ l \in dropped'
    BY <1>1, <2>1, OneHandler
  <2> QED
    BY <2>1 DEF FlowInv, Circulation, StrandedOnlyByLoss, Stranded
<1> QED
  BY <1>2, <1>3, <1>5, <1>6, <1>7 DEF Circulation

(***************************************************************************)
(* A step in which the IdP spends what a handler sent for the login l: the *)
(* handler then carries the token the IdP honours, or the answer is noted  *)
(* as dropped; a rotation finds no other copy of the new token.            *)
(***************************************************************************)
LEMMA SpendingStep ==
    ASSUME FlowInv, TypeOK', NEW r \in Requests, NEW j, NEW l \in Logins,
           job[r].stage \in {"exchange", "renew"}, job[r].login = l,
           job' = [job EXCEPT ![r] = j],
           held' = held, dropped \subseteq dropped',
           \/ j.stage = "idle" /\ l \in dropped'
           \/ j.stage = "validate" /\ j.login = l /\ j.rt.gen = idp'[l].gen,
           idp'[l].code = "spent", idp'[l].rotates = idp[l].rotates,
           idp[l].gen <= idp'[l].gen,
           \A k \in Logins : k # l => idp'[k] = idp[k],
           \/ ~ idp[l].rotates /\ idp'[l].gen = idp[l].gen
           \/ /\ held[l] # NoPair => ~ Current(held[l].rt, l, idp'[l].gen)
              /\ \A q \in Requests :
                    /\ job[q].stage = "renew" /\ job[q].login = l /\ q # r
                          => ~ Current(job[q].rt, l, idp'[l].gen)
                    /\ ~ Carries(q, l)
    PROVE  Circulation'
<1>1. job'[r] = j /\ \A q \in Requests : q # r => job'[q] = job[q]
  BY Moved DEF FlowInv
<1>2. NothingBeforeExchange'
  BY <1>1 DEF FlowInv, Circulation, NothingBeforeExchange
<1>a. /\ TypeOK /\ idp[l].gen \in Nat /\ idp'[l].gen \in Nat
      /\ \A k \in Logins : idp[k].gen \in Nat
  BY TokenFlowAssumption, SMT DEF FlowInv, TypeOK, IdpView
<1>3. TokensWereIssued'
  <2>1. ASSUME NEW k \in Logins, NEW n \in Nat, n <= idp[k].gen
        PROVE  n <= idp'[k].gen
    BY <1>a, <2>1, SMT
  <2>2. ASSUME NEW b \in RefreshBlob, b.type = "idp_refresh"
        PROVE  b.gen \in Nat
    BY <2>2, TokenFlowAssumption, SMT DEF RefreshBlob, IdpRefresh
  <2>3. ASSUME NEW k \in Logins, held'[k] # NoPair, held'[k].rt.type = "idp_refresh"
        PROVE  held'[k].rt.gen <= idp'[k].gen
    <3>1. held[k].rt \in RefreshBlob /\ held[k].rt.gen <= idp[k].gen
      BY <2>3 DEF FlowInv, TypeOK, Pair, Circulation, TokensWereIssued
    <3> QED
      BY <2>1, <2>2, <2>3, <3>1
  <2>4. ASSUME NEW q \in Requests, job'[q].stage = "renew", job'[q].rt.type = "idp_refresh"
        PROVE  job'[q].rt.gen <= idp'[job'[q].login].gen
    <3>1. q # r /\ job'[q] = job[q]
      BY <1>1, <2>4
    <3>2. job[q].rt \in RefreshBlob /\ job[q].login \in Logins
      BY <2>4, <3>1, JobFields DEF FlowInv, TypeOK
    <3>3. job[q].rt.gen <= idp[job[q].login].gen
      BY <2>4, <3>1 DEF FlowInv, Circulation, TokensWereIssued
    <3> QED
      BY <2>1, <2>2, <2>4, <3>1, <3>2, <3>3
  <2> QED
    BY <2>3, <2>4 DEF TokensWereIssued
<1>4. ASSUME NEW q \in Requests, NEW k \in Logins, q # r \/ k # l, Carries(q, k)'
      PROVE  q # r /\ Carries(q, k) /\ CarriedToken(q).gen' = CarriedToken(q).gen
  <2>1. HasTokens(job'[q], k)
    BY <1>4, OneHandler
  <2>2. q # r
    BY <1>1, <1>4, <2>1 DEF HasTokens
  <2>3. HasTokens(job[q], k) /\ GenOf(job'[q]) = GenOf(job[q])
    BY <1>1, <2>1, <2>2
  <2> QED
    BY <2>2, <2>3, OneHandler
<1>5. AnswersCarryLiveToken'
  <2> SUFFICES ASSUME NEW q \in Requests, NEW k \in Logins, Carries(q, k)'
               PROVE  CarriedToken(q).gen' = idp'[k].gen
    BY DEF AnswersCarryLiveToken
  <2>1. CASE q = r /\ k = l
    <3>a. HasTokens(job'[q], k) /\ CarriedToken(q).gen' = GenOf(job'[q])
      BY OneHandler
    <3>1. HasTokens(j, l) /\ CarriedToken(q).gen' = GenOf(j)
      BY <1>1, <2>1, <3>a
    <3>2. j.stage = "validate" /\ j.rt.gen = idp'[l].gen
      BY <3>1 DEF HasTokens
    <3> QED
      BY <2>1, <3>1, <3>2 DEF GenOf
  <2>2. CASE q # r /\ k = l
    <3>1. Carries(q, l) /\ CarriedToken(q).gen' = idp[l].gen
      BY <1>4, <2>2 DEF FlowInv, Circulation, AnswersCarryLiveToken
    <3> QED
      BY <2>2, <3>1
  <2>3. CASE k # l
    BY <1>4, <2>3 DEF FlowInv, Circulation, AnswersCarryLiveToken
  <2> QED
    BY <2>1, <2>2, <2>3
<1>6. RotatedOnce'
  <2> SUFFICES ASSUME NEW q \in Requests, NEW k \in Logins, idp'[k].rotates, Carries(q, k)'
               PROVE  /\ held[k] # NoPair => ~ Current(held[k].rt, k, idp'[k].gen)
                      /\ \A p \in Requests :
                            /\ job'[p].stage = "renew" /\ job'[p].login = k
                                  => ~ Current(job'[p].rt, k, idp'[k].gen)
                            /\ Carries(p, k)' => p = q
    BY DEF RotatedOnce
  <2>1. CASE k # l
    <3>1. idp'[k].gen = idp[k].gen /\ idp[k].rotates
      BY <2>1
    <3>2. q # r /\ Carries(q, k)
      BY <1>4, <2>1
    <3>3. /\ held[k] # NoPair => ~ Current(held[k].rt, k, idp[k].gen)
          /\ \A p \in Requests :
                /\ job[p].stage = "renew" /\ job[p].login = k => ~ Current(job[p].rt, k, idp[k].gen)
                /\ Carries(p, k) => p = q
      BY <3>1, <3>2 DEF FlowInv, Circulation, RotatedOnce
    <3>4. ASSUME NEW p \in Requests, job'[p].stage = "renew" PROVE job'[p] = job[p]
      BY <1>1, <3>4
    <3> QED
      BY <1>4, <2>1, <3>1, <3>3, <3>4
  <2>2. CASE k = l
    <3>1. /\ held[l] # NoPair => ~ Current(held[l].rt, l, idp'[l].gen)
          /\ \A p \in Requests :
                /\ job[p].stage = "renew" /\ job[p].login = l /\ p # r
                      => ~ Current(job[p].rt, l, idp'[l].gen)
                /\ ~ Carries(p, l)
      BY <2>2
    <3>2. ASSUME NEW p \in Requests, Carries(p, l)' PROVE p = r
      BY <1>4, <3>1, <3>2
    <3>3. ASSUME NEW p \in Requests, job'[p].stage = "renew"
          PROVE  p # r /\ job'[p] = job[p]
      BY <1>1, <3>3
    <3> QED
      BY <2>2, <3>1, <3>2, <3>3
  <2> QED
    BY <2>1, <2>2
<1>7. StrandedOnlyByLoss'
  <2> SUFFICES ASSUME NEW k \in Logins, Stranded(k)' PROVE OnTheWay(k)' \/ k \in dropped'
    BY DEF StrandedOnlyByLoss
  <2>1. CASE k = l
    BY <1>1, <2>1, OneHandler DEF UnderWay
  <2>2. CASE k # l
    <3>1. Stranded(k)
      BY <2>2 DEF Stranded
    <3>2. OnTheWay(k) \/ k \in dropped
      BY <3>1 DEF FlowInv, Circulation, StrandedOnlyByLoss
    <3>3. OnTheWay(k) => OnTheWay(k)'
      BY <1>1, <2>2, OneHandler DEF UnderWay
    <3> QED
      BY <3>2, <3>3
  <2> QED
    BY <2>1, <2>2
<1> QED
  BY <1>2, <1>3, <1>5, <1>6, <1>7 DEF Circulation
\* The stages of a handler that idles or waits for the IdP carry nothing.
LEMMA CarriesNothing ==
    ASSUME NEW j, j.stage \in {"idle", "client", "exchange", "renew"}, NEW l
    PROVE  ~ HasTokens(j, l) /\ ~ UnderWay(j, l)
BY DEF HasTokens, UnderWay

\* A handler that has the IdP's answer, or has sealed it, or is about to present a
\* refresh token, works for a login whose code is spent.
LEMMA CodeIsSpent ==
    ASSUME FlowInv, NEW r \in Requests,
           job[r].stage \in {"renew", "validate", "jwks", "reply"}
    PROVE  job[r].login \in Logins /\ idp[job[r].login].code = "spent"
BY JobFields DEF FlowInv, TypeOK, Circulation, NothingBeforeExchange

\* A handler ends; if an answer was under way, it is noted as dropped.
LEMMA EndStep ==
    ASSUME FlowInv, NEW r \in Requests, Finish(r),
           UNCHANGED <<idp, held>>, dropped \subseteq dropped',
           \A l \in Logins : UnderWay(job[r], l) => l \in dropped'
    PROVE  Circulation'
<1>1. Idle.stage = "idle" /\ job' = [job EXCEPT ![r] = Idle]
  BY DEF Idle, Finish
<1>2. /\ Idle.stage \notin {"renew", "validate", "jwks", "reply"}
      /\ \A l \in Logins : ~ HasTokens(Idle, l)
  BY <1>1, CarriesNothing
<1> HIDE DEF Idle
<1> QED
  BY <1>1, <1>2, HandlerStep

\* Every step keeps Circulation, one case per action.
LEMMA CirculationStep == FlowInv /\ [Next]_vars => FlowInv'
<1> SUFFICES ASSUME FlowInv, [Next]_vars PROVE Circulation'
  BY TypeStep DEF FlowInv
<1>a. /\ TypeOK /\ TypeOK' /\ Circulation
      /\ \A r \in Requests : job[r] \in Job
  BY TypeStep DEF FlowInv, TypeOK
<1>1. CASE UNCHANGED <<idp, job, held, dropped>>
  BY <1>a, <1>1 DEF Circulation, NothingBeforeExchange, TokensWereIssued, RotatedOnce,
     AnswersCarryLiveToken, StrandedOnlyByLoss, Stranded, OnTheWay, Carries, CarriedToken
<1>2. ASSUME NEW b \in Behaviors, Restart(b) PROVE Circulation'
  <2>1. /\ \A r \in Requests : job'[r] = Idle
        /\ UNCHANGED <<idp, held>>
    BY <1>2 DEF Restart
  <2>2. Idle.stage = "idle"
    BY DEF Idle
  <2>3. \A l \in Logins : OnTheWay(l) \/ l \in dropped => l \in dropped'
    BY <1>2, OneHandler DEF Restart, UnderWay
  <2>4. \A r \in Requests, l \in Logins : ~ Carries(r, l)'
    BY <2>1, <2>2 DEF Carries
  <2>5. StrandedOnlyByLoss'
    BY <1>a, <2>1, <2>3 DEF Circulation, StrandedOnlyByLoss, Stranded
  <2>6. NothingBeforeExchange' /\ TokensWereIssued'
    BY <1>a, <2>1, <2>2 DEF Circulation, NothingBeforeExchange, TokensWereIssued
  <2> QED
    BY <2>4, <2>5, <2>6 DEF Circulation, RotatedOnce, AnswersCarryLiveToken
<1>3. ASSUME NEW l \in Logins, Authorize(l) PROVE Circulation'
  <2>1. /\ UNCHANGED <<job, held, dropped>>
        /\ idp[l].code = "none" /\ idp' = [idp EXCEPT ![l].code = "live"]
    BY <1>3 DEF Authorize
  <2>2. \A k \in Logins : /\ idp'[k].gen = idp[k].gen /\ idp'[k].rotates = idp[k].rotates
                          /\ idp'[k].code = "spent" <=> idp[k].code = "spent"
    BY <1>a, <2>1 DEF TypeOK, IdpView
  <2>3. NothingBeforeExchange'
    BY <1>a, <2>1, <2>2 DEF Circulation, NothingBeforeExchange
  <2>4. TokensWereIssued'
    <3>1. \A r \in Requests : job[r].stage = "renew" => job[r].login \in Logins
      BY <1>a, JobFields
    <3> QED
      BY <1>a, <2>1, <2>2, <3>1 DEF Circulation, TokensWereIssued
  <2>6. RotatedOnce'
    BY <1>a, <2>1, <2>2 DEF Circulation, RotatedOnce, Carries
  <2>7. AnswersCarryLiveToken'
    BY <1>a, <2>1, <2>2 DEF Circulation, AnswersCarryLiveToken, Carries, CarriedToken
  <2>8. StrandedOnlyByLoss'
    BY <1>a, <2>1, <2>2 DEF Circulation, StrandedOnlyByLoss, Stranded, OnTheWay, Carries
  <2> QED
    BY <2>3, <2>4, <2>6, <2>7, <2>8 DEF Circulation
<1>4. ASSUME NEW l \in Logins, NEW c \in Clients, NEW r \in Requests, TokenRequest(r, l, c)
      PROVE  Circulation'
  <2> DEFINE j == [stage |-> IF SendsAssertion(c) THEN "client" ELSE "exchange",
                   login |-> l, client |-> c]
  <2>1. /\ job' = [job EXCEPT ![r] = j] /\ UNCHANGED <<idp, held, dropped>>
        /\ j.stage \in {"client", "exchange"} /\ job[r].stage = "idle"
    BY <1>4 DEF TokenRequest, Idle
  <2> HIDE DEF j
  <2>2. /\ j.stage \notin {"renew", "validate", "jwks", "reply"}
        /\ \A k \in Logins : ~ HasTokens(j, k) /\ ~ UnderWay(job[r], k)
    BY <2>1, CarriesNothing
  <2> QED
    BY <2>1, <2>2, HandlerStep
<1>17. ASSUME NEW r \in Requests, AssertionChecked(r) PROVE Circulation'
  <2>1. job[r].stage = "client" /\ UNCHANGED <<idp, held, dropped>>
    BY <1>17 DEF AssertionChecked
  <2>2. \A k \in Logins : ~ UnderWay(job[r], k)
    BY <2>1, CarriesNothing
  <2>3. CASE Finish(r)
    BY <2>1, <2>2, <2>3, EndStep
  <2>4. CASE ~ Finish(r)
    <3> DEFINE j == [stage |-> "exchange", login |-> job[r].login, client |-> job[r].client]
    <3>1. job' = [job EXCEPT ![r] = j] /\ j.stage = "exchange"
      BY <1>17, <2>4 DEF AssertionChecked
    <3> HIDE DEF j
    <3>2. \A k \in Logins : ~ HasTokens(j, k)
      BY <3>1, CarriesNothing
    <3> QED
      BY <2>1, <2>2, <3>1, <3>2, HandlerStep
  <2> QED
    BY <2>3, <2>4
<1>5. ASSUME NEW l \in Logins, NEW c \in Clients, NEW r \in Requests, RefreshRequest(r, l, c)
      PROVE  Circulation'
  <2> DEFINE j == [stage |-> "renew", login |-> l, client |-> c, rt |-> held[l].rt]
  <2>1. /\ job' = [job EXCEPT ![r] = j] /\ UNCHANGED <<idp, held, dropped>>
        /\ j.stage = "renew" /\ j.login = l /\ j.rt = held[l].rt
        /\ job[r].stage = "idle" /\ held[l] # NoPair
    BY <1>5 DEF RefreshRequest, Idle
  <2>2. idp[l].code = "spent"
    BY <1>a, <2>1 DEF Circulation, NothingBeforeExchange
  <2>3. held[l].rt.type = "idp_refresh" => held[l].rt.gen <= idp[l].gen
    BY <1>a, <2>1 DEF Circulation, TokensWereIssued
  <2> HIDE DEF j
  <2>4. \A k \in Logins : ~ HasTokens(j, k) /\ ~ UnderWay(job[r], k)
    BY <2>1, CarriesNothing
  <2>5. \A k \in Logins : j.login = k => idp[k].code = "spent"
    BY <2>1, <2>2
  <2> QED
    BY <2>1, <2>3, <2>4, <2>5, HandlerStep
<1>6. ASSUME NEW l \in Logins, NEW c \in Clients, NEW r \in Requests,
             RefreshSelfIssued(r, l, c)
      PROVE  Circulation'
  <2> DEFINE at == RefreshedAccess(held[l].rt, now, SiConfig)
             j == [stage |-> "reply", login |-> l,
                   pair |-> [at |-> at, rt |-> held[l].rt, client |-> c]]
  <2>1. /\ job' = [job EXCEPT ![r] = j] /\ UNCHANGED <<idp, held, dropped>>
        /\ j.stage = "reply" /\ j.login = l /\ j.pair.rt = held[l].rt
        /\ job[r].stage = "idle" /\ held[l] # NoPair /\ held[l].rt.type = "si"
    BY <1>6 DEF RefreshSelfIssued, Idle
  <2>2. idp[l].code = "spent"
    BY <1>a, <2>1 DEF Circulation, NothingBeforeExchange
  <2> HIDE DEF j
  <2>3. \A k \in Logins : ~ HasTokens(j, k) /\ ~ UnderWay(job[r], k)
    BY <2>1, CarriesNothing DEF HasTokens
  <2>4. \A k \in Logins : j.login = k => idp[k].code = "spent"
    BY <2>1, <2>2
  <2>5. j.stage # "renew"
    BY <2>1
  <2> QED
    BY <2>1, <2>3, <2>4, <2>5, HandlerStep
<1>7. ASSUME NEW r \in Requests, NEW l \in Logins, NEW t, Exchanges(l, t), NEW j,
             job[r].stage = "exchange", job[r].login = l, job' = [job EXCEPT ![r] = j],
             held' = held, dropped \subseteq dropped',
             \/ j.stage = "idle" /\ l \in dropped'
             \/ j.stage = "validate" /\ j.login = l /\ j.rt = t
      PROVE  Circulation'
  <2>1. /\ idp[l].code = "live" /\ idp'[l].code = "spent" /\ idp'[l].gen = t.gen
        /\ idp'[l].rotates = idp[l].rotates /\ t.gen \in 0 .. MaxGen
        /\ \A k \in Logins : k # l => idp'[k] = idp[k]
    BY <1>a, <1>7, ExchangesProps
  <2>2. /\ held[l] = NoPair /\ idp[l].gen = 0
        /\ \A q \in Requests :
              job[q].stage \in {"renew", "validate", "jwks", "reply"} => job[q].login # l
    BY <1>a, <2>1 DEF Circulation, NothingBeforeExchange
  <2>3. idp[l].gen <= t.gen
    BY <2>1, <2>2, TokenFlowAssumption, SMT
  <2>4. \A q \in Requests : ~ Carries(q, l)
    BY <2>2 DEF Carries
  <2> QED
    BY <1>a, <1>7, <2>1, <2>2, <2>3, <2>4, SpendingStep
<1>8. ASSUME NEW r \in Requests, ExchangeAnswered(r) PROVE Circulation'
  <2>1. PICK t \in Answers(job[r].login), life \in Lifetimes :
           /\ Exchanges(job[r].login, t)
           /\ job' = [job EXCEPT ![r] =
                        [stage |-> "validate", login |-> job[r].login,
                         client |-> job[r].client, jwt |-> NewJWT(job[r].login, life),
                         rt |-> t]]
    BY <1>8 DEF ExchangeAnswered
  <2>2. /\ job[r].stage = "exchange" /\ job[r].login \in Logins
        /\ held' = held /\ dropped' = dropped
    BY <1>8, <1>a, JobFields DEF ExchangeAnswered
  <2> QED
    BY <1>7, <2>1, <2>2
<1>9. ASSUME NEW r \in Requests, NEW l \in Logins, NEW t,
             job[r].stage = "renew", job[r].login = l, Renews(l, job[r].rt, t),
             NEW j, job' = [job EXCEPT ![r] = j], held' = held, dropped \subseteq dropped',
             \/ j.stage = "idle" /\ l \in dropped'
             \/ j.stage = "validate" /\ j.login = l /\ j.rt = TokenToSeal(job[r].rt, t)
      PROVE  Circulation'
  <2>a. job[r].rt \in RefreshBlob
    BY <1>a, <1>9, JobFields
  <2>1. /\ Current(job[r].rt, l, idp[l].gen)
        /\ \/ idp[l].rotates /\ idp'[l].gen = idp[l].gen + 1
           \/ ~ idp[l].rotates /\ idp' = idp
        /\ idp'[l].code = idp[l].code /\ idp'[l].rotates = idp[l].rotates
        /\ \A k \in Logins : k # l => idp'[k] = idp[k]
        /\ TokenToSeal(job[r].rt, t).gen = idp'[l].gen
        /\ idp[l].gen <= idp'[l].gen
    BY <1>a, <1>9, <2>a, RenewsProps
  <2>2. idp[l].code = "spent"
    BY <1>9, CodeIsSpent
  <2>3. CASE ~ idp[l].rotates
    BY <1>a, <1>9, <2>1, <2>2, <2>3, SpendingStep
  <2>4. CASE idp[l].rotates
    <3>1. \A q \in Requests : ~ Carries(q, l)
      BY <1>a, <1>9, <2>1, <2>4 DEF Circulation, RotatedOnce
    <3>2. idp'[l].gen = idp[l].gen + 1 /\ idp[l].gen \in Nat
      BY <1>a, <2>1, <2>4, TokenFlowAssumption, SMT DEF TypeOK, IdpView
    <3>3. ~ (idp[l].gen + 1 <= idp[l].gen)
      BY <3>2, SMT
    <3>4. held[l] # NoPair => ~ Current(held[l].rt, l, idp'[l].gen)
      BY <1>a, <3>2, <3>3 DEF Circulation, TokensWereIssued, Current
    <3>5. \A q \in Requests :
             job[q].stage = "renew" /\ job[q].login = l => ~ Current(job[q].rt, l, idp'[l].gen)
      BY <1>a, <3>2, <3>3 DEF Circulation, TokensWereIssued, Current
    <3> QED
      BY <1>a, <1>9, <2>1, <2>2, <3>1, <3>4, <3>5, SpendingStep
  <2> QED
    BY <2>3, <2>4
<1>10. ASSUME NEW r \in Requests, RenewalAnswered(r) PROVE Circulation'
  <2>1. PICK t \in Answers(job[r].login), life \in Lifetimes :
           /\ Renews(job[r].login, job[r].rt, t)
           /\ job' = [job EXCEPT ![r] =
                        [stage |-> "validate", login |-> job[r].login,
                         client |-> job[r].client, jwt |-> NewJWT(job[r].login, life),
                         rt |-> TokenToSeal(job[r].rt, t)]]
    BY <1>10 DEF RenewalAnswered
  <2>2. /\ job[r].stage = "renew" /\ job[r].login \in Logins
        /\ held' = held /\ dropped \subseteq dropped'
    BY <1>10, <1>a, JobFields DEF RenewalAnswered
  <2> DEFINE j == [stage |-> "validate", login |-> job[r].login, client |-> job[r].client,
                   jwt |-> NewJWT(job[r].login, life), rt |-> TokenToSeal(job[r].rt, t)]
  <2>3. /\ job' = [job EXCEPT ![r] = j] /\ Renews(job[r].login, job[r].rt, t)
        /\ j.stage = "validate" /\ j.login = job[r].login
        /\ j.rt = TokenToSeal(job[r].rt, t)
    BY <2>1
  <2> HIDE DEF j
  <2> QED
    BY <1>9, <2>2, <2>3
<1>11. ASSUME NEW r \in Requests, IdpFails(r) PROVE Circulation'
  BY <1>11, CarriesNothing, EndStep DEF IdpFails
<1>12. ASSUME NEW r \in Requests, IdpAnswerLost(r) PROVE Circulation'
  <2>1. /\ job[r].stage \in {"exchange", "renew"} /\ job[r].login \in Logins
        /\ job' = [job EXCEPT ![r] = Idle] /\ held' = held
        /\ dropped' = dropped \cup {job[r].login} /\ Idle.stage = "idle"
    BY <1>12, <1>a, JobFields DEF IdpAnswerLost, Finish, Drop, Idle
  <2>2. CASE job[r].stage = "exchange"
    <3>1. PICK t : Exchanges(job[r].login, t)
      BY <1>12, <2>2 DEF IdpAnswerLost
    <3> QED
      BY <1>7, <2>1, <2>2, <3>1
  <2>3. CASE job[r].stage = "renew"
    <3>1. PICK t : Renews(job[r].login, job[r].rt, t)
      BY <1>12, <2>3 DEF IdpAnswerLost
    <3> QED
      BY <1>9, <2>1, <2>3, <3>1
  <2> QED
    BY <2>1, <2>2, <2>3
<1>13. ASSUME NEW r \in Requests, KeyCached(r) \/ KeysFetched(r) PROVE Circulation'
  <2>1. /\ job[r].stage \in {"validate", "jwks"} /\ UNCHANGED <<idp, held>>
    BY <1>13 DEF KeyCached, KeysFetched
  <2>2. CASE Accept(r)
    <3> DEFINE p == SealPair(job[r])
               j == [stage |-> "reply", login |-> job[r].login, pair |-> p]
    <3>1. p.rt.type = "idp_refresh" => p.rt.gen = job[r].rt.gen
      BY <1>a, <2>1, SealPairProps DEF TypeOK
    <3>2. /\ job' = [job EXCEPT ![r] = j] /\ dropped' = dropped
          /\ j.stage = "reply" /\ j.login = job[r].login /\ j.pair = p
      BY <2>2 DEF Accept
    <3>3. idp[job[r].login].code = "spent"
      BY <2>1, CodeIsSpent
    <3> HIDE DEF p, j
    <3>4. \A l : HasTokens(j, l) => HasTokens(job[r], l) /\ GenOf(j) = GenOf(job[r])
      BY <2>1, <3>1, <3>2 DEF HasTokens, GenOf
    <3>5. \A l : UnderWay(job[r], l) => UnderWay(j, l)
      BY <3>2 DEF UnderWay
    <3> QED
      BY <2>1, <3>2, <3>3, <3>4, <3>5, HandlerStep
  <2>3. CASE Reject(r)
    BY <2>1, <2>3, EndStep DEF Reject, Drop, UnderWay
  <2> QED
    BY <1>13, <2>2, <2>3 DEF KeyCached, KeysFetched
<1>14. ASSUME NEW r \in Requests, KeyMissing(r) PROVE Circulation'
  <2> DEFINE j == [job[r] EXCEPT !.stage = "jwks"]
  <2>1. /\ job' = [job EXCEPT ![r] = j] /\ UNCHANGED <<idp, held, dropped>>
        /\ job[r].stage = "validate"
    BY <1>14 DEF KeyMissing
  <2>2. j.stage = "jwks" /\ j.login = job[r].login /\ j.rt = job[r].rt
    BY <1>a, <2>1, JobFields
  <2>3. idp[job[r].login].code = "spent"
    BY <2>1, CodeIsSpent
  <2> HIDE DEF j
  <2>4. \A l \in Logins :
           /\ j.login = l => idp[l].code = "spent"
           /\ HasTokens(j, l) => HasTokens(job[r], l) /\ GenOf(j) = GenOf(job[r])
           /\ UnderWay(job[r], l) => UnderWay(j, l)
    BY <2>1, <2>2, <2>3 DEF HasTokens, GenOf, UnderWay
  <2>5. j.stage # "renew"
    BY <2>2
  <2> QED
    BY <2>1, <2>4, <2>5, HandlerStep
<1>15. ASSUME NEW r \in Requests, Deliver(r) PROVE Circulation'
  <2> DEFINE l == job[r].login
             p == job[r].pair
  <2>1. /\ job[r].stage = "reply" /\ l \in Logins /\ p \in Pair /\ p # NoPair
        /\ held' = [held EXCEPT ![l] = p] /\ idp' = idp /\ dropped' = dropped \ {l}
        /\ job' = [job EXCEPT ![r] = Idle] /\ Idle.stage = "idle"
    BY <1>15, <1>a, JobFields, NoPairAssumption DEF Deliver, Finish, Idle
  <2> HIDE DEF l, p
  <2>2. /\ job'[r] = Idle /\ \A q \in Requests : q # r => job'[q] = job[q]
        /\ held'[l] = p /\ \A k \in Logins : k # l => held'[k] = held[k]
    BY <1>a, <2>1, Moved DEF TypeOK
  <2>3. idp[l].code = "spent"
    BY <2>1, CodeIsSpent DEF l
  <2>4. p.rt.type = "idp_refresh" => Carries(r, l) /\ p.rt.gen = idp[l].gen
    BY <1>a, <2>1 DEF Circulation, AnswersCarryLiveToken, Carries, CarriedToken, l, p
  <2>5. idp[l].gen <= idp[l].gen
    BY <1>a, <2>1, TokenFlowAssumption, SMT DEF TypeOK, IdpView
  <2>6. NothingBeforeExchange'
    BY <1>a, <2>1, <2>2, <2>3 DEF Circulation, NothingBeforeExchange
  <2>7. TokensWereIssued'
    BY <1>a, <2>1, <2>2, <2>4, <2>5 DEF Circulation, TokensWereIssued
  <2>8. ASSUME NEW q \in Requests, NEW k \in Logins, Carries(q, k)'
        PROVE  q # r /\ Carries(q, k) /\ CarriedToken(q).gen' = CarriedToken(q).gen
    <3>1. HasTokens(job'[q], k)
      BY <2>8, OneHandler
    <3>2. q # r
      BY <2>1, <2>2, <3>1, CarriesNothing
    <3>3. HasTokens(job[q], k) /\ GenOf(job'[q]) = GenOf(job[q])
      BY <2>2, <3>1, <3>2
    <3> QED
      BY <3>2, <3>3, OneHandler
  <2>9. AnswersCarryLiveToken'
    BY <1>a, <2>1, <2>8 DEF Circulation, AnswersCarryLiveToken
  <2>10. RotatedOnce'
    <3> SUFFICES ASSUME NEW q \in Requests, NEW k \in Logins, idp[k].rotates, Carries(q, k)'
                 PROVE  /\ held'[k] # NoPair => ~ Current(held'[k].rt, k, idp[k].gen)
                        /\ \A o \in Requests :
                              /\ job'[o].stage = "renew" /\ job'[o].login = k
                                    => ~ Current(job'[o].rt, k, idp[k].gen)
                              /\ Carries(o, k)' => o = q
      BY <2>1 DEF RotatedOnce
    <3>1. q # r /\ Carries(q, k)
      BY <2>8
    <3>2. /\ held[k] # NoPair => ~ Current(held[k].rt, k, idp[k].gen)
          /\ \A o \in Requests :
                /\ job[o].stage = "renew" /\ job[o].login = k => ~ Current(job[o].rt, k, idp[k].gen)
                /\ Carries(o, k) => o = q
      BY <1>a, <3>1 DEF Circulation, RotatedOnce
    <3>3. k = l => p.rt.type # "idp_refresh"
      BY <2>4, <3>1, <3>2
    <3>4. held'[k] # NoPair => ~ Current(held'[k].rt, k, idp[k].gen)
      BY <2>2, <3>2, <3>3 DEF Current
    <3> QED
      BY <2>1, <2>2, <2>8, <3>2, <3>4
  <2>11. StrandedOnlyByLoss'
    <3> SUFFICES ASSUME NEW k \in Logins, Stranded(k)' PROVE OnTheWay(k)' \/ k \in dropped'
      BY DEF StrandedOnlyByLoss
    <3>1. k # l
      BY <2>1, <2>2, <2>4 DEF Stranded
    <3>2. Stranded(k)
      BY <2>1, <2>2, <3>1 DEF Stranded
    <3>3. OnTheWay(k) \/ k \in dropped
      BY <1>a, <3>2 DEF Circulation, StrandedOnlyByLoss
    <3>4. OnTheWay(k) => OnTheWay(k)'
      BY <2>2, <3>1, OneHandler DEF UnderWay, l
    <3> QED
      BY <2>1, <3>1, <3>3, <3>4
  <2> QED
    BY <2>6, <2>7, <2>9, <2>10, <2>11 DEF Circulation
<1>16. ASSUME NEW r \in Requests, ReplyLost(r) PROVE Circulation'
  BY <1>16, EndStep DEF ReplyLost, Drop, UnderWay
<1> QED
  BY <1>1, <1>2, <1>3, <1>4, <1>5, <1>6, <1>8, <1>10, <1>11, <1>12, <1>13, <1>14, <1>15,
     <1>16, <1>17 DEF Next, Tick, RefuseClient, vars

\* So every state has the inductive invariant.
LEMMA FlowInvariant == Spec => []FlowInv
<1>1. Init => TypeOK
  BY TokenFlowAssumption, SMT DEF Init, TypeOK, IdpView, Job
<1>2. Init => Circulation
  BY DEF Init, Circulation, NothingBeforeExchange, TokensWereIssued, RotatedOnce,
     AnswersCarryLiveToken, StrandedOnlyByLoss, Stranded, Carries, Idle
<1> QED
  BY <1>1, <1>2, CirculationStep, PTL DEF Spec, FlowInv

(***************************************************************************)
(* LiveTokenCarried: in every interleaving of the handlers of a login, the *)
(* refresh token in an answer under way is the one the IdP honours.        *)
(***************************************************************************)
THEOREM LiveTokenCarried == Spec => []AnswersCarryLiveToken
BY FlowInvariant, PTL DEF FlowInv, Circulation

(***************************************************************************)
(* NobodyStranded: a client loses its way to go on only with an answer     *)
(* that was dropped after the IdP had spent what the client sent.          *)
(***************************************************************************)
THEOREM NobodyStranded == Spec => []StrandedOnlyByLoss
BY FlowInvariant, PTL DEF FlowInv, Circulation
--------------------------------------------------------------------------------
(***************************************************************************)
(* Where the tokens of a client come from: both halves of a pair are of    *)
(* the login it was asked for, and a JWT of that login has been validated  *)
(* before; the pair is not looked at again when it is refreshed, so this   *)
(* must hold of the answers under way too.                                 *)
(***************************************************************************)
Vouched(l, p) == /\ p.at.sub = l /\ p.rt.sub = l
                 /\ p.at.type = "si" \/ p.at \in validated
                 /\ p.rt.type = "si" \/ p.at \in validated
                 /\ p.rt.type \in {"si", "idp_refresh"}
                 /\ \E v \in validated : v.sub = l

OriginsKnown ==
    /\ \A l \in Logins : held[l] # NoPair => Vouched(l, held[l])
    /\ \A r \in Requests :
          /\ job[r].stage = "reply" => Vouched(job[r].login, job[r].pair)
          /\ job[r].stage \in {"validate", "jwks"} =>
                job[r].jwt.sub = job[r].login /\ job[r].rt.sub = job[r].login

OriginInv == TypeOK /\ OriginsKnown

\* A pair stays vouched for when more JWTs are validated.
LEMMA VouchedKept ==
    ASSUME validated \subseteq validated', NEW l, NEW p, Vouched(l, p)
    PROVE  Vouched(l, p)'
BY DEF Vouched

\* A step that moves one handler and leaves the clients alone.
LEMMA OriginMove ==
    ASSUME OriginInv, NEW r \in Requests, NEW j, job' = [job EXCEPT ![r] = j],
           held' = held, validated \subseteq validated',
           j.stage = "reply" => /\ j.pair.at.sub = j.login /\ j.pair.rt.sub = j.login
                                /\ j.pair.at.type = "si" \/ j.pair.at \in validated'
                                /\ j.pair.rt.type = "si" \/ j.pair.at \in validated'
                                /\ j.pair.rt.type \in {"si", "idp_refresh"}
                                /\ \E v \in validated' : v.sub = j.login,
           j.stage \in {"validate", "jwks"} => j.jwt.sub = j.login /\ j.rt.sub = j.login
    PROVE  OriginsKnown'
<1>1. job'[r] = j /\ \A q \in Requests : q # r => job'[q] = job[q]
  BY Moved DEF OriginInv
<1>2. ASSUME NEW q \in Requests, job'[q].stage = "reply"
      PROVE  Vouched(job[q].login, job[q].pair)'
  <2>1. CASE q = r
    BY <1>1, <1>2, <2>1 DEF Vouched
  <2>2. CASE q # r
    BY <1>1, <1>2, <2>2 DEF OriginInv, OriginsKnown, Vouched
  <2> QED
    BY <2>1, <2>2
<1>3. ASSUME NEW q \in Requests, job'[q].stage \in {"validate", "jwks"}
      PROVE  job'[q].jwt.sub = job'[q].login /\ job'[q].rt.sub = job'[q].login
  BY <1>1, <1>3 DEF OriginInv, OriginsKnown
<1>4. ASSUME NEW l \in Logins, held'[l] # NoPair
      PROVE  Vouched(l, held[l])'
  BY <1>4 DEF OriginInv, OriginsKnown, Vouched
<1> QED
  BY <1>2, <1>3, <1>4 DEF OriginsKnown

\* A handler that is done.
LEMMA OriginFinish ==
    ASSUME OriginInv, NEW r \in Requests, Finish(r), held' = held,
           validated \subseteq validated'
    PROVE  OriginsKnown'
<1>1. job' = [job EXCEPT ![r] = Idle] /\ Idle.stage = "idle"
  BY DEF Finish, Idle
<1> HIDE DEF Idle
<1> QED
  BY <1>1, OriginMove

\* Every step keeps OriginsKnown: a pair is made from an answer of the IdP, or from a pair.
LEMMA OriginStep == OriginInv /\ [Next]_vars => OriginInv'
<1> SUFFICES ASSUME OriginInv, [Next]_vars PROVE OriginsKnown'
  BY TypeStep DEF OriginInv
<1>a. /\ TypeOK /\ OriginsKnown /\ now \in Nat
      /\ \A r \in Requests : job[r] \in Job
  BY DEF OriginInv, TypeOK
<1>1. CASE UNCHANGED <<job, held, validated>>
  BY <1>a, <1>1 DEF OriginsKnown, Vouched
<1>2. ASSUME NEW b \in Behaviors, Restart(b) PROVE OriginsKnown'
  BY <1>a, <1>2 DEF Restart, OriginsKnown, Vouched, Idle
<1>3. ASSUME NEW l \in Logins, NEW c \in Clients, NEW r \in Requests, TokenRequest(r, l, c)
      PROVE  OriginsKnown'
  <2> DEFINE j == [stage |-> IF SendsAssertion(c) THEN "client" ELSE "exchange",
                   login |-> l, client |-> c]
  <2>1. /\ job' = [job EXCEPT ![r] = j] /\ UNCHANGED <<held, validated>>
        /\ j.stage \in {"client", "exchange"}
    BY <1>3 DEF TokenRequest
  <2> HIDE DEF j
  <2> QED
    BY <2>1, OriginMove
<1>13. ASSUME NEW r \in Requests, AssertionChecked(r) PROVE OriginsKnown'
  <2>1. UNCHANGED <<held, validated>>
    BY <1>13 DEF AssertionChecked
  <2>2. CASE Finish(r)
    BY <2>1, <2>2, OriginFinish
  <2>3. CASE ~ Finish(r)
    <3> DEFINE j == [stage |-> "exchange", login |-> job[r].login, client |-> job[r].client]
    <3>1. job' = [job EXCEPT ![r] = j] /\ j.stage = "exchange"
      BY <1>13, <2>3 DEF AssertionChecked
    <3> HIDE DEF j
    <3> QED
      BY <2>1, <3>1, OriginMove
  <2> QED
    BY <2>2, <2>3
<1>4. ASSUME NEW l \in Logins, NEW c \in Clients, NEW r \in Requests, RefreshRequest(r, l, c)
      PROVE  OriginsKnown'
  <2> DEFINE j == [stage |-> "renew", login |-> l, client |-> c, rt |-> held[l].rt]
  <2>1. /\ job' = [job EXCEPT ![r] = j] /\ UNCHANGED <<held, validated>>
        /\ j.stage = "renew"
    BY <1>4 DEF RefreshRequest
  <2> HIDE DEF j
  <2> QED
    BY <2>1, OriginMove
<1>5. ASSUME NEW l \in Logins, NEW c \in Clients, NEW r \in Requests,
             RefreshSelfIssued(r, l, c)
      PROVE  OriginsKnown'
  <2> DEFINE at == RefreshedAccess(held[l].rt, now, SiConfig)
             j == [stage |-> "reply", login |-> l,
                   pair |-> [at |-> at, rt |-> held[l].rt, client |-> c]]
  <2>1. /\ job' = [job EXCEPT ![r] = j] /\ UNCHANGED <<held, validated>>
        /\ held[l] # NoPair /\ held[l] \in Pair /\ held[l].rt.type = "si"
    BY <1>a, <1>5 DEF RefreshSelfIssued, TypeOK
  <2>2. held[l].rt \in RefreshBlob /\ Vouched(l, held[l])
    BY <1>a, <2>1 DEF OriginsKnown, Pair
  <2>3. at.sub = l /\ at.type = "si"
    BY <1>a, <2>1, <2>2, RefreshedTyped DEF Vouched
  <2>4. /\ j.stage = "reply" /\ j.login = l /\ j.pair.at.sub = l /\ j.pair.rt.sub = l
        /\ j.pair.at.type = "si" /\ j.pair.rt.type = "si"
        /\ \E v \in validated' : v.sub = l
    BY <2>1, <2>2, <2>3 DEF Vouched
  <2> HIDE DEF at, j
  <2> QED
    BY <2>1, <2>4, OriginMove
<1>6. ASSUME NEW r \in Requests, NEW life \in Lifetimes, NEW t, t.sub = job[r].login,
             job[r].login \in Logins,
             job' = [job EXCEPT ![r] =
                        [stage |-> "validate", login |-> job[r].login,
                         client |-> job[r].client, jwt |-> NewJWT(job[r].login, life),
                         rt |-> t]],
             UNCHANGED <<held, validated>>
      PROVE  OriginsKnown'
  <2> DEFINE j == [stage |-> "validate", login |-> job[r].login, client |-> job[r].client,
                   jwt |-> NewJWT(job[r].login, life), rt |-> t]
  <2>1. j.stage = "validate" /\ j.jwt.sub = j.login /\ j.rt.sub = j.login
    BY <1>a, <1>6, NewJWTTyped
  <2>2. job' = [job EXCEPT ![r] = j]
    BY <1>6
  <2> HIDE DEF j
  <2> QED
    BY <1>6, <2>1, <2>2, OriginMove
<1>7. ASSUME NEW r \in Requests, ExchangeAnswered(r) PROVE OriginsKnown'
  <2>1. job[r].stage = "exchange" /\ job[r].login \in Logins /\ UNCHANGED <<held, validated>>
    BY <1>a, <1>7, JobFields DEF ExchangeAnswered
  <2>2. PICK t \in Answers(job[r].login), life \in Lifetimes :
           /\ Exchanges(job[r].login, t)
           /\ job' = [job EXCEPT ![r] =
                        [stage |-> "validate", login |-> job[r].login,
                         client |-> job[r].client, jwt |-> NewJWT(job[r].login, life),
                         rt |-> t]]
    BY <1>7 DEF ExchangeAnswered
  <2>3. t.sub = job[r].login
    BY <1>a, <2>1, <2>2, ExchangesProps
  <2> QED
    BY <1>6, <2>1, <2>2, <2>3
<1>8. ASSUME NEW r \in Requests, RenewalAnswered(r) PROVE OriginsKnown'
  <2>1. /\ job[r].stage = "renew" /\ job[r].login \in Logins /\ job[r].rt \in RefreshBlob
        /\ UNCHANGED <<held, validated>>
    BY <1>a, <1>8, JobFields DEF RenewalAnswered
  <2>2. PICK t \in Answers(job[r].login), life \in Lifetimes :
           /\ Renews(job[r].login, job[r].rt, t)
           /\ job' = [job EXCEPT ![r] =
                        [stage |-> "validate", login |-> job[r].login,
                         client |-> job[r].client, jwt |-> NewJWT(job[r].login, life),
                         rt |-> TokenToSeal(job[r].rt, t)]]
    BY <1>8 DEF RenewalAnswered
  <2>3. TokenToSeal(job[r].rt, t).sub = job[r].login
    BY <1>a, <2>1, <2>2, RenewsProps
  <2> QED
    BY <1>6, <2>1, <2>2, <2>3
<1>9. ASSUME NEW r \in Requests, IdpFails(r) \/ IdpAnswerLost(r) \/ ReplyLost(r)
      PROVE  OriginsKnown'
  BY <1>9, OriginFinish DEF IdpFails, IdpAnswerLost, ReplyLost
<1>10. ASSUME NEW r \in Requests, KeyCached(r) \/ KeysFetched(r) PROVE OriginsKnown'
  <2>1. job[r].stage \in {"validate", "jwks"} /\ held' = held
    BY <1>10 DEF KeyCached, KeysFetched
  <2>2. CASE Accept(r)
    <3> DEFINE p == SealPair(job[r])
               j == [stage |-> "reply", login |-> job[r].login, pair |-> p]
    <3>1. /\ job[r].jwt.sub = job[r].login /\ job[r].login \in Logins
          /\ job[r].rt.sub = job[r].login /\ job[r].rt.type = "idp_refresh"
      BY <1>a, <2>1, JobFields DEF OriginsKnown, IdpRefresh
    <3>2. validated' = validated \cup {job[r].jwt} /\ job' = [job EXCEPT ![r] = j]
      BY <2>2 DEF Accept
    <3>3. /\ p.rt.sub = job[r].login
          /\ \/ p.at = job[r].jwt /\ p.rt.type = "idp_refresh"
             \/ p.at.type = "si" /\ p.at.sub = job[r].login /\ p.rt.type = "si"
      BY <1>a, <2>1, <3>1, SealPairProps, IssuedTyped
    <3>4. /\ p.at.sub = job[r].login
          /\ (p.at.type = "si" /\ p.rt.type = "si") \/ p.at \in validated'
      BY <3>1, <3>2, <3>3
    <3>5. j.stage = "reply" /\ j.login = job[r].login /\ j.pair = p
      OBVIOUS
    <3> HIDE DEF p, j
    <3> QED
      BY <2>1, <3>1, <3>2, <3>3, <3>4, <3>5, OriginMove
  <2>3. CASE Reject(r)
    BY <2>1, <2>3, OriginFinish DEF Reject
  <2> QED
    BY <1>10, <2>2, <2>3 DEF KeyCached, KeysFetched
<1>11. ASSUME NEW r \in Requests, KeyMissing(r) PROVE OriginsKnown'
  <2> DEFINE j == [job[r] EXCEPT !.stage = "jwks"]
  <2>1. /\ job' = [job EXCEPT ![r] = j] /\ UNCHANGED <<held, validated>>
        /\ job[r].stage = "validate"
    BY <1>11 DEF KeyMissing
  <2>2. j.stage = "jwks" /\ j.jwt.sub = j.login /\ j.rt.sub = j.login
    BY <1>a, <2>1, JobFields DEF OriginsKnown
  <2> HIDE DEF j
  <2> QED
    BY <2>1, <2>2, OriginMove
<1>12. ASSUME NEW r \in Requests, Deliver(r) PROVE OriginsKnown'
  <2>1. /\ held' = [held EXCEPT ![job[r].login] = job[r].pair]
        /\ job' = [job EXCEPT ![r] = Idle] /\ validated' = validated
        /\ Vouched(job[r].login, job[r].pair) /\ Idle.stage = "idle"
    BY <1>a, <1>12 DEF Deliver, Finish, OriginsKnown, Idle
  <2> HIDE DEF Idle
  <2> QED
    BY <1>a, <2>1 DEF TypeOK, OriginsKnown, Vouched
<1> QED
  BY <1>1, <1>2, <1>3, <1>4, <1>5, <1>7, <1>8, <1>9, <1>10, <1>11, <1>12, <1>13
     DEF Next, Tick, Authorize, RefuseClient, vars

(***************************************************************************)
(* OnlyValidatedServed: whichever half of a pair the middleware would let  *)
(* through is of the client's own login and is a JWT that ValidateJWT      *)
(* took, was issued by the proxy after it took one, or is a refresh token  *)
(* of the IdP that was sealed together with one, over any number of        *)
(* refreshes, restarts and changes of token_behavior.                      *)
(***************************************************************************)
THEOREM OnlyValidatedServed == Spec => []ServedOnlyValidated
<1>1. Init => OriginInv
  BY TokenFlowAssumption, SMT
     DEF Init, OriginInv, TypeOK, IdpView, Job, OriginsKnown, Idle
<1>2. OriginInv => ServedOnlyValidated
  BY DEF OriginInv, OriginsKnown, Vouched, ServedOnlyValidated, Bearers, WasValidated,
     SealedWithValidated
<1> QED
  BY <1>1, <1>2, OriginStep, PTL DEF Spec
--------------------------------------------------------------------------------
\* A JWT with an exp that passes ValidateJWT would have passed the middleware a leeway ago.
LEMMA ValidatedResolves ==
    ASSUME now \in Nat, NEW jwt \in JWT, jwt.exp # NoExp, NotExpired(jwt, now)
    PROVE  Resolves(jwt, now - Leeway)
<1>1. jwt.type = "jwt" /\ jwt.exp \in Nat /\ now < 2 * jwt.exp + Leeway /\ Leeway \in Nat
  BY TokenFlowAssumption DEF JWT, NotExpired
<1>2. ~ (2 * jwt.exp < now - Leeway)
  BY <1>1, SMT
<1> QED
  BY <1>1, <1>2 DEF Resolves

\* A self-issued token that is not over now was not over a leeway ago.
LEMMA SelfIssuedResolves ==
    ASSUME now \in Nat, NEW b, b.type = "si", b.exp \in Nat, Unix(now) <= b.exp
    PROVE  Resolves(b, now - Leeway)
<1>1. now - Leeway \in Int /\ now \in Int /\ now - Leeway <= now
  BY TokenFlowAssumption, SMT
<1>2. Unix(now - Leeway) <= Unix(now) /\ Unix(now - Leeway) \in Int /\ Unix(now) \in Int
  BY <1>1, UnixOrder
<1>3. ~ (Unix(now - Leeway) > b.exp)
  BY <1>2, SMT
<1> QED
  BY <1>3 DEF Resolves

\* The action property AnswersResolve: whichever step makes the answer, its token would have
\* passed the middleware a leeway ago.
LEMMA AnswersResolveStep == TypeOK /\ [Next]_vars => [AnswersResolve]_vars
<1> SUFFICES ASSUME TypeOK, Next, NEW r \in Requests,
                    job[r].stage # "reply", job'[r].stage = "reply",
                    job'[r].pair.at.exp # NoExp
             PROVE  Resolves(job'[r].pair.at, now - Leeway)
  BY DEF AnswersResolve, vars
<1>a. /\ now \in Nat /\ \A q \in Requests : job[q] \in Job
      /\ EffectiveTTL(SiConfig) \in Nat
  BY TokenFlowAssumption, EffectiveNat DEF TypeOK
<1>b. /\ now + EffectiveTTL(SiConfig) \in Nat /\ now <= now + EffectiveTTL(SiConfig)
      /\ Unix(now) \in Nat
  BY <1>a, UnixNat, SMT
<1>c. /\ Unix(now) <= Unix(now + EffectiveTTL(SiConfig))
      /\ Unix(now + EffectiveTTL(SiConfig)) \in Nat
  BY <1>a, <1>b, UnixMonotone
<1>d. job'[r] # job[r]
  OBVIOUS
<1>1. CASE UNCHANGED job
  BY <1>1, <1>d
<1>2. ASSUME NEW b \in Behaviors, Restart(b) PROVE FALSE
  BY <1>2 DEF Restart, Idle
<1>3. ASSUME NEW q \in Requests, NEW j, job' = [job EXCEPT ![q] = j]
      PROVE  q = r /\ job'[r] = j
  BY <1>3, <1>d, Moved
<1>4. ASSUME NEW q \in Requests, NEW j, job' = [job EXCEPT ![q] = j], j.stage # "reply"
      PROVE  FALSE
  BY <1>3, <1>4
<1>5. ASSUME NEW l \in Logins, NEW c \in Clients, NEW q \in Requests, TokenRequest(q, l, c)
      PROVE  FALSE
  <2> DEFINE j == [stage |-> IF SendsAssertion(c) THEN "client" ELSE "exchange",
                   login |-> l, client |-> c]
  <2>1. job' = [job EXCEPT ![q] = j] /\ j.stage \in {"client", "exchange"}
    BY <1>5 DEF TokenRequest
  <2> HIDE DEF j
  <2> QED  BY <1>4, <2>1
<1>6. ASSUME NEW l \in Logins, NEW c \in Clients, NEW q \in Requests, RefreshRequest(q, l, c)
      PROVE  FALSE
  <2> DEFINE j == [stage |-> "renew", login |-> l, client |-> c, rt |-> held[l].rt]
  <2>1. job' = [job EXCEPT ![q] = j] /\ j.stage = "renew"
    BY <1>6 DEF RefreshRequest
  <2> HIDE DEF j
  <2> QED  BY <1>4, <2>1
<1>7. ASSUME NEW l \in Logins, NEW c \in Clients, NEW q \in Requests,
             RefreshSelfIssued(q, l, c)
      PROVE  Resolves(job'[r].pair.at, now - Leeway)
  <2> DEFINE b == held[l].rt
             at == RefreshedAccess(b, now, SiConfig)
  <2>1. held[l] \in Pair /\ b.type = "si" /\ MayRefresh(b, now)
    BY <1>7 DEF RefreshSelfIssued, TypeOK
  <2>2. b \in RefreshBlob /\ b.exp \in Nat
    BY <2>1 DEF Pair, RefreshBlob, IdpRefresh
  <2>3. job'[r].pair.at = at
    BY <1>3, <1>7 DEF RefreshSelfIssued
  <2>4. Unix(now) <= b.exp
    BY <1>b, <2>1, <2>2, SMT DEF MayRefresh
  <2>5. /\ at.type = "si"
        /\ at.exp = Earlier(Unix(now + EffectiveTTL(SiConfig)), b.exp)
    BY DEF RefreshedAccess, SelfIssued
  <2>6. at.exp \in Nat /\ Unix(now) <= at.exp
    BY <1>c, <2>2, <2>4, <2>5, EarlierProps
  <2> QED
    BY <1>a, <2>3, <2>5, <2>6, SelfIssuedResolves
<1>8. ASSUME NEW q \in Requests, ExchangeAnswered(q) \/ RenewalAnswered(q)
      PROVE  FALSE
  <2>1. PICK life, t :
           job' = [job EXCEPT ![q] =
                     [stage |-> "validate", login |-> job[q].login, client |-> job[q].client,
                      jwt |-> NewJWT(job[q].login, life), rt |-> t]]
    BY <1>8 DEF ExchangeAnswered, RenewalAnswered
  <2> DEFINE j == [stage |-> "validate", login |-> job[q].login, client |-> job[q].client,
                   jwt |-> NewJWT(job[q].login, life), rt |-> t]
  <2>2. job' = [job EXCEPT ![q] = j] /\ j.stage = "validate"
    BY <2>1
  <2> HIDE DEF j
  <2> QED  BY <1>4, <2>2
<1>9. ASSUME NEW q \in Requests, Finish(q) PROVE FALSE
  <2>1. job' = [job EXCEPT ![q] = Idle] /\ Idle.stage = "idle"
    BY <1>9 DEF Finish, Idle
  <2> QED  BY <1>4, <2>1
<1>12. ASSUME NEW q \in Requests, AssertionChecked(q) PROVE FALSE
  <2> DEFINE j == [stage |-> "exchange", login |-> job[q].login, client |-> job[q].client]
  <2>1. j.stage = "exchange"
    OBVIOUS
  <2>2. job' = [job EXCEPT ![q] = j] \/ Finish(q)
    BY <1>12 DEF AssertionChecked
  <2> HIDE DEF j
  <2> QED  BY <1>4, <1>9, <2>1, <2>2
<1>10. ASSUME NEW q \in Requests, job[q].stage \in {"validate", "jwks"}, Accept(q)
       PROVE  Resolves(job'[r].pair.at, now - Leeway)
  <2>1. job'[r].pair = SealPair(job[q]) /\ NotExpired(job[q].jwt, now)
    BY <1>3, <1>10 DEF Accept
  <2>2. job[q].jwt \in JWT
    BY <1>a, <1>10, JobFields
  <2>3. \/ job'[r].pair.at = job[q].jwt
        \/ job'[r].pair.at = IssuedAccess(job[q].login, now, SiConfig)
    BY <1>a, <1>10, <2>1, SealPairProps
  <2>4. /\ IssuedAccess(job[q].login, now, SiConfig).type = "si"
        /\ IssuedAccess(job[q].login, now, SiConfig).exp
             = Unix(now + EffectiveTTL(SiConfig))
    BY DEF IssuedAccess, SelfIssued
  <2> QED
    BY <1>a, <1>c, <2>1, <2>2, <2>3, <2>4, ValidatedResolves, SelfIssuedResolves
<1>11. ASSUME NEW q \in Requests, KeyMissing(q) PROVE FALSE
  <2> DEFINE j == [job[q] EXCEPT !.stage = "jwks"]
  <2>1. job' = [job EXCEPT ![q] = j] /\ job[q].stage = "validate"
    BY <1>11 DEF KeyMissing
  <2>2. j.stage = "jwks"
    BY <1>a, <2>1, JobFields
  <2> HIDE DEF j
  <2> QED  BY <1>4, <2>1, <2>2
<1> QED
  BY <1>1, <1>2, <1>5, <1>6, <1>7, <1>8, <1>9, <1>10, <1>11, <1>12
     DEF Next, Tick, Authorize, RefuseClient, IdpFails, IdpAnswerLost, KeyCached, KeysFetched,
         Reject, Deliver, ReplyLost

(***************************************************************************)
(* NewAnswersResolve: for every lifetime, ttl and leeway, the access token *)
(* in a new answer, unless it is a JWT without exp, would have passed the  *)
(* middleware a leeway ago.                                                *)
(***************************************************************************)
THEOREM NewAnswersResolve == Spec => IssuedTokenResolves
BY TypeCorrect, AnswersResolveStep, PTL DEF Spec, IssuedTokenResolves
================================================================================
