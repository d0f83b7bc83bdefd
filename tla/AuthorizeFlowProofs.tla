-------------------------- MODULE AuthorizeFlowProofs --------------------------
(***************************************************************************)
(* Theorems about AuthorizeFlow.                                           *)
(***************************************************************************)
EXTENDS AuthorizeFlow, TLAPS

\* The members each stage of a flow has.
LEMMA FlowFields ==
    ASSUME NEW s \in Flow
    PROVE  /\ s.stage \in {"lookup", "fetching", "response"} => s.check \in Checks
           /\ s.stage \in {"fetching", "response"} => s.asked \in Nat
           /\ s.stage = "response" => s.doc \in Docs
           /\ s.stage = "at_idp" => s.client \in Clients /\ s.uri \in Uris /\ s.since \in Nat
           /\ s.stage = "redirected" =>
                 /\ s.client \in Clients /\ s.uri \in Uris
                 /\ s.doc \in Docs \cup {None} /\ s.time \in Nat
           /\ s.stage = "refused" =>
                 /\ s.client \in Clients /\ s.uri \in Uris /\ s.at \in Ends
                 /\ s.since \in Nat
BY DEF Flow, New

\* The fields of a redirect check of handleAuthorize or handleCallback.
LEMMA CheckFields ==
    ASSUME NEW k \in Checks
    PROVE  k.client \in UrlClients /\ k.client \in Clients /\ k.uri \in Uris
           /\ k.at \in Ends /\ k.since \in Nat
BY DEF Checks, Clients

\* A check as it is made at either end, of a client of either kind.
LEMMA OutcomeInFlow ==
    ASSUME NEW c \in Clients, NEW x \in Uris, NEW at \in Ends, NEW since \in Nat,
           NEW reg, NEW d \in Docs \cup {None}, now \in Nat
    PROVE  Outcome([client |-> c, uri |-> x, at |-> at, since |-> since], reg, d) \in Flow
BY DEF Outcome, Refused, AtIdp, Redirected, Flow

\* The outcome of a check is a flow.
LEMMA CheckOutcome ==
    ASSUME NEW k \in Checks, NEW reg, NEW d \in Docs \cup {None}, now \in Nat
    PROVE  Outcome(k, reg, d) \in Flow
BY CheckFields DEF Outcome, Refused, AtIdp, Redirected, Flow

\* A refused check is a flow.
LEMMA RefusedInFlow ==
    ASSUME NEW k \in Checks, NEW why \in {"unregistered", "scheme", "fetch", "restart"}
    PROVE  Refused(k, why) \in Flow
BY CheckFields DEF Refused, Flow

\* assertRedirectURI leaves the flow somewhere in Flow.
LEMMA AssertTyped ==
    ASSUME TypeOK, NEW f \in Flows, NEW c \in Clients, NEW x \in Uris,
           NEW at \in Ends, NEW since \in Nat,
           AssertRedirectURI(f, Check(c, x, at, since))
    PROVE  flow' \in [Flows -> Flow]
<1> DEFINE k == Check(c, x, at, since)
<1>1. k.client = c /\ k.uri = x
  BY DEF Check
<1>2. CASE c \in DcrClients
  <2>1. Outcome(k, x \in Registered[c], None) \in Flow
    BY OutcomeInFlow DEF Check, TypeOK
  <2> QED  BY <1>1, <1>2, <2>1 DEF AssertRedirectURI, Goto, TypeOK
<1>3. CASE c \notin DcrClients
  <2>1. k \in Checks
    BY <1>3 DEF Check, Checks, Clients
  <2>2. [stage |-> "lookup", check |-> k] \in Flow
    BY <2>1 DEF Flow
  <2> QED  BY <1>1, <1>3, <2>2 DEF AssertRedirectURI, Goto, TypeOK
<1> QED  BY <1>2, <1>3

\* Concluding a check leaves the flow somewhere in Flow.
LEMMA ConcludeTyped ==
    ASSUME TypeOK, NEW f \in Flows, NEW d \in Docs,
           flow[f].stage \in {"lookup", "fetching", "response"}, Conclude(f, d)
    PROVE  flow' \in [Flows -> Flow]
<1>1. flow[f].check \in Checks
  BY FlowFields DEF TypeOK
<1>2. Outcome(flow[f].check, Lists(d, flow[f].check.uri), d) \in Flow
  BY <1>1, CheckOutcome DEF TypeOK
<1> QED  BY <1>2 DEF Conclude, Goto, TypeOK

\* Every step keeps the type invariant.
LEMMA TypeStep == TypeOK /\ [Next]_vars => TypeOK'
<1> SUFFICES ASSUME TypeOK, [Next]_vars
             PROVE  TypeOK'
  OBVIOUS
<1> USE AuthorizeAssumption
<1>1. CASE Tick
  BY <1>1 DEF Tick, TypeOK
<1>2. CASE Restart
  <2>1. ASSUME NEW f \in Flows
        PROVE  (IF flow[f].stage \in {"lookup", "fetching", "response"}
                THEN Refused(flow[f].check, "restart") ELSE flow[f]) \in Flow
    BY FlowFields, RefusedInFlow DEF TypeOK
  <2> QED  BY <1>2, <2>1 DEF Restart, TypeOK
<1>3. ASSUME NEW c \in UrlClients, NEW d \in Docs, Publish(c, d) PROVE TypeOK'
  BY <1>3 DEF Publish, TypeOK
<1>4. ASSUME NEW f \in Flows, NEW c \in Clients, NEW x \in Uris, Authenticate(f, c, x)
      PROVE  TypeOK'
  BY <1>4, AssertTyped DEF Authenticate, TypeOK, Ends
<1>5. ASSUME NEW f \in Flows, Callback(f) PROVE TypeOK'
  <2>1. flow[f].client \in Clients /\ flow[f].uri \in Uris /\ flow[f].since \in Nat
    BY <1>5, FlowFields DEF Callback, TypeOK
  <2> QED  BY <1>5, <2>1, AssertTyped DEF Callback, TypeOK, Ends
<1>6. ASSUME NEW f \in Flows, CacheHit(f) PROVE TypeOK'
  <2>1. flow[f].check.client \in UrlClients
    BY <1>6, FlowFields, CheckFields DEF CacheHit, TypeOK
  <2>2. cache[flow[f].check.client].doc \in Docs
    BY <1>6, <2>1 DEF CacheHit, Fresh, TypeOK
  <2> QED  BY <1>6, <2>2, ConcludeTyped DEF CacheHit, TypeOK
<1>7. ASSUME NEW f \in Flows, CacheMiss(f) PROVE TypeOK'
  <2>1. [stage |-> "fetching", check |-> flow[f].check, asked |-> now] \in Flow
    BY <1>7, FlowFields DEF CacheMiss, TypeOK, Flow
  <2> QED  BY <1>7, <2>1 DEF CacheMiss, Goto, TypeOK
<1>8. ASSUME NEW f \in Flows, ServerAnswers(f) PROVE TypeOK'
  <2>1. flow[f].check \in Checks /\ flow[f].asked \in Nat
    BY <1>8, FlowFields DEF ServerAnswers, TypeOK
  <2>2. published[flow[f].check.client] \in Docs
    BY <2>1, CheckFields DEF TypeOK
  <2>3. [stage |-> "response", check |-> flow[f].check, asked |-> flow[f].asked,
         doc |-> published[flow[f].check.client]] \in Flow
    BY <2>1, <2>2 DEF Flow
  <2> QED  BY <1>8, <2>3 DEF ServerAnswers, Goto, TypeOK
<1>9. ASSUME NEW f \in Flows, FetchFails(f) PROVE TypeOK'
  BY <1>9, FlowFields, RefusedInFlow DEF FetchFails, Goto, TypeOK
<1>10. ASSUME NEW f \in Flows, Receive(f) PROVE TypeOK'
  <2>1. flow[f].check \in Checks /\ flow[f].doc \in Docs
    BY <1>10, FlowFields DEF Receive, TypeOK
  <2>2. flow[f].check.client \in UrlClients
    BY <2>1, CheckFields
  <2>3. flow' \in [Flows -> Flow]
    <3>1. CASE flow[f].doc.valid
      BY <1>10, <2>1, <3>1, ConcludeTyped DEF Receive
    <3>2. CASE ~ flow[f].doc.valid
      BY <1>10, <2>1, <3>2, RefusedInFlow DEF Receive, Goto, TypeOK
    <3> QED  BY <3>1, <3>2
  <2>4. [doc |-> flow[f].doc, expires |-> now + TTL] \in [doc : Docs, expires : Nat]
    BY <2>1 DEF TypeOK
  <2>5. cache' \in [UrlClients -> [doc : Docs, expires : Nat] \cup {None}]
    BY <1>10, <2>2, <2>4 DEF Receive, TypeOK
  <2> QED  BY <1>10, <2>3, <2>5 DEF Receive, TypeOK
<1>11. CASE UNCHANGED vars
  BY <1>11 DEF vars, TypeOK
<1> QED
  BY <1>1, <1>2, <1>3, <1>4, <1>5, <1>6, <1>7, <1>8, <1>9, <1>10, <1>11 DEF Next

(***************************************************************************)
(* TypeCorrect: the type invariant.                                        *)
(***************************************************************************)
THEOREM TypeCorrect == Spec => []TypeOK
<1>1. Init => TypeOK
  BY AuthorizeAssumption DEF Init, TypeOK, Flow, New
<1> QED  BY <1>1, TypeStep, PTL DEF Spec
--------------------------------------------------------------------------------
(***************************************************************************)
(* The inductive invariant.  Its parts are written over values n, live and *)
(* pub of the clock, lastLive and published, so that the lemma that they   *)
(* survive a step of the environment is about values and not about states. *)
(***************************************************************************)
Lives == [UrlClients -> [Docs -> Nat \cup {-1}]]
Publications == [UrlClients -> Docs]

\* What is published is live now, and nothing is live later than now.
LiveOK(n, live, pub) ==
    \A c \in UrlClients : /\ live[c][pub[c]] = n
                          /\ \A d \in Docs : live[c][d] <= n

\* Document d of client c was served and may be relied on at time t.
Reaches(live, c, d, t) == /\ d \in Docs
                          /\ live[c][d] # -1
                          /\ t <= live[c][d] + TTL + MaxFlight

\* What a pass of /auth at time since leaves behind.
LetThrough(n, live, c, x, since) ==
    /\ since <= n
    /\ IF c \in DcrClients
       THEN x \in Registered[c]
       ELSE \E d \in Docs : Lists(d, x) /\ Reaches(live, c, d, since)

Checking == {"lookup", "fetching", "response"}

FetchInTime(s, n, live) ==
    /\ s.stage \in {"fetching", "response"} => s.asked <= n /\ n <= s.asked + MaxFlight
    /\ s.stage = "response" => live[s.check.client][s.doc] >= s.asked

PassedAuth(s, n, live) ==
    /\ s.stage \in Checking /\ s.check.at = "callback" =>
           LetThrough(n, live, s.check.client, s.check.uri, s.check.since)
    /\ s.stage = "at_idp" => LetThrough(n, live, s.client, s.uri, s.since)

RedirectOK(s, live) ==
    s.stage = "redirected" =>
        IF s.client \in DcrClients
        THEN s.uri \in Registered[s.client]
        ELSE s.doc.valid /\ Lists(s.doc, s.uri) /\ Reaches(live, s.client, s.doc, s.time)

RefusalOK(s, n, live, pub) ==
    s.stage = "refused" /\ s.at = "callback" =>
        /\ s.since <= n
        /\ s.why = "scheme" => ~ IsWeb(s.uri)
        /\ s.why = "unregistered" =>
              /\ s.client \in UrlClients
              /\ \E d \in Docs \ {pub[s.client]} :
                    live[s.client][d] >= s.since - TTL - MaxFlight
        /\ s.why \in {"fetch", "restart"} => s.client \in UrlClients

FlowOK(s, n, live, pub) == /\ FetchInTime(s, n, live)
                           /\ PassedAuth(s, n, live)
                           /\ RedirectOK(s, live)
                           /\ RefusalOK(s, n, live, pub)

\* A cache entry holds a valid document and ends in time.
CacheOK(live) ==
    \A c \in UrlClients :
        cache[c] # None => /\ cache[c].doc.valid
                           /\ Reaches(live, c, cache[c].doc, cache[c].expires)

IInv == /\ TypeOK
        /\ LiveOK(now, lastLive, published)
        /\ CacheOK(lastLive)
        /\ \A f \in Flows : FlowOK(flow[f], now, lastLive, published)

\* The environment moves on: clients publish, time passes.
MovesOn(n, live, pub, n2, live2, pub2) ==
    /\ n \in Nat /\ n2 \in Nat /\ n <= n2
    /\ live \in Lives /\ live2 \in Lives
    /\ pub \in Publications /\ pub2 \in Publications
    /\ \A c \in UrlClients, d \in Docs : live[c][d] <= live2[c][d]

\* A document that reaches until t still does after the environment moved on.
LEMMA ReachesStable ==
    ASSUME NEW n, NEW live, NEW pub, NEW n2, NEW live2, NEW pub2,
           MovesOn(n, live, pub, n2, live2, pub2),
           NEW c \in UrlClients, NEW d, NEW t \in Int, Reaches(live, c, d, t)
    PROVE  Reaches(live2, c, d, t)
<1>1. d \in Docs /\ live[c][d] \in Nat \cup {-1} /\ live2[c][d] \in Nat \cup {-1}
      /\ live[c][d] <= live2[c][d]
  BY DEF MovesOn, Lives, Reaches
<1>2. live[c][d] # -1 /\ t <= live[c][d] + TTL + MaxFlight
  BY DEF Reaches
<1>3. live2[c][d] # -1 /\ t <= live2[c][d] + TTL + MaxFlight
  BY <1>1, <1>2, AuthorizeAssumption
<1> QED  BY <1>1, <1>3 DEF Reaches

\* The evidence of a pass of /auth survives a step of the environment.
LEMMA LetThroughStable ==
    ASSUME NEW n, NEW live, NEW pub, NEW n2, NEW live2, NEW pub2,
           MovesOn(n, live, pub, n2, live2, pub2),
           NEW c \in Clients, NEW x, NEW since \in Nat, LetThrough(n, live, c, x, since)
    PROVE  LetThrough(n2, live2, c, x, since)
<1>1. since <= n2
  BY DEF MovesOn, LetThrough
<1>2. CASE c \in DcrClients
  BY <1>1, <1>2 DEF LetThrough
<1>3. CASE c \notin DcrClients
  <2>1. PICK d \in Docs : Lists(d, x) /\ Reaches(live, c, d, since)
    BY <1>3 DEF LetThrough
  <2>2. Reaches(live2, c, d, since)
    BY <1>3, <2>1, ReachesStable DEF Clients
  <2> QED  BY <1>1, <1>3, <2>1, <2>2 DEF LetThrough
<1> QED  BY <1>2, <1>3

\* FlowOK survives a step of the environment.
LEMMA FlowStable ==
    ASSUME NEW n, NEW live, NEW pub, NEW n2, NEW live2, NEW pub2,
           MovesOn(n, live, pub, n2, live2, pub2), LiveOK(n, live, pub),
           NEW s \in Flow, FlowOK(s, n, live, pub),
           s.stage \in {"fetching", "response"} => n2 <= s.asked + MaxFlight
    PROVE  FlowOK(s, n2, live2, pub2)
<1>1. FetchInTime(s, n2, live2)
  <2>1. s.stage \in {"fetching", "response"} => s.asked <= n2
    BY FlowFields DEF FlowOK, FetchInTime, MovesOn
  <2>2. s.stage = "response" => live2[s.check.client][s.doc] >= s.asked
    <3> SUFFICES ASSUME s.stage = "response"
                 PROVE  live2[s.check.client][s.doc] >= s.asked
      OBVIOUS
    <3>1. s.check.client \in UrlClients /\ s.doc \in Docs /\ s.asked \in Nat
      BY FlowFields, CheckFields
    <3>2. live[s.check.client][s.doc] \in Int /\ live2[s.check.client][s.doc] \in Int
          /\ live[s.check.client][s.doc] <= live2[s.check.client][s.doc]
      BY <3>1 DEF MovesOn, Lives
    <3>3. live[s.check.client][s.doc] >= s.asked
      BY DEF FlowOK, FetchInTime
    <3> QED  BY <3>1, <3>2, <3>3
  <2> QED  BY <2>1, <2>2 DEF FetchInTime
<1>2. PassedAuth(s, n2, live2)
  <2>1. ASSUME s.stage \in Checking, s.check.at = "callback"
        PROVE  LetThrough(n2, live2, s.check.client, s.check.uri, s.check.since)
    BY <2>1, FlowFields, CheckFields, LetThroughStable DEF FlowOK, PassedAuth, Checking
  <2>2. ASSUME s.stage = "at_idp" PROVE LetThrough(n2, live2, s.client, s.uri, s.since)
    BY <2>2, FlowFields, LetThroughStable DEF FlowOK, PassedAuth
  <2> QED  BY <2>1, <2>2 DEF PassedAuth
<1>3. RedirectOK(s, live2)
  <2> SUFFICES ASSUME s.stage = "redirected", s.client \notin DcrClients
               PROVE  Reaches(live2, s.client, s.doc, s.time)
    BY DEF FlowOK, RedirectOK
  <2>1. s.client \in UrlClients /\ s.time \in Int
    BY FlowFields DEF Clients
  <2> QED  BY <2>1, ReachesStable DEF FlowOK, RedirectOK
<1>4. RefusalOK(s, n2, live2, pub2)
  <2> SUFFICES ASSUME s.stage = "refused", s.at = "callback"
               PROVE  /\ s.since <= n2
                      /\ s.why = "unregistered" =>
                           \E d \in Docs \ {pub2[s.client]} :
                              live2[s.client][d] >= s.since - TTL - MaxFlight
    BY DEF FlowOK, RefusalOK
  <2>1. s.since \in Nat /\ s.since <= n /\ s.since <= n2
    BY FlowFields DEF FlowOK, RefusalOK, MovesOn
  <2>2. ASSUME s.why = "unregistered"
        PROVE  \E d \in Docs \ {pub2[s.client]} :
                   live2[s.client][d] >= s.since - TTL - MaxFlight
    <3> DEFINE c == s.client
    <3>1. c \in UrlClients
      BY <2>2 DEF FlowOK, RefusalOK
    <3>2. PICK d \in Docs \ {pub[c]} : live[c][d] >= s.since - TTL - MaxFlight
      BY <2>2 DEF FlowOK, RefusalOK
    <3>3. pub[c] \in Docs /\ pub2[c] \in Docs /\ live[c][pub[c]] = n
      BY <3>1 DEF MovesOn, Publications, LiveOK
    <3>4. \A e \in Docs : live[c][e] \in Int /\ live2[c][e] \in Int
                          /\ live[c][e] <= live2[c][e]
      BY <3>1 DEF MovesOn, Lives
    <3>5. live2[c][d] >= s.since - TTL - MaxFlight
      BY <2>1, <3>2, <3>4, AuthorizeAssumption
    <3>6. live2[c][pub[c]] >= s.since - TTL - MaxFlight
      <4>1. live2[c][pub[c]] \in Int /\ n <= live2[c][pub[c]] /\ n \in Nat
        BY <3>3, <3>4 DEF MovesOn
      <4> QED  BY <2>1, <4>1, AuthorizeAssumption
    <3> QED  BY <3>2, <3>3, <3>5, <3>6
  <2> QED  BY <2>1, <2>2
<1> QED  BY <1>1, <1>2, <1>3, <1>4 DEF FlowOK

\* The environment's steps: the clock and the documents move on.
LEMMA EnvironmentMoves ==
    ASSUME TypeOK, TypeOK', LiveOK(now, lastLive, published),
           Tick \/ \E c \in UrlClients, d \in Docs : Publish(c, d)
    PROVE  /\ MovesOn(now, lastLive, published, now', lastLive', published')
           /\ LiveOK(now', lastLive', published')
<1>1. /\ now \in Nat /\ now' \in Nat /\ lastLive \in Lives /\ lastLive' \in Lives
      /\ published \in Publications /\ published' \in Publications
  BY DEF TypeOK, Lives, Publications
<1>2. \A c \in UrlClients : published[c] \in Docs
  BY DEF TypeOK
<1>3. \A c \in UrlClients, d \in Docs : lastLive[c][d] \in Int
  BY DEF TypeOK
<1>4. CASE Tick
  <2>1. \A c \in UrlClients, d \in Docs :
            lastLive'[c][d] = IF d = published[c] THEN now + 1 ELSE lastLive[c][d]
    BY <1>1, <1>4 DEF Tick, Lives
  <2>2. now' = now + 1 /\ published' = published
    BY <1>4 DEF Tick
  <2>3. \A c \in UrlClients, d \in Docs :
            lastLive[c][d] <= lastLive'[c][d] /\ lastLive'[c][d] <= now'
    BY <1>1, <1>3, <2>1, <2>2 DEF LiveOK
  <2> QED  BY <1>1, <1>2, <2>1, <2>2, <2>3 DEF MovesOn, LiveOK
<1>5. ASSUME NEW c0 \in UrlClients, NEW d0 \in Docs, Publish(c0, d0)
      PROVE  /\ MovesOn(now, lastLive, published, now', lastLive', published')
             /\ LiveOK(now', lastLive', published')
  <2>1. \A c \in UrlClients, d \in Docs :
            lastLive'[c][d] = IF c = c0 /\ d = d0 THEN now ELSE lastLive[c][d]
    BY <1>1, <1>5 DEF Publish, Lives
  <2>2. /\ now' = now
        /\ \A c \in UrlClients : published'[c] = IF c = c0 THEN d0 ELSE published[c]
    BY <1>1, <1>5 DEF Publish, Publications
  <2>3. \A c \in UrlClients, d \in Docs :
            lastLive[c][d] <= lastLive'[c][d] /\ lastLive'[c][d] <= now'
    BY <1>1, <1>3, <2>1, <2>2 DEF LiveOK
  <2>4. \A c \in UrlClients : lastLive'[c][published'[c]] = now'
    <3> SUFFICES ASSUME NEW c \in UrlClients PROVE lastLive'[c][published'[c]] = now'
      OBVIOUS
    <3>1. CASE c = c0
      BY <2>1, <2>2, <3>1
    <3>2. CASE c # c0
      BY <1>2, <2>1, <2>2, <3>2 DEF LiveOK
    <3> QED  BY <3>1, <3>2
  <2> QED  BY <1>1, <2>2, <2>3, <2>4 DEF MovesOn, LiveOK
<1> QED  BY <1>4, <1>5

\* Tick and Publish keep the inductive invariant.
LEMMA EnvironmentStep ==
    ASSUME IInv, TypeOK', Tick \/ \E c \in UrlClients, d \in Docs : Publish(c, d)
    PROVE  IInv'
<1>1. /\ MovesOn(now, lastLive, published, now', lastLive', published')
      /\ LiveOK(now', lastLive', published')
  BY EnvironmentMoves DEF IInv
<1>2. cache' = cache /\ flow' = flow
  BY DEF Tick, Publish
<1>3. CacheOK(lastLive)'
  <2> SUFFICES ASSUME NEW c \in UrlClients, cache[c] # None
               PROVE  Reaches(lastLive', c, cache[c].doc, cache[c].expires)
    BY <1>2 DEF CacheOK, IInv
  <2>1. cache[c].expires \in Int /\ Reaches(lastLive, c, cache[c].doc, cache[c].expires)
    BY DEF IInv, CacheOK, TypeOK
  <2> QED  BY <1>1, <2>1, ReachesStable
<1>4. ASSUME NEW f \in Flows
      PROVE  FlowOK(flow[f], now', lastLive', published')
  <2>1. flow[f] \in Flow /\ FlowOK(flow[f], now, lastLive, published)
        /\ LiveOK(now, lastLive, published) /\ now \in Nat
    BY DEF IInv, TypeOK
  <2>2. flow[f].stage \in {"fetching", "response"} => now' <= flow[f].asked + MaxFlight
    <3> SUFFICES ASSUME flow[f].stage \in {"fetching", "response"}
                 PROVE  now' <= flow[f].asked + MaxFlight
      OBVIOUS
    <3>1. flow[f].asked \in Nat /\ now <= flow[f].asked + MaxFlight
      BY <2>1, FlowFields DEF FlowOK, FetchInTime
    <3>2. CASE Tick
      <4>1. now < flow[f].asked + MaxFlight /\ now' = now + 1
        BY <3>2 DEF Tick
      <4> QED  BY <2>1, <3>1, <4>1, AuthorizeAssumption
    <3>3. CASE \E c \in UrlClients, d \in Docs : Publish(c, d)
      BY <3>1, <3>3 DEF Publish
    <3> QED  BY <3>2, <3>3
  <2> QED  BY <1>1, <2>1, <2>2, FlowStable
<1> QED  BY <1>1, <1>2, <1>3, <1>4 DEF IInv

\* A check that ends without a document refuses as RefusalOK says.
LEMMA RefusedOK ==
    ASSUME TypeOK, NEW k \in Checks, NEW why \in {"fetch", "restart"},
           k.at = "callback" => LetThrough(now, lastLive, k.client, k.uri, k.since)
    PROVE  FlowOK(Refused(k, why), now, lastLive, published)
BY CheckFields
   DEF FlowOK, FetchInTime, PassedAuth, RedirectOK, RefusalOK, Refused, LetThrough, Checking

\* The outcome of a check against a valid document that reaches until now.
LEMMA DocumentOutcome ==
    ASSUME TypeOK, NEW k \in Checks, NEW d \in Docs, d.valid,
           Reaches(lastLive, k.client, d, now),
           k.at = "callback" => LetThrough(now, lastLive, k.client, k.uri, k.since)
    PROVE  FlowOK(Outcome(k, Lists(d, k.uri), d), now, lastLive, published)
<1> DEFINE o == Outcome(k, Lists(d, k.uri), d)
<1>0. /\ k.client \in UrlClients /\ k.client \notin DcrClients
      /\ k.at \in {"auth", "callback"} /\ k.since \in Nat /\ now \in Nat
  BY CheckFields, AuthorizeAssumption DEF Ends, TypeOK
<1>1. CASE ~ Lists(d, k.uri)
  <2>1. o = Refused(k, "unregistered")
    BY <1>1 DEF Outcome
  <2>2. ASSUME k.at = "callback"
        PROVE  \E e \in Docs \ {published[k.client]} :
                   lastLive[k.client][e] >= k.since - TTL - MaxFlight
    <3>1. k.since <= now
      BY <2>2 DEF LetThrough
    <3>2. PICK d0 \in Docs : Lists(d0, k.uri) /\ Reaches(lastLive, k.client, d0, k.since)
      BY <1>0, <2>2 DEF LetThrough
    <3>3. d0 # d
      BY <1>1, <3>2
    <3>4. \A e \in Docs : lastLive[k.client][e] \in Int
      BY <1>0 DEF TypeOK
    <3>5. lastLive[k.client][d0] >= k.since - TTL - MaxFlight
      BY <1>0, <3>2, <3>4, AuthorizeAssumption DEF Reaches
    <3>6. lastLive[k.client][d] >= k.since - TTL - MaxFlight
      BY <1>0, <3>1, <3>4, AuthorizeAssumption DEF Reaches
    <3> QED  BY <3>2, <3>3, <3>5, <3>6
  <2>3. k.at = "callback" => k.since <= now
    BY DEF LetThrough
  <2> QED
    BY <1>0, <2>1, <2>2, <2>3
    DEF FlowOK, FetchInTime, PassedAuth, RedirectOK, RefusalOK, Refused, Checking
<1>2. CASE Lists(d, k.uri) /\ k.at = "auth"
  <2>1. o = AtIdp(k)
    BY <1>2 DEF Outcome
  <2>2. LetThrough(now, lastLive, k.client, k.uri, now)
    BY <1>0, <1>2 DEF LetThrough
  <2> QED
    BY <2>1, <2>2
    DEF FlowOK, FetchInTime, PassedAuth, RedirectOK, RefusalOK, AtIdp, Checking
<1>3. CASE Lists(d, k.uri) /\ k.at = "callback" /\ ~ IsWeb(k.uri)
  <2>1. o = Refused(k, "scheme")
    BY <1>3 DEF Outcome
  <2>2. FlowOK(Refused(k, "scheme"), now, lastLive, published)
    BY <1>3
    DEF FlowOK, FetchInTime, PassedAuth, RedirectOK, RefusalOK, Refused, LetThrough, Checking
  <2> QED  BY <2>1, <2>2
<1>4. CASE Lists(d, k.uri) /\ k.at = "callback" /\ IsWeb(k.uri)
  <2>1. o = Redirected(k, d)
    BY <1>4 DEF Outcome
  <2>2. FlowOK(Redirected(k, d), now, lastLive, published)
    BY <1>0, <1>4
    DEF FlowOK, FetchInTime, PassedAuth, RedirectOK, RefusalOK, Redirected, Checking
  <2> QED  BY <2>1, <2>2
<1> QED  BY <1>0, <1>1, <1>2, <1>3, <1>4

\* assertRedirectURI at either end.
LEMMA AssertOutcome ==
    ASSUME TypeOK, NEW f \in Flows, NEW c \in Clients, NEW x \in Uris,
           NEW at \in {"auth", "callback"}, NEW since \in Nat,
           at = "callback" => LetThrough(now, lastLive, c, x, since),
           AssertRedirectURI(f, Check(c, x, at, since))
    PROVE  /\ FlowOK(flow'[f], now, lastLive, published)
           /\ \A g \in Flows : g # f => flow'[g] = flow[g]
<1> DEFINE k == [client |-> c, uri |-> x, at |-> at, since |-> since]
<1>1. AssertRedirectURI(f, k)
  BY DEF Check
<1>2. CASE c \in DcrClients
  <2>1. flow' = [flow EXCEPT ![f] = Outcome(k, x \in Registered[c], None)]
    BY <1>1, <1>2 DEF AssertRedirectURI, Goto
  <2>2. FlowOK(Outcome(k, x \in Registered[c], None), now, lastLive, published)
    <3>1. CASE at = "auth" /\ x \in Registered[c]
      <4>1. LetThrough(now, lastLive, c, x, now)
        BY <1>2, <3>1 DEF LetThrough, TypeOK
      <4> QED
        BY <3>1, <4>1 DEF Outcome, FlowOK, FetchInTime, PassedAuth, RedirectOK,
                          RefusalOK, AtIdp, Checking
    <3>2. CASE at = "auth" /\ x \notin Registered[c]
      BY <3>2 DEF Outcome, FlowOK, FetchInTime, PassedAuth, RedirectOK,
                  RefusalOK, Refused, Checking
    <3>3. CASE at = "callback"
      <4>1. x \in Registered[c] /\ since <= now
        BY <1>2, <3>3 DEF LetThrough
      <4>2. CASE IsWeb(x)
        BY <1>2, <3>3, <4>1, <4>2 DEF Outcome, FlowOK, FetchInTime, PassedAuth,
                                      RedirectOK, RefusalOK, Redirected, Checking
      <4>3. CASE ~ IsWeb(x)
        BY <3>3, <4>1, <4>3 DEF Outcome, FlowOK, FetchInTime, PassedAuth,
                                RedirectOK, RefusalOK, Refused, Checking
      <4> QED  BY <4>2, <4>3
    <3> QED  BY <3>1, <3>2, <3>3
  <2> QED  BY <2>1, <2>2 DEF TypeOK
<1>3. CASE c \notin DcrClients
  <2>1. flow' = [flow EXCEPT ![f] = [stage |-> "lookup", check |-> k]]
    BY <1>1, <1>3 DEF AssertRedirectURI, Goto
  <2>2. FlowOK([stage |-> "lookup", check |-> k], now, lastLive, published)
    BY DEF FlowOK, FetchInTime, PassedAuth, RedirectOK, RefusalOK, Checking
  <2> QED  BY <2>1, <2>2 DEF TypeOK
<1> QED  BY <1>2, <1>3

\* A step of the proxy that leaves the cache alone and moves one flow.
LEMMA OneFlowStep ==
    ASSUME IInv, TypeOK', NEW f \in Flows,
           UNCHANGED <<now, published, lastLive, cache>>,
           FlowOK(flow'[f], now, lastLive, published),
           \A g \in Flows : g # f => flow'[g] = flow[g]
    PROVE  IInv'
<1>1. LiveOK(now, lastLive, published)' /\ CacheOK(lastLive)'
  BY DEF IInv, LiveOK, CacheOK, Reaches
<1>2. \A g \in Flows : FlowOK(flow'[g], now', lastLive', published')
  BY DEF IInv
<1> QED  BY <1>1, <1>2 DEF IInv

\* Every step keeps the inductive invariant: one case per action.
LEMMA InvStep == IInv /\ [Next]_vars => IInv'
<1> SUFFICES ASSUME IInv, [Next]_vars
             PROVE  IInv'
  OBVIOUS
<1>0. TypeOK /\ TypeOK'
  BY TypeStep DEF IInv
<1>1. CASE Tick
  BY <1>0, <1>1, EnvironmentStep
<1>2. ASSUME NEW c \in UrlClients, NEW d \in Docs, Publish(c, d) PROVE IInv'
  BY <1>0, <1>2, EnvironmentStep
<1>3. CASE Restart
  <2>1. LiveOK(now, lastLive, published)'
    BY <1>3 DEF Restart, IInv, LiveOK
  <2>2. CacheOK(lastLive)'
    BY <1>3 DEF Restart, CacheOK
  <2>3. ASSUME NEW f \in Flows PROVE FlowOK(flow'[f], now, lastLive, published)
    <3>1. CASE flow[f].stage \in Checking
      <4>1. flow[f].check \in Checks
        BY <1>0, <3>1, FlowFields DEF TypeOK, Checking
      <4>2. flow'[f] = Refused(flow[f].check, "restart")
        BY <1>3, <3>1 DEF Restart, Checking
      <4>3. flow[f].check.at = "callback" =>
                LetThrough(now, lastLive, flow[f].check.client, flow[f].check.uri,
                           flow[f].check.since)
        BY <3>1 DEF IInv, FlowOK, PassedAuth
      <4> QED  BY <1>0, <4>1, <4>2, <4>3, RefusedOK
    <3>2. CASE flow[f].stage \notin Checking
      BY <1>3, <3>2 DEF Restart, IInv, Checking
    <3> QED  BY <3>1, <3>2
  <2> QED  BY <1>0, <1>3, <2>1, <2>2, <2>3 DEF Restart, IInv
<1>4. ASSUME NEW f \in Flows, NEW c \in Clients, NEW x \in Uris, Authenticate(f, c, x)
      PROVE  IInv'
  <2>1. /\ FlowOK(flow'[f], now, lastLive, published)
        /\ \A g \in Flows : g # f => flow'[g] = flow[g]
    <3>1. "auth" # "callback" /\ "auth" \in {"auth", "callback"} /\ 0 \in Nat
      OBVIOUS
    <3> QED  BY <1>0, <1>4, <3>1, AssertOutcome DEF Authenticate
  <2> QED  BY <1>0, <1>4, <2>1, OneFlowStep DEF Authenticate
<1>5. ASSUME NEW f \in Flows, Callback(f) PROVE IInv'
  <2>1. /\ flow[f].client \in Clients /\ flow[f].uri \in Uris /\ flow[f].since \in Nat
        /\ LetThrough(now, lastLive, flow[f].client, flow[f].uri, flow[f].since)
    BY <1>0, <1>5, FlowFields DEF Callback, TypeOK, IInv, FlowOK, PassedAuth
  <2>2. /\ FlowOK(flow'[f], now, lastLive, published)
        /\ \A g \in Flows : g # f => flow'[g] = flow[g]
    BY <1>0, <1>5, <2>1, AssertOutcome DEF Callback
  <2> QED  BY <1>0, <1>5, <2>2, OneFlowStep DEF Callback
<1>6. ASSUME NEW f \in Flows, CacheHit(f) PROVE IInv'
  <2> DEFINE k == flow[f].check
             d == cache[k.client].doc
  <2>1. k \in Checks /\ k.client \in UrlClients
    BY <1>0, <1>6, FlowFields, CheckFields DEF CacheHit, TypeOK
  <2>2. /\ cache[k.client] # None /\ ~ (now > cache[k.client].expires)
        /\ cache[k.client] \in [doc : Docs, expires : Nat]
    BY <1>0, <1>6, <2>1 DEF CacheHit, Fresh, TypeOK
  <2>3. d \in Docs /\ d.valid /\ Reaches(lastLive, k.client, d, cache[k.client].expires)
    BY <2>1, <2>2 DEF IInv, CacheOK
  <2>4. Reaches(lastLive, k.client, d, now)
    <3>1. now \in Nat /\ cache[k.client].expires \in Nat /\ lastLive[k.client][d] \in Int
      BY <1>0, <2>1, <2>2, <2>3 DEF TypeOK
    <3> QED  BY <2>2, <2>3, <3>1, AuthorizeAssumption DEF Reaches
  <2>5. k.at = "callback" => LetThrough(now, lastLive, k.client, k.uri, k.since)
    BY <1>6 DEF CacheHit, IInv, FlowOK, PassedAuth, Checking
  <2>6. FlowOK(Outcome(k, Lists(d, k.uri), d), now, lastLive, published)
    BY <1>0, <2>1, <2>3, <2>4, <2>5, DocumentOutcome
  <2>7. flow' = [flow EXCEPT ![f] = Outcome(k, Lists(d, k.uri), d)]
    BY <1>6 DEF CacheHit, Conclude, Goto
  <2> QED  BY <1>0, <1>6, <2>6, <2>7, OneFlowStep DEF CacheHit, TypeOK
<1>7. ASSUME NEW f \in Flows, CacheMiss(f) PROVE IInv'
  <2>1. flow' = [flow EXCEPT ![f] = [stage |-> "fetching", check |-> flow[f].check,
                                     asked |-> now]]
    BY <1>7 DEF CacheMiss, Goto
  <2>2. FlowOK([stage |-> "fetching", check |-> flow[f].check, asked |-> now],
               now, lastLive, published)
    BY <1>0, <1>7, AuthorizeAssumption
    DEF CacheMiss, IInv, TypeOK, FlowOK, FetchInTime, PassedAuth, RedirectOK, RefusalOK,
        Checking
  <2> QED  BY <1>0, <1>7, <2>1, <2>2, OneFlowStep DEF CacheMiss, TypeOK
<1>8. ASSUME NEW f \in Flows, ServerAnswers(f) PROVE IInv'
  <2> DEFINE k == flow[f].check
             r == [stage |-> "response", check |-> k, asked |-> flow[f].asked,
                   doc |-> published[k.client]]
  <2>1. flow' = [flow EXCEPT ![f] = r]
    BY <1>8 DEF ServerAnswers, Goto
  <2>2. k.client \in UrlClients /\ flow[f].asked \in Nat
    BY <1>0, <1>8, FlowFields, CheckFields DEF ServerAnswers, TypeOK
  <2>3. /\ lastLive[k.client][published[k.client]] = now
        /\ flow[f].asked <= now /\ now <= flow[f].asked + MaxFlight
    BY <1>8, <2>2 DEF ServerAnswers, IInv, LiveOK, FlowOK, FetchInTime
  <2>4. k.at = "callback" => LetThrough(now, lastLive, k.client, k.uri, k.since)
    BY <1>8 DEF ServerAnswers, IInv, FlowOK, PassedAuth, Checking
  <2>5. FetchInTime(r, now, lastLive)
    <3>1. now \in Nat
      BY <1>0 DEF TypeOK
    <3> QED  BY <2>2, <2>3, <3>1 DEF FetchInTime
  <2>6. PassedAuth(r, now, lastLive) /\ RedirectOK(r, lastLive)
        /\ RefusalOK(r, now, lastLive, published)
    BY <2>4 DEF PassedAuth, RedirectOK, RefusalOK
  <2>7. FlowOK(r, now, lastLive, published)
    BY <2>5, <2>6 DEF FlowOK
  <2> QED  BY <1>0, <1>8, <2>1, <2>7, OneFlowStep DEF ServerAnswers, TypeOK
<1>9. ASSUME NEW f \in Flows, FetchFails(f) PROVE IInv'
  <2> DEFINE k == flow[f].check
  <2>1. k \in Checks
    BY <1>0, <1>9, FlowFields DEF FetchFails, TypeOK
  <2>2. k.at = "callback" => LetThrough(now, lastLive, k.client, k.uri, k.since)
    BY <1>9 DEF FetchFails, IInv, FlowOK, PassedAuth, Checking
  <2>3. FlowOK(Refused(k, "fetch"), now, lastLive, published)
    BY <1>0, <2>1, <2>2, RefusedOK
  <2> QED  BY <1>0, <1>9, <2>3, OneFlowStep DEF FetchFails, Goto, TypeOK
<1>10. ASSUME NEW f \in Flows, Receive(f) PROVE IInv'
  <2> DEFINE k == flow[f].check
             d == flow[f].doc
  <2>1. k \in Checks /\ k.client \in UrlClients /\ d \in Docs /\ flow[f].asked \in Nat
    BY <1>0, <1>10, FlowFields, CheckFields DEF Receive, TypeOK
  <2>2. k.at = "callback" => LetThrough(now, lastLive, k.client, k.uri, k.since)
    BY <1>10 DEF Receive, IInv, FlowOK, PassedAuth, Checking
  <2>3. Reaches(lastLive, k.client, d, now) /\ Reaches(lastLive, k.client, d, now + TTL)
    <3>1. /\ now <= flow[f].asked + MaxFlight
          /\ lastLive[k.client][d] >= flow[f].asked
      BY <1>10 DEF Receive, IInv, FlowOK, FetchInTime
    <3>2. lastLive[k.client][d] \in Int /\ now \in Nat
      BY <1>0, <2>1 DEF TypeOK
    <3> QED  BY <2>1, <3>1, <3>2, AuthorizeAssumption DEF Reaches
  <2>4. CASE ~ d.valid
    <3>1. FlowOK(Refused(k, "fetch"), now, lastLive, published)
      BY <1>0, <2>1, <2>2, RefusedOK
    <3> QED  BY <1>0, <1>10, <2>4, <3>1, OneFlowStep DEF Receive, Goto, TypeOK
  <2>5. CASE d.valid
    <3>1. FlowOK(Outcome(k, Lists(d, k.uri), d), now, lastLive, published)
      BY <1>0, <2>1, <2>2, <2>3, <2>5, DocumentOutcome
    <3>2. /\ flow' = [flow EXCEPT ![f] = Outcome(k, Lists(d, k.uri), d)]
          /\ cache' = [cache EXCEPT ![k.client] = [doc |-> d, expires |-> now + TTL]]
          /\ UNCHANGED <<now, published, lastLive>>
      BY <1>10, <2>5 DEF Receive, Conclude, Goto
    <3>3. CacheOK(lastLive)'
      <4> SUFFICES ASSUME NEW c \in UrlClients, cache'[c] # None
                   PROVE  /\ cache'[c].doc.valid
                          /\ Reaches(lastLive, c, cache'[c].doc, cache'[c].expires)
        BY <3>2 DEF CacheOK
      <4>1. CASE c = k.client
        BY <1>0, <2>1, <2>3, <2>5, <3>2, <4>1 DEF TypeOK
      <4>2. CASE c # k.client
        BY <1>0, <2>1, <3>2, <4>2 DEF TypeOK, IInv, CacheOK
      <4> QED  BY <4>1, <4>2
    <3>4. \A g \in Flows : FlowOK(flow'[g], now, lastLive, published)
      BY <1>0, <3>1, <3>2 DEF IInv, TypeOK
    <3> QED  BY <1>0, <3>2, <3>3, <3>4 DEF IInv, LiveOK
  <2> QED  BY <2>4, <2>5
<1>11. CASE UNCHANGED vars
  BY <1>0, <1>11 DEF vars, IInv, LiveOK, CacheOK, Reaches
<1> QED
  BY <1>1, <1>2, <1>3, <1>4, <1>5, <1>6, <1>7, <1>8, <1>9, <1>10, <1>11 DEF Next

\* The initial states satisfy the inductive invariant.
LEMMA InvInit == Init => IInv
<1> SUFFICES ASSUME Init PROVE IInv
  OBVIOUS
<1>1. TypeOK
  BY AuthorizeAssumption DEF Init, TypeOK, Flow, New
<1>2. LiveOK(now, lastLive, published) /\ CacheOK(lastLive)
  BY <1>1 DEF Init, LiveOK, CacheOK, TypeOK
<1>3. \A f \in Flows : FlowOK(flow[f], now, lastLive, published)
  BY DEF Init, New, FlowOK, FetchInTime, PassedAuth, RedirectOK, RefusalOK, Checking
<1> QED  BY <1>1, <1>2, <1>3 DEF IInv

(***************************************************************************)
(* Inductive: in every reachable state the cache holds valid documents     *)
(* that end in time, a fetch under way brings a document live since it was *)
(* asked for, and a flow past /auth carries what let it through.           *)
(***************************************************************************)
THEOREM Inductive == Spec => []IInv
BY InvInit, InvStep, PTL DEF Spec

(***************************************************************************)
(* Staleness: BoundedStaleness, for any clients, documents, flows and any  *)
(* order in which fetches end.                                             *)
(***************************************************************************)
THEOREM Staleness == Spec => []BoundedStaleness
<1>1. IInv => BoundedStaleness
  <2> SUFFICES ASSUME IInv, NEW f \in Flows,
                      flow[f].stage = "redirected", flow[f].client \in UrlClients
               PROVE  flow[f].time <= lastLive[flow[f].client][flow[f].doc] + TTL + MaxFlight
    BY DEF BoundedStaleness
  <2>1. flow[f].client \notin DcrClients
    BY AuthorizeAssumption
  <2> QED  BY <2>1 DEF IInv, FlowOK, RedirectOK, Reaches
<1> QED  BY <1>1, Inductive, PTL

\* A URI that a document lists, under the rules of RedirectMatch, is one that it
\* permits.
LEMMA ListsPermitted ==
    ASSUME NEW d \in Docs, NEW x \in Uris, Lists(d, x)
    PROVE  Permitted(x, d.uris)
<1> USE AuthorizeAssumption
<1>1. PICK r \in d.uris : r = x \/ (PortInsensitive /\ LocalhostPortInsensitiveMatch(r, x))
  BY DEF Lists, RedirectURIMatchesRegistered
<1>2. CASE r = x
  BY <1>2 DEF Permitted
<1>3. CASE PortInsensitive /\ LocalhostPortInsensitiveMatch(r, x)
  <2>1. r \in Uris
    OBVIOUS
  <2>2. /\ r = [scheme |-> r.scheme, host |-> r.host, port |-> r.port, path |-> r.path,
                rest |-> r.rest]
        /\ x = [scheme |-> x.scheme, host |-> x.host, port |-> x.port, path |-> x.path,
                rest |-> x.rest]
    BY <2>1 DEF UriOf
  <2>3. [x EXCEPT !.host = r.host, !.port = r.port, !.rest = r.rest] = r
    BY <1>3, <2>2 DEF LocalhostPortInsensitiveMatch
  <2> QED  BY <1>3, <2>3 DEF Permitted, LocalhostPortInsensitiveMatch
<1> QED  BY <1>1, <1>2, <1>3

(***************************************************************************)
(* RegisteredOnly: RedirectsOnlyRegistered, for any instance.              *)
(***************************************************************************)
THEOREM RegisteredOnly == Spec => []RedirectsOnlyRegistered
<1>1. IInv => RedirectsOnlyRegistered
  <2> SUFFICES ASSUME IInv, NEW f \in Flows, flow[f].stage = "redirected"
               PROVE  IF flow[f].client \in DcrClients
                      THEN flow[f].uri \in Registered[flow[f].client]
                      ELSE /\ flow[f].doc.valid
                           /\ Permitted(flow[f].uri, flow[f].doc.uris)
                           /\ lastLive[flow[f].client][flow[f].doc] # -1
    BY DEF RedirectsOnlyRegistered
  <2>1. flow[f].uri \in Uris
    BY FlowFields DEF IInv, TypeOK
  <2>2. CASE flow[f].client \in DcrClients
    BY <2>2 DEF IInv, FlowOK, RedirectOK
  <2>3. CASE flow[f].client \notin DcrClients
    <3>1. /\ flow[f].doc \in Docs /\ flow[f].doc.valid
          /\ Lists(flow[f].doc, flow[f].uri)
          /\ lastLive[flow[f].client][flow[f].doc] # -1
      BY <2>3 DEF IInv, FlowOK, RedirectOK, Reaches
    <3> QED  BY <2>1, <2>3, <3>1, ListsPermitted
  <2> QED  BY <2>2, <2>3
<1> QED  BY <1>1, Inductive, PTL

(***************************************************************************)
(* NoVainSignIn: LateRefusals.  A user signs in in vain for want of a      *)
(* registration only if the client has changed its document lately.        *)
(***************************************************************************)
THEOREM NoVainSignIn == Spec => []LateRefusals
<1>1. IInv => LateRefusals
  BY DEF IInv, FlowOK, RefusalOK, LateRefusals
<1> QED  BY <1>1, Inductive, PTL
================================================================================
