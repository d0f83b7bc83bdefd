------------------------ MODULE SelfIssuedTokensProofs ------------------------
(***************************************************************************)
(* Proofs about SelfIssuedTokens, for every set of logins, every set of    *)
(* configurations and every value of the defaults and bounds.              *)
(***************************************************************************)
EXTENDS SelfIssuedTokens, SealedTokensProofs, TLAPS

\* The window ends no earlier than either token of the pair.
LEMMA WindowEndProps ==
    ASSUME NEW s \in Session
    PROVE  /\ WindowEnd(s) \in Nat
           /\ Unix(s.start + s.ttl) <= WindowEnd(s)
           /\ Unix(s.start + s.max) <= WindowEnd(s)
<1>1. /\ s.start \in Nat /\ s.ttl \in Nat /\ s.max \in Nat
  BY DEF Session
<1>2. /\ Later(s.ttl, s.max) \in Nat
      /\ s.ttl <= Later(s.ttl, s.max)
      /\ s.max <= Later(s.ttl, s.max)
  BY <1>1, SMT DEF Later
<1>3. /\ s.start + s.ttl \in Nat
      /\ s.start + s.max \in Nat
      /\ s.start + Later(s.ttl, s.max) \in Nat
      /\ s.start + s.ttl <= s.start + Later(s.ttl, s.max)
      /\ s.start + s.max <= s.start + Later(s.ttl, s.max)
  BY <1>1, <1>2, SMT
<1> QED
  BY <1>3, UnixMonotone DEF WindowEnd
-------------------------------------------------------------------------------
\* The session a login opens at clock value now, and the blobs sealed for it.
Opened == [start |-> now, ttl |-> EffectiveTTL(config), max |-> EffectiveMaxTTL(config)]

\* The two blobs of a login are blobs, and neither outlives the window the login opens.
LEMMA IssuedProps ==
    ASSUME TypeOK, NEW l \in Logins
    PROVE  /\ Opened \in Session
           /\ IssuedAccess(l, now, config) \in Blob
           /\ IssuedRefresh(l, now, config) \in Blob
           /\ now + EffectiveTTL(config) \in Nat
           /\ IssuedAccess(l, now, config).exp <= WindowEnd(Opened)
           /\ IssuedRefresh(l, now, config).exp <= WindowEnd(Opened)
<1>1. /\ now \in Nat
      /\ EffectiveTTL(config) \in Nat
      /\ EffectiveMaxTTL(config) \in Nat
  BY EffectiveNat, SelfIssuedAssumption DEF TypeOK, Config
<1>2. Opened \in Session
  BY <1>1 DEF Opened, Session
<1>3. /\ now + EffectiveTTL(config) \in Nat
      /\ now + EffectiveMaxTTL(config) \in Nat
  BY <1>1, SMT
<1>4. /\ IssuedAccess(l, now, config) \in Blob
      /\ IssuedRefresh(l, now, config) \in Blob
  BY <1>1, <1>3, UnixNat DEF IssuedAccess, IssuedRefresh, SelfIssued, Blob
<1>5. /\ Unix(now + EffectiveTTL(config)) <= WindowEnd(Opened)
      /\ Unix(now + EffectiveMaxTTL(config)) <= WindowEnd(Opened)
  BY <1>2, WindowEndProps DEF Opened
<1> QED
  BY <1>2, <1>3, <1>4, <1>5 DEF IssuedAccess, IssuedRefresh, SelfIssued

\* A refreshed access token keeps the login and its time, and never outlives the
\* blob it was made from.
LEMMA RefreshedProps ==
    ASSUME TypeOK, NEW b \in Blob
    PROVE  /\ RefreshedAccess(b, now, config) \in Blob
           /\ RefreshedAccess(b, now, config).sub = b.sub
           /\ RefreshedAccess(b, now, config).iat = b.iat
           /\ RefreshedAccess(b, now, config).exp <= b.exp
           /\ RefreshedAccess(b, now, config).exp
                 \in {Unix(now + EffectiveTTL(config)), b.exp}
<1>1. /\ now \in Nat
      /\ EffectiveTTL(config) \in Nat
  BY EffectiveNat, SelfIssuedAssumption DEF TypeOK, Config
<1>2. now + EffectiveTTL(config) \in Nat
  BY <1>1, SMT
<1>3. /\ Unix(now + EffectiveTTL(config)) \in Nat
      /\ b.exp \in Nat /\ b.iat \in Nat /\ b.sub \in Logins
  BY <1>2, UnixNat DEF Blob
<1> QED
  BY <1>3, EarlierProps DEF RefreshedAccess, SelfIssued, Blob

\* What is in circulation is a set of blobs.
LEMMA SealedAreBlobs == TypeOK => Sealed \subseteq Blob
BY DEF TypeOK, Sealed
-------------------------------------------------------------------------------
(***************************************************************************)
(* TypeCorrect: every variable keeps its type.                             *)
(***************************************************************************)
LEMMA TypeStep == TypeOK /\ [Next]_vars => TypeOK'
<1> SUFFICES ASSUME TypeOK, [Next]_vars PROVE TypeOK'
  OBVIOUS
<1>1. CASE Tick
  BY <1>1, SMT DEF TypeOK, Tick
<1>2. CASE Redeploy
  BY <1>2 DEF TypeOK, Redeploy
<1>3. ASSUME NEW l \in Logins, Issue(l) PROVE TypeOK'
  <2>1. session' \in [Logins -> Session \cup {NotYet}]
    BY <1>3, IssuedProps DEF TypeOK, Issue, Opened
  <2>2. access' \subseteq [blob : Blob, told : Nat]
    BY <1>3, IssuedProps DEF TypeOK, Issue
  <2>3. refresh' \subseteq Blob
    BY <1>3, IssuedProps DEF TypeOK, Issue
  <2> QED
    BY <1>3, <2>1, <2>2, <2>3 DEF TypeOK, Issue
<1>4. ASSUME NEW b \in Sealed, Refresh(b) PROVE TypeOK'
  <2>1. b \in Blob
    BY SealedAreBlobs
  <2>2. RefreshedAccess(b, now, config) \in Blob
    BY <2>1, RefreshedProps
  <2>3. 2 * RefreshedAccess(b, now, config).exp \in Nat
    BY <2>2, SMT DEF Blob
  <2> QED
    BY <1>4, <2>2, <2>3 DEF TypeOK, Refresh
<1>5. ASSUME NEW b \in Sealed, Serve(b) PROVE TypeOK'
  BY <1>5 DEF TypeOK, Serve
<1>6. CASE UNCHANGED vars
  BY <1>6 DEF TypeOK, vars
<1> QED
  BY <1>1, <1>2, <1>3, <1>4, <1>5, <1>6 DEF Next

\* TypeCorrect: in every reachable state the variables have their types, so the lifetimes the
\* seal works with are natural numbers.
THEOREM TypeCorrect == Spec => []TypeOK
<1>1. Init => TypeOK
  BY DEF Init, TypeOK
<1> QED
  BY <1>1, TypeStep, PTL DEF Spec
-------------------------------------------------------------------------------
(***************************************************************************)
(* The inductive invariant behind WithinWindow: every sealed blob belongs  *)
(* to a login that has happened, carries its time and expires within its   *)
(* window.  WithinWindow alone says nothing of the blobs that have not     *)
(* been presented yet.                                                     *)
(***************************************************************************)
Rooted(b) == /\ session[b.sub] # NotYet
             /\ b.iat = Unix(session[b.sub].start)
             /\ b.exp <= WindowEnd(session[b.sub])

AllRooted == \A b \in Sealed : Rooted(b)

WindowInv == TypeOK /\ AllRooted /\ WithinWindow

\* Every step keeps AllRooted: a refresh carries the login time on and caps the expiry.
LEMMA AllRootedStep == TypeOK /\ AllRooted /\ [Next]_vars => AllRooted'
<1> SUFFICES ASSUME TypeOK, AllRooted, [Next]_vars PROVE AllRooted'
  OBVIOUS
<1>1. CASE UNCHANGED <<session, access, refresh>>
  BY <1>1 DEF AllRooted, Rooted, Sealed
<1>2. ASSUME NEW l \in Logins, Issue(l) PROVE AllRooted'
  <2>1. /\ session \in [Logins -> Session \cup {NotYet}]
        /\ session' = [session EXCEPT ![l] = Opened]
        /\ session[l] = NotYet
    BY <1>2 DEF Issue, Opened, TypeOK
  <2>2. Opened \in Session /\ Opened # NotYet
    BY IssuedProps, SelfIssuedAssumption
  <2>3. SUFFICES ASSUME NEW b \in Sealed' PROVE Rooted(b)'
    BY DEF AllRooted
  <2>4. CASE b \in Sealed
    <3>1. b.sub \in Logins /\ b.sub # l
      BY <2>1, <2>4, SealedAreBlobs DEF AllRooted, Rooted, Blob
    <3>2. session'[b.sub] = session[b.sub]
      BY <2>1, <3>1
    <3> QED
      BY <2>4, <3>2 DEF AllRooted, Rooted
  <2>5. CASE b \in {IssuedAccess(l, now, config), IssuedRefresh(l, now, config)}
    <3>1. b.sub = l /\ b.iat = Unix(Opened.start)
      BY <2>5 DEF IssuedAccess, IssuedRefresh, SelfIssued, Opened
    <3>2. session'[l] = Opened
      BY <2>1
    <3>3. b.exp <= WindowEnd(Opened)
      BY <2>5, IssuedProps
    <3> QED
      BY <2>2, <3>1, <3>2, <3>3 DEF Rooted
  <2>6. b \in Sealed \/ b \in {IssuedAccess(l, now, config), IssuedRefresh(l, now, config)}
    BY <1>2 DEF Issue, Sealed
  <2> QED
    BY <2>4, <2>5, <2>6
<1>3. ASSUME NEW p \in Sealed, Refresh(p) PROVE AllRooted'
  <2> DEFINE at == RefreshedAccess(p, now, config)
  <2>1. p \in Blob /\ Rooted(p)
    BY SealedAreBlobs DEF AllRooted
  <2>2. /\ at \in Blob /\ at.sub = p.sub /\ at.iat = p.iat /\ at.exp <= p.exp
    BY <2>1, RefreshedProps
  <2>3. session[p.sub] \in Session
    BY <2>1 DEF Rooted, TypeOK, Blob
  <2>4. at.exp <= WindowEnd(session[p.sub])
    <3>1. at.exp \in Nat /\ p.exp \in Nat /\ WindowEnd(session[p.sub]) \in Nat
      BY <2>1, <2>2, <2>3, WindowEndProps DEF Blob
    <3>2. at.exp <= p.exp /\ p.exp <= WindowEnd(session[p.sub])
      BY <2>1, <2>2 DEF Rooted
    <3> QED
      BY <3>1, <3>2, SMT
  <2>5. Rooted(at)
    BY <2>1, <2>2, <2>4 DEF Rooted
  <2>6. /\ access' = access \cup {[blob |-> at, told |-> 2 * at.exp]}
        /\ refresh' = refresh /\ session' = session
    BY <1>3 DEF Refresh
  <2>7. \A b \in Sealed' : b \in Sealed \/ b = at
    BY <2>6 DEF Sealed
  <2> QED
    BY <2>5, <2>6, <2>7 DEF AllRooted, Rooted
<1> QED
  BY <1>1, <1>2, <1>3 DEF Next, Tick, Redeploy, Serve, vars

\* Every step keeps WithinWindow: what is served was sealed, so it is rooted.
LEMMA WithinWindowStep ==
    TypeOK /\ AllRooted /\ WithinWindow /\ [Next]_vars => WithinWindow'
<1> SUFFICES ASSUME TypeOK, AllRooted, WithinWindow, [Next]_vars PROVE WithinWindow'
  OBVIOUS
<1>1. CASE UNCHANGED <<session, served>>
  BY <1>1 DEF WithinWindow
<1>2. ASSUME NEW l \in Logins, Issue(l) PROVE WithinWindow'
  <2>1. /\ session \in [Logins -> Session \cup {NotYet}]
        /\ session' = [session EXCEPT ![l] = Opened]
        /\ session[l] = NotYet
        /\ served' = served
    BY <1>2 DEF Issue, Opened, TypeOK
  <2>2. served[l] = -1
    BY <2>1 DEF WithinWindow
  <2> QED
    BY <2>1, <2>2 DEF WithinWindow
<1>3. ASSUME NEW b \in Sealed, Serve(b) PROVE WithinWindow'
  <2>1. b \in Blob /\ Rooted(b)
    BY SealedAreBlobs DEF AllRooted
  <2>2. /\ now \in Nat
        /\ Unix(now) \in Nat
        /\ b.exp \in Nat
        /\ WindowEnd(session[b.sub]) \in Nat
    BY <2>1, UnixNat, WindowEndProps DEF Rooted, TypeOK, Blob
  <2>3. Unix(now) <= b.exp
    <3>1. ~ (Unix(now) > b.exp)
      BY <1>3, <2>1 DEF Serve, Resolves, Blob
    <3> QED
      BY <2>2, <3>1, SMT
  <2>4. Unix(now) <= WindowEnd(session[b.sub])
    <3>1. b.exp <= WindowEnd(session[b.sub])
      BY <2>1 DEF Rooted
    <3> QED
      BY <2>2, <2>3, <3>1, SMT
  <2>5. /\ served \in [Logins -> Nat \cup {-1}]
        /\ served' = [served EXCEPT ![b.sub] = now]
        /\ session' = session
    BY <1>3 DEF Serve, TypeOK
  <2> QED
    BY <2>1, <2>4, <2>5 DEF WithinWindow, Rooted
<1> QED
  BY <1>1, <1>2, <1>3 DEF Next, Tick, Redeploy, Refresh, vars

\* Every state has the inductive invariant.
LEMMA WindowInvariant == Spec => []WindowInv
<1>1. Init => WindowInv
  BY DEF Init, WindowInv, TypeOK, AllRooted, Sealed, WithinWindow
<1>2. WindowInv /\ [Next]_vars => WindowInv'
  BY TypeStep, AllRootedStep, WithinWindowStep DEF WindowInv
<1> QED
  BY <1>1, <1>2, PTL DEF Spec

(***************************************************************************)
(* WindowHolds: no request is let through after the window its login       *)
(* fixed, whatever is refreshed, presented or redeployed in between.       *)
(***************************************************************************)
THEOREM WindowHolds == Spec => []WithinWindow
BY WindowInvariant, PTL DEF WindowInv
-------------------------------------------------------------------------------
(***************************************************************************)
(* Expiry told and expiry enforced.                                        *)
(***************************************************************************)
\* A self-issued token lives through the second of its expiry, and no longer.
LEMMA ResolvesSelfIssued ==
    ASSUME NEW b \in Blob, NEW t \in Nat
    PROVE  Resolves(b, t) <=> Unix(t) <= b.exp
<1>1. Unix(t) \in Nat /\ b.exp \in Nat /\ b.type = "si"
  BY UnixNat DEF Blob
<1>2. ~ (Unix(t) > b.exp) <=> Unix(t) <= b.exp
  BY <1>1, SMT
<1> QED
  BY <1>1, <1>2 DEF Resolves

Agrees(a) == Resolves(a.blob, a.told) /\ ~ Resolves(a.blob, a.told + 2)

\* A token told to expire at its own last second agrees with what it was told.
LEMMA AgreesIfSameSecond ==
    ASSUME NEW b \in Blob, NEW t \in Nat, Unix(t) = b.exp
    PROVE  Agrees([blob |-> b, told |-> t])
<1>1. t + 2 \in Nat /\ Unix(t + 2) = b.exp + 1 /\ b.exp \in Nat
  BY UnixNextSecond, SMT DEF Blob
<1>2. Unix(t) <= b.exp /\ ~ (Unix(t + 2) <= b.exp)
  BY <1>1, SMT
<1> QED
  BY <1>1, <1>2, ResolvesSelfIssued DEF Agrees

\* Every step keeps ExpiryAgrees: only Issue and Refresh hand out tokens.
LEMMA ExpiryStep == TypeOK /\ ExpiryAgrees /\ [Next]_vars => ExpiryAgrees'
<1> SUFFICES ASSUME TypeOK, ExpiryAgrees, [Next]_vars PROVE ExpiryAgrees'
  OBVIOUS
<1>1. \A a \in access : Agrees(a)
  BY DEF ExpiryAgrees, Agrees
<1>2. CASE UNCHANGED access
  BY <1>2 DEF ExpiryAgrees
<1>3. ASSUME NEW l \in Logins, Issue(l) PROVE ExpiryAgrees'
  <2> DEFINE at == IssuedAccess(l, now, config)
             told == now + EffectiveTTL(config)
  <2>1. at \in Blob /\ told \in Nat /\ Unix(told) = at.exp
    BY IssuedProps DEF IssuedAccess, SelfIssued
  <2>2. Agrees([blob |-> at, told |-> told])
    BY <2>1, AgreesIfSameSecond
  <2>3. access' = access \cup {[blob |-> at, told |-> told]}
    BY <1>3 DEF Issue
  <2> QED
    BY <1>1, <2>2, <2>3 DEF ExpiryAgrees, Agrees
<1>4. ASSUME NEW b \in Sealed, Refresh(b) PROVE ExpiryAgrees'
  <2> DEFINE at == RefreshedAccess(b, now, config)
  <2>1. at \in Blob
    BY SealedAreBlobs, RefreshedProps
  <2>2. at.exp \in Nat /\ 2 * at.exp \in Nat /\ Unix(2 * at.exp) = at.exp
    BY <2>1, UnixOfSecond, SMT DEF Blob
  <2>3. Agrees([blob |-> at, told |-> 2 * at.exp])
    BY <2>1, <2>2, AgreesIfSameSecond
  <2>4. access' = access \cup {[blob |-> at, told |-> 2 * at.exp]}
    BY <1>4 DEF Refresh
  <2> QED
    BY <1>1, <2>3, <2>4 DEF ExpiryAgrees, Agrees
<1> QED
  BY <1>2, <1>3, <1>4 DEF Next, Tick, Redeploy, Serve, vars

(***************************************************************************)
(* ExpiryTheorem: what a client is told of a token's expiry and what the   *)
(* middleware enforces never differ by a second or more, for every         *)
(* lifetime configured and every instant of issue.                         *)
(***************************************************************************)
THEOREM ExpiryTheorem == Spec => []ExpiryAgrees
<1>1. Init => ExpiryAgrees
  BY DEF Init, ExpiryAgrees
<1> QED
  BY <1>1, TypeCorrect, ExpiryStep, PTL DEF Spec
-------------------------------------------------------------------------------
(***************************************************************************)
(* What one step may issue.                                                *)
(***************************************************************************)
LEMMA DescendsStep == TypeOK /\ [Next]_vars => IssuesDescendants
<1> SUFFICES ASSUME TypeOK, [Next]_vars,
                    NEW a \in access' \ access, session[a.blob.sub] # NotYet
             PROVE  \E b \in Sealed : /\ b.sub = a.blob.sub
                                      /\ b.iat = a.blob.iat
                                      /\ a.blob.exp <= b.exp
  BY DEF IssuesDescendants
<1>1. ASSUME NEW l \in Logins, Issue(l) PROVE FALSE
  <2>1. a.blob = IssuedAccess(l, now, config)
    BY <1>1 DEF Issue
  <2> QED
    BY <1>1, <2>1 DEF Issue, IssuedAccess, SelfIssued
<1>2. ASSUME NEW b \in Sealed, Refresh(b)
      PROVE  b.sub = a.blob.sub /\ b.iat = a.blob.iat /\ a.blob.exp <= b.exp
  <2>1. a.blob = RefreshedAccess(b, now, config)
    BY <1>2 DEF Refresh
  <2> QED
    BY <2>1, SealedAreBlobs, RefreshedProps
<1> QED
  BY <1>1, <1>2 DEF Next, Tick, Redeploy, Serve, vars

(***************************************************************************)
(* RefreshTheorem: a refresh never extends a session, whatever blob of the *)
(* session is presented and whatever the configuration has become.         *)
(***************************************************************************)
THEOREM RefreshTheorem == Spec => RefreshNeverExtends
BY TypeCorrect, DescendsStep, PTL DEF Spec, RefreshNeverExtends

\* The action property IssuesUsable, of every step from a state of the right type.
LEMMA FreshStep == TypeOK /\ [Next]_vars => IssuesUsable
<1> SUFFICES ASSUME TypeOK, [Next]_vars,
                    NEW a \in access' \ access, ~ (EffectiveTTL(config) < 2)
             PROVE  a.blob.exp > Unix(now)
  BY DEF IssuesUsable
<1>1. /\ now \in Nat
      /\ EffectiveTTL(config) \in Nat
  BY EffectiveNat, SelfIssuedAssumption DEF TypeOK, Config
<1>2. Unix(now + EffectiveTTL(config)) > Unix(now)
  BY <1>1, SMT DEF Unix
<1>3. ASSUME NEW l \in Logins, Issue(l) PROVE a.blob.exp > Unix(now)
  BY <1>2, <1>3 DEF Issue, IssuedAccess, SelfIssued
<1>4. ASSUME NEW b \in Sealed, Refresh(b) PROVE a.blob.exp > Unix(now)
  <2>1. b \in Blob /\ b.exp \in Nat /\ Unix(now) \in Nat
    BY <1>1, SealedAreBlobs, UnixNat DEF Blob
  <2>2. b.exp > Unix(now)
    <3>1. ~ (Unix(now) >= b.exp)
      BY <1>4 DEF Refresh, MayRefresh
    <3> QED
      BY <2>1, <3>1, SMT
  <2>3. a.blob.exp \in {Unix(now + EffectiveTTL(config)), b.exp}
    BY <1>4, <2>1, RefreshedProps DEF Refresh
  <2> QED
    BY <1>2, <2>2, <2>3
<1> QED
  BY <1>3, <1>4 DEF Next, Tick, Redeploy, Serve, vars

(***************************************************************************)
(* FreshTheorem: no token is dead on arrival.                              *)
(***************************************************************************)
THEOREM FreshTheorem == Spec => FreshTokenUsable
BY TypeCorrect, FreshStep, PTL DEF Spec, FreshTokenUsable
-------------------------------------------------------------------------------
(***************************************************************************)
(* The refinement.  A login opens the abstract session; a refresh and a    *)
(* redeployment leave it as it is; a request let through is served.        *)
(***************************************************************************)
DeadlineOf == [l \in Logins |-> IF session[l] = NotYet THEN -1 ELSE WindowEnd(session[l])]

\* No login, no session: the initial states map to the initial state of SessionWindow.
LEMMA WindowInit == Init => Window!Init
BY DEF Init, Window!Init

LEMMA WindowStep == WindowInv /\ [Next]_vars => [Window!Next]_(Window!vars)
<1> SUFFICES ASSUME WindowInv, [Next]_vars PROVE [Window!Next]_(Window!vars)
  OBVIOUS
<1> USE DEF WindowInv
<1>1. CASE Tick
  BY <1>1 DEF Tick, Window!Next, Window!Tick
<1>2. CASE UNCHANGED <<now, session, served>>
  BY <1>2 DEF Window!vars
<1>3. ASSUME NEW l \in Logins, Issue(l) PROVE Window!Next
  <2>1. /\ session \in [Logins -> Session \cup {NotYet}]
        /\ session' = [session EXCEPT ![l] = Opened]
        /\ session[l] = NotYet
        /\ UNCHANGED <<now, served>>
    BY <1>3 DEF Issue, Opened, TypeOK
  <2>2. Opened # NotYet /\ WindowEnd(Opened) \in Nat
    BY IssuedProps, SelfIssuedAssumption, WindowEndProps
  <2>3. DeadlineOf[l] = -1
    BY <2>1 DEF DeadlineOf
  <2>4. DeadlineOf'[l] = WindowEnd(Opened)
    BY <2>1, <2>2 DEF DeadlineOf
  <2>5. DeadlineOf' = [DeadlineOf EXCEPT ![l] = DeadlineOf'[l]]
    BY <2>1 DEF DeadlineOf
  <2>6. Window!Open(l)
    BY <2>1, <2>2, <2>3, <2>4, <2>5 DEF Window!Open, DeadlineOf
  <2> QED
    BY <2>6 DEF Window!Next
<1>4. ASSUME NEW b \in Sealed, Serve(b) PROVE Window!Next
  <2>1. b \in Blob /\ b.sub \in Logins /\ Rooted(b)
    BY SealedAreBlobs DEF AllRooted, Blob
  <2>2. WithinWindow'
    BY WithinWindowStep
  <2>3. /\ served' = [served EXCEPT ![b.sub] = now]
        /\ served'[b.sub] = now
        /\ UNCHANGED <<now, session>>
    BY <1>4, <2>1 DEF Serve, TypeOK
  <2>4. now # -1
    BY SMT DEF TypeOK
  <2>5. session[b.sub] # NotYet /\ Unix(now) <= WindowEnd(session[b.sub])
    BY <2>1, <2>2, <2>3, <2>4 DEF WithinWindow
  <2>6. now \div 2 <= DeadlineOf[b.sub]
    BY <2>1, <2>5 DEF DeadlineOf, Unix
  <2>7. Window!Serve(b.sub)
    BY <2>3, <2>6 DEF Window!Serve, DeadlineOf
  <2> QED
    BY <2>1, <2>7 DEF Window!Next
<1> QED
  BY <1>1, <1>2, <1>3, <1>4 DEF Next, Redeploy, Refresh, vars

(***************************************************************************)
(* WindowRefinement: the sealed tokens implement a session with one fixed  *)
(* deadline, although the proxy stores no session anywhere.                *)
(***************************************************************************)
THEOREM WindowRefinement == Spec => WindowSpec
BY WindowInit, WindowInvariant, WindowStep, PTL DEF Spec, WindowSpec, Window!Spec
===============================================================================
