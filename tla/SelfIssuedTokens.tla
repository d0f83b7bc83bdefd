--------------------------- MODULE SelfIssuedTokens ---------------------------
(***************************************************************************)
(* token_behavior: self_issued.  The proxy answers a login with a sealed   *)
(* access token and a sealed refresh token of its own, re-issues access    *)
(* tokens out of the sealed refresh token and lets sealed tokens through   *)
(* its middleware until they expire.                                       *)
(*                                                                         *)
(* None of the handlers keeps state and each reads the clock once, so each *)
(* is one step.  What they share is the clock and the configuration, which *)
(* a redeployment may change while sealed tokens stay in their clients'    *)
(* hands.  A refused request changes nothing and is a stuttering step.     *)
(***************************************************************************)
EXTENDS SealedTokens, FiniteSets

CONSTANTS Logins,      \* the user logins that may happen
          NotYet,      \* the session of a login that has not happened
          Configs,     \* [ttl, max]: the configurations of the deployments
          MaxTime,     \* bound: the clock stops here
          MaxAccess    \* bound: distinct access tokens ever issued

Config == [ttl : Int, max : Int]

\* A login as the proxy saw it: when, and under which effective configuration.
Session == [start : Nat, ttl : Nat, max : Nat]

ASSUME SelfIssuedAssumption == /\ Configs \subseteq Config
                               /\ NotYet \notin Session
                               /\ MaxTime \in Nat
                               /\ MaxAccess \in Nat

VARIABLES now,      \* the clock, in half seconds
          config,   \* h.config.Proxy of the running deployment
          session,  \* [Logins -> Session or NotYet], a history variable
          access,   \* the access tokens issued: [blob, told]
          refresh,  \* the refresh tokens issued (sealed blobs)
          served    \* [Logins -> last time a request was let through, or -1]

vars == <<now, config, session, access, refresh, served>>

Blob == [type : {"si"}, sub : Logins, iat : Nat, exp : Nat]

\* What clients hold.  Both halves of a pair have the same plaintext format, so
\* either may be presented at either endpoint.
Sealed == {a.blob : a \in access} \cup refresh

TypeOK == /\ now \in Nat
          /\ config \in Configs
          /\ session \in [Logins -> Session \cup {NotYet}]
          /\ access \subseteq [blob : Blob, told : Nat]
          /\ refresh \subseteq Blob
          /\ served \in [Logins -> Nat \cup {-1}]

Init == /\ now = 0
        /\ config \in Configs
        /\ session = [l \in Logins |-> NotYet]
        /\ access = {}
        /\ refresh = {}
        /\ served = [l \in Logins |-> -1]

Tick == /\ now < MaxTime
        /\ now' = now + 1
        /\ UNCHANGED <<config, session, access, refresh, served>>

(***************************************************************************)
(* issueSelfIssuedTokens, after the IdP's JWT was validated.  told is the  *)
(* Expiry member of the answer, which keeps the fraction of the second.    *)
(***************************************************************************)
Issue(l) ==
    /\ session[l] = NotYet
    /\ access' = access \cup {[blob |-> IssuedAccess(l, now, config),
                               told |-> now + EffectiveTTL(config)]}
    /\ refresh' = refresh \cup {IssuedRefresh(l, now, config)}
    /\ session' = [session EXCEPT ![l] = [start |-> now,
                                          ttl   |-> EffectiveTTL(config),
                                          max   |-> EffectiveMaxTTL(config)]]
    /\ UNCHANGED <<now, config, served>>

(***************************************************************************)
(* refreshSelfIssuedToken.  The presented blob is handed back unchanged.   *)
(***************************************************************************)
Refresh(b) ==
    /\ Cardinality(access) < MaxAccess
    /\ MayRefresh(b, now)
    /\ LET at == RefreshedAccess(b, now, config)
       IN  access' = access \cup {[blob |-> at, told |-> 2 * at.exp]}
    /\ UNCHANGED <<now, config, session, refresh, served>>

(***************************************************************************)
(* AuthMiddleware and resolveToken on a bearer token: the request is       *)
(* passed on to the upstream server.                                       *)
(***************************************************************************)
Serve(b) ==
    /\ Resolves(b, now)
    /\ served' = [served EXCEPT ![b.sub] = now]
    /\ UNCHANGED <<now, config, session, access, refresh>>

(***************************************************************************)
(* The process is restarted, possibly with another configuration.          *)
(***************************************************************************)
Redeploy == /\ config' \in Configs \ {config}
            /\ UNCHANGED <<now, session, access, refresh, served>>

Next == \/ Tick
        \/ Redeploy
        \/ \E l \in Logins : Issue(l)
        \/ \E b \in Sealed : Refresh(b)
        \/ \E b \in Sealed : Serve(b)

Spec == Init /\ [][Next]_vars
-------------------------------------------------------------------------------
\* The last second in which anything issued for the session s may be let through.
Later(a, b) == IF a >= b THEN a ELSE b
WindowEnd(s) == Unix(s.start + Later(s.ttl, s.max))

(***************************************************************************)
(* WithinWindow: no chain of refreshes, redeployments and presentations of *)
(* one half of the pair for the other lets a request through after the     *)
(* window that was fixed when the user logged in.  It is the larger of the *)
(* two lifetimes, because issueSelfIssuedTokens clamps neither by the      *)
(* other.                                                                  *)
(***************************************************************************)
WithinWindow ==
    \A l \in Logins : served[l] # -1 => /\ session[l] # NotYet
                                        /\ Unix(served[l]) <= WindowEnd(session[l])

(***************************************************************************)
(* ExpiryAgrees: the expiry a client is told and the one the middleware    *)
(* enforces differ by less than one second, in the client's favour: a      *)
(* token is let through up to the told instant and refused one second      *)
(* (two ticks) later, although one is computed from the exact clock and    *)
(* the other from truncated seconds.                                       *)
(***************************************************************************)
ExpiryAgrees ==
    \A a \in access : /\ Resolves(a.blob, a.told)
                      /\ ~ Resolves(a.blob, a.told + 2)

(***************************************************************************)
(* RefreshNeverExtends: an access token issued for a login that is already *)
(* open descends from a blob of that login which does not expire before    *)
(* it, and carries the time of the original login.                         *)
(***************************************************************************)
IssuesDescendants ==
    \A a \in access' \ access :
        session[a.blob.sub] # NotYet =>
            \E b \in Sealed : /\ b.sub = a.blob.sub
                              /\ b.iat = a.blob.iat
                              /\ a.blob.exp <= b.exp

RefreshNeverExtends == [][IssuesDescendants]_vars

(***************************************************************************)
(* FreshTokenUsable: a token is never dead on arrival.  Every token issued *)
(* by a step lives on into a later second, unless the configured lifetime  *)
(* itself is shorter than a second: at the boundary, refresh refuses (>=)  *)
(* exactly where it could only issue a token that ends with this second.   *)
(***************************************************************************)
IssuesUsable == \A a \in access' \ access : \/ a.blob.exp > Unix(now)
                                             \/ EffectiveTTL(config) < 2

FreshTokenUsable == [][IssuesUsable]_vars

(***************************************************************************)
(* MaxWindowFromLogin: what the documentation says of token_max_ttl, "max  *)
(* window from original login": nothing is let through once it is over.    *)
(***************************************************************************)
MaxWindowFromLogin ==
    \A l \in Logins : served[l] # -1 =>
        Unix(served[l]) <= Unix(session[l].start + session[l].max)
-------------------------------------------------------------------------------
(***************************************************************************)
(* The abstract promise: a session has one deadline, fixed when it opens.  *)
(***************************************************************************)
Window == INSTANCE SessionWindow WITH
              clock    <- now,
              deadline <- [l \in Logins |-> IF session[l] = NotYet
                                            THEN -1 ELSE WindowEnd(session[l])],
              served   <- served

WindowSpec == Window!Spec
===============================================================================
