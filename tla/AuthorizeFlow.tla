------------------------------ MODULE AuthorizeFlow ------------------------------
(***************************************************************************)
(* The authorization flow of the proxy: /auth, the detour over the IdP and *)
(* /callback, with the cache of client metadata documents both ends read.  *)
(*                                                                         *)
(* A client is either dynamically registered, and then its client_id       *)
(* carries its redirect URIs, or it is a URL under which a third party     *)
(* publishes a document with them and may replace it at any time.  The     *)
(* redirect URI is checked when the user sets out and again when the user  *)
(* comes back, against what the cache, or a fetch, says at that moment.    *)
(* A fetch is made outside the cache's lock: fetches of several requests   *)
(* overlap and may end in any order.  The flow itself is kept by nobody:   *)
(* it travels with the browser in the sealed state parameter.              *)
(*                                                                         *)
(* A /token request that authenticates with an assertion reads the same    *)
(* cache in the same way; to the cache it is an /auth that nobody follows  *)
(* up.                                                                     *)
(***************************************************************************)
EXTENDS Integers, RedirectMatch

CONSTANTS Flows,       \* authorization flows, one per user sign-in
          DcrClients,  \* dynamically registered clients
          UrlClients,  \* clients identified by the URL of their document
          Uris,        \* redirect URIs, as RedirectMatch has them
          PortInsensitive,  \* cimd_localhost_port_insensitive
          Registered,  \* [DcrClients -> the redirect URIs sealed in client_id]
          Docs,        \* [uris, valid]: the documents that may be published
          None,        \* no cache entry
          TTL,         \* cimdCacheTTL
          MaxFlight,   \* longest time from a fetch to its response
          MaxTime      \* bound: the clock stops here

ASSUME AuthorizeAssumption ==
    /\ Docs \subseteq [uris : SUBSET Uris, valid : BOOLEAN]
    /\ \A u \in Uris : u \in UriOf({u.scheme}, {u.host}, {u.port}, {u.path}, {u.rest})
    /\ PortInsensitive \in BOOLEAN
    /\ Registered \in [DcrClients -> SUBSET Uris]
    /\ DcrClients \cap UrlClients = {}
    /\ TTL \in Nat /\ MaxFlight \in Nat /\ MaxTime \in Nat
    /\ None \notin [doc : Docs, expires : Nat]

Clients == DcrClients \cup UrlClients

VARIABLES now,        \* the clock
          published,  \* [UrlClients -> the document its URL serves]
          lastLive,   \* history: [UrlClients -> [Docs -> the last instant at
                      \* which the URL served the document, or -1]]
          cache,      \* [UrlClients -> [doc, expires], or None]
          flow        \* [Flows -> where the flow is]

vars == <<now, published, lastLive, cache, flow>>

(***************************************************************************)
(* Where a flow is.  A check (at = "auth" or "callback") looks into the    *)
(* cache, waits for the document's server, or has its response on the way; *)
(* otherwise the user is at the IdP, or the flow has ended: redirected to  *)
(* the client on the strength of doc, or refused.  since is history: when  *)
(* /auth let the flow through (0 until then).                              *)
(***************************************************************************)
Ends == {"auth", "callback"}
Check(c, x, at, since) == [client |-> c, uri |-> x, at |-> at, since |-> since]
Checks == [client : UrlClients, uri : Uris, at : Ends, since : Nat]

New == [stage |-> "new"]
Flow == {New}
    \cup [stage : {"lookup"}, check : Checks]
    \cup [stage : {"fetching"}, check : Checks, asked : Nat]
    \cup [stage : {"response"}, check : Checks, asked : Nat, doc : Docs]
    \cup [stage : {"at_idp"}, client : Clients, uri : Uris, since : Nat]
    \cup [stage : {"redirected"}, client : Clients, uri : Uris,
          doc : Docs \cup {None}, time : Nat]
    \cup [stage : {"refused"}, client : Clients, uri : Uris, at : Ends, since : Nat,
          why : {"unregistered", "scheme", "fetch", "restart"}]

TypeOK == /\ now \in Nat
          /\ published \in [UrlClients -> Docs]
          /\ lastLive \in [UrlClients -> [Docs -> Nat \cup {-1}]]
          /\ cache \in [UrlClients -> [doc : Docs, expires : Nat] \cup {None}]
          /\ flow \in [Flows -> Flow]

Init == /\ now = 0
        /\ published \in [UrlClients -> Docs]
        /\ lastLive = [c \in UrlClients |->
                          [d \in Docs |-> IF d = published[c] THEN 0 ELSE -1]]
        /\ cache = [c \in UrlClients |-> None]
        /\ flow = [f \in Flows |-> New]

Goto(f, where) == flow' = [flow EXCEPT ![f] = where]
AtIdp(k) == [stage |-> "at_idp", client |-> k.client, uri |-> k.uri, since |-> now]
Redirected(k, d) == [stage |-> "redirected", client |-> k.client, uri |-> k.uri,
                     doc |-> d, time |-> now]
Refused(k, why) == [stage |-> "refused", client |-> k.client, uri |-> k.uri,
                    at |-> k.at, since |-> k.since, why |-> why]
----------------------------------------------------------------------------------
\* What AuthenticateRequest and ManageAuthorizationCode do with the outcome of
\* assertRedirectURI: only the callback looks at the URI's scheme and host.
Outcome(k, registered, d) ==
    IF ~ registered THEN Refused(k, "unregistered")
    ELSE IF k.at = "auth" THEN AtIdp(k)
    ELSE IF ~ IsWeb(k.uri) THEN Refused(k, "scheme")
    ELSE Redirected(k, d)

\* assertRedirectURI: the registered URIs of a DCR client come out of its
\* client_id; for a URL client the handler turns to the cache.
AssertRedirectURI(f, k) ==
    IF k.client \in DcrClients
    THEN Goto(f, Outcome(k, k.uri \in Registered[k.client], None))
    ELSE Goto(f, [stage |-> "lookup", check |-> k])

\* GET /auth.
Authenticate(f, c, x) ==
    /\ flow[f] = New
    /\ AssertRedirectURI(f, Check(c, x, "auth", 0))
    /\ UNCHANGED <<now, published, lastLive, cache>>

\* GET /callback, with the sealed state the flow was given at /auth.
Callback(f) ==
    /\ flow[f].stage = "at_idp"
    /\ AssertRedirectURI(f, Check(flow[f].client, flow[f].uri, "callback", flow[f].since))
    /\ UNCHANGED <<now, published, lastLive, cache>>

\* Mutant: an entry never expires.
Fresh_NoExpiry(c) == cache[c] # None

\* cimdCache.get: an entry counts up to and including its expiry.
Fresh(c) == cache[c] # None /\ ~ (now > cache[c].expires)

\* Does a document list a URI?
Lists(d, x) == RedirectURIMatchesRegistered(x, d.uris, PortInsensitive)

\* The rest of a check, once it has the document d.
Conclude(f, d) ==
    LET k == flow[f].check IN Goto(f, Outcome(k, Lists(d, k.uri), d))

\* Mutant: every hit renews the entry.
CacheHit_Slides(f) ==
    LET c == flow[f].check.client IN
    /\ flow[f].stage = "lookup"
    /\ Fresh(c)
    /\ Conclude(f, cache[c].doc)
    /\ cache' = [cache EXCEPT ![c].expires = now + TTL]
    /\ UNCHANGED <<now, published, lastLive>>

CacheHit(f) ==
    /\ flow[f].stage = "lookup"
    /\ Fresh(flow[f].check.client)
    /\ Conclude(f, cache[flow[f].check.client].doc)
    /\ UNCHANGED <<now, published, lastLive, cache>>

(***************************************************************************)
(* A miss.  The lock is free during the fetch and nothing keeps a second   *)
(* request from fetching the same document.                                *)
(***************************************************************************)
CacheMiss(f) ==
    /\ flow[f].stage = "lookup"
    /\ ~ Fresh(flow[f].check.client)
    /\ Goto(f, [stage |-> "fetching", check |-> flow[f].check, asked |-> now])
    /\ UNCHANGED <<now, published, lastLive, cache>>

\* The document's server answers with what is published at that moment.
ServerAnswers(f) ==
    /\ flow[f].stage = "fetching"
    /\ Goto(f, [stage |-> "response", check |-> flow[f].check,
                asked |-> flow[f].asked, doc |-> published[flow[f].check.client]])
    /\ UNCHANGED <<now, published, lastLive, cache>>

\* ... or the fetch fails, which is not remembered.
FetchFails(f) ==
    /\ flow[f].stage \in {"fetching", "response"}
    /\ Goto(f, Refused(flow[f].check, "fetch"))
    /\ UNCHANGED <<now, published, lastLive, cache>>

\* Mutants: a document that fails validation is remembered as a failure; it is
\* used and cached like any other.
Receive_CachesFailure(f) ==
    LET c == flow[f].check.client IN
    /\ flow[f].stage = "response"
    /\ cache' = [cache EXCEPT ![c] =
                    [doc |-> IF flow[f].doc.valid THEN flow[f].doc ELSE None,
                     expires |-> now + TTL]]
    /\ IF flow[f].doc.valid THEN Conclude(f, flow[f].doc)
                            ELSE Goto(f, Refused(flow[f].check, "fetch"))
    /\ UNCHANGED <<now, published, lastLive>>
Receive_Unvalidated(f) ==
    LET c == flow[f].check.client IN
    /\ flow[f].stage = "response"
    /\ cache' = [cache EXCEPT ![c] = [doc |-> flow[f].doc, expires |-> now + TTL]]
    /\ Conclude(f, flow[f].doc)
    /\ UNCHANGED <<now, published, lastLive>>

(***************************************************************************)
(* fetchCIMDDocumentRaw, from the response on: a valid document goes into  *)
(* the cache, with an expiry counted from now, and over whatever another   *)
(* request put there meanwhile; an invalid one is an error.                *)
(***************************************************************************)
Receive(f) ==
    LET c == flow[f].check.client
        d == flow[f].doc
    IN  /\ flow[f].stage = "response"
        /\ IF d.valid
             THEN /\ cache' = [cache EXCEPT ![c] = [doc |-> d, expires |-> now + TTL]]
                  /\ Conclude(f, d)
             ELSE /\ Goto(f, Refused(flow[f].check, "fetch"))
                  /\ UNCHANGED cache
        /\ UNCHANGED <<now, published, lastLive>>

(***************************************************************************)
(* The proxy restarts: the cache is empty and the checks under way are     *)
(* gone, but a flow that is at the IdP goes on.                            *)
(***************************************************************************)
Restart ==
    /\ cache' = [c \in UrlClients |-> None]
    /\ flow' = [f \in Flows |->
                  IF flow[f].stage \in {"lookup", "fetching", "response"}
                  THEN Refused(flow[f].check, "restart")
                  ELSE flow[f]]
    /\ UNCHANGED <<now, published, lastLive>>

(***************************************************************************)
(* The environment: a client's owner replaces its document; time passes,   *)
(* but no fetch takes longer than MaxFlight.                               *)
(***************************************************************************)
Publish(c, d) ==
    /\ published[c] # d
    /\ published' = [published EXCEPT ![c] = d]
    /\ lastLive' = [lastLive EXCEPT ![c][d] = now]
    /\ UNCHANGED <<now, cache, flow>>

Tick ==
    /\ now < MaxTime
    /\ \A f \in Flows : flow[f].stage \in {"fetching", "response"} =>
                            now < flow[f].asked + MaxFlight
    /\ now' = now + 1
    /\ lastLive' = [c \in UrlClients |-> [lastLive[c] EXCEPT ![published[c]] = now + 1]]
    /\ UNCHANGED <<published, cache, flow>>

Next == \/ Tick
        \/ Restart
        \/ \E c \in UrlClients, d \in Docs : Publish(c, d)
        \/ \E f \in Flows :
             \/ \E c \in Clients, x \in Uris : Authenticate(f, c, x)
             \/ Callback(f)
             \/ CacheHit(f) \/ CacheMiss(f)
             \/ ServerAnswers(f) \/ FetchFails(f) \/ Receive(f)

Spec == Init /\ [][Next]_vars
----------------------------------------------------------------------------------
(***************************************************************************)
(* BoundedStaleness: a user is sent to a redirect URI on the strength of a *)
(* document only if its URL still served that document at most TTL plus    *)
(* the duration of one fetch earlier, however fetches overlap and even if  *)
(* an older response overwrites a newer entry.                             *)
(***************************************************************************)
BoundedStaleness ==
    \A f \in Flows :
        flow[f].stage = "redirected" /\ flow[f].client \in UrlClients =>
            flow[f].time <= lastLive[flow[f].client][flow[f].doc] + TTL + MaxFlight

\* A URI that is registered; or, if ports do not count, one on the user's machine
\* that becomes a registered one, also there, by another port or name of it.
Permitted(x, uris) ==
    \/ x \in uris
    \/ /\ PortInsensitive
       /\ IsLocalhost(x.host)
       /\ \E r \in uris : /\ IsLocalhost(r.host)
                         /\ [x EXCEPT !.host = r.host, !.port = r.port,
                                      !.rest = r.rest] = r

(***************************************************************************)
(* RedirectsOnlyRegistered: whoever ends up at a redirect URI got there by *)
(* a valid document that this client's URL really served and that permits  *)
(* the URI, or by a client_id that carries it, and then exactly as it is   *)
(* there.  A code never leaves the user's machine for a document that only *)
(* lists addresses on it.                                                  *)
(***************************************************************************)
RedirectsOnlyRegistered ==
    \A f \in Flows : flow[f].stage = "redirected" =>
        LET c == flow[f].client
            d == flow[f].doc
        IN  IF c \in DcrClients
            THEN flow[f].uri \in Registered[c]
            ELSE d.valid /\ Permitted(flow[f].uri, d.uris) /\ lastLive[c][d] # -1

(***************************************************************************)
(* LateRefusals: a flow that /auth let through to the IdP is refused for   *)
(* its redirect URI on its return, after the user has signed in, only if   *)
(* the URI is no web URL, which /auth does not look at, or if the client's *)
(* URL served another document at most TTL plus the duration of one fetch  *)
(* before /auth let it through, or later.  So a client that is dynamically *)
(* registered, or that has left its document alone for that long, loses    *)
(* nobody half way for want of a registration, whatever order overlapping  *)
(* fetches end in.  It may for a URI that is no web URL; and a URL client  *)
(* may for a fetch of its document that fails or dies with the process.    *)
(***************************************************************************)
LateRefusals ==
    \A f \in Flows :
        LET c == flow[f].client IN
        flow[f].stage = "refused" /\ flow[f].at = "callback" =>
            /\ flow[f].why = "scheme" => ~ IsWeb(flow[f].uri)
            /\ flow[f].why = "unregistered" =>
                  /\ c \in UrlClients
                  /\ \E d \in Docs \ {published[c]} :
                        lastLive[c][d] >= flow[f].since - TTL - MaxFlight
            /\ flow[f].why \in {"fetch", "restart"} => c \in UrlClients
==================================================================================
