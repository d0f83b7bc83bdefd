------------------------------ MODULE RedirectMatch ------------------------------
(***************************************************************************)
(* When a redirect URI counts as one of those a client metadata document   *)
(* lists.  A URI is what url.Parse tells apart: its scheme, its host name, *)
(* its port with the colon, its path with the query, and the rest (user    *)
(* and fragment).                                                          *)
(***************************************************************************)

\* The URIs over given parts.
UriOf(schemes, hosts, ports, paths, rests) ==
    [scheme : schemes, host : hosts, port : ports, path : paths, rest : rests]

\* Absolute http or https URLs, the only ones a code is sent to.  What must not be
\* empty is the host name and the port together.
IsWeb(u) == u.scheme \in {"http", "https"} /\ <<u.host, u.port>> # <<"", "">>

IsLocalhost(host) == host \in {"localhost", "127.0.0.1"}

\* Mutant: the registered host is not looked at.
LocalhostPortInsensitiveMatch_AnyHost(registered, requested) ==
    /\ registered.scheme = requested.scheme
    /\ IsLocalhost(requested.host)
    /\ registered.path = requested.path

\* Both are on the user's machine, under either of its names, and agree in
\* scheme and path.
LocalhostPortInsensitiveMatch(registered, requested) ==
    /\ registered.scheme = requested.scheme
    /\ IsLocalhost(registered.host) /\ IsLocalhost(requested.host)
    /\ registered.path = requested.path

RedirectURIMatchesRegistered(requested, registered, portInsensitive) ==
    \E r \in registered :
        \/ r = requested
        \/ portInsensitive /\ LocalhostPortInsensitiveMatch(r, requested)
==================================================================================
