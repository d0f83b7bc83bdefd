----------------------------- MODULE MCTokenFlow -----------------------------
(***************************************************************************)
(* Small instances of TokenFlow: one login (logins share nothing but the   *)
(* clock), two requests at once, an IdP whose access tokens may expire     *)
(* before they are validated or have no expiry, and whose refresh tokens   *)
(* may be JWTs.                                                            *)
(***************************************************************************)
EXTENDS TokenFlow

\* A dynamically registered client and a URL client with private_key_jwt; one that
\* uses no assertion.
MCClients == {[id |-> "dcr", proof |-> "secret"],
              [id |-> "url", proof |-> "assertion"]}
MCPublicClients == {[id |-> "dcr", proof |-> "secret"],
                    [id |-> "url", proof |-> "none"]}

MCSiConfig == [ttl |-> 3, max |-> 4]
MCLifetimes == {NoExp, 0}
MCRefreshLifetimes == {NoExp, 1}
==============================================================================
