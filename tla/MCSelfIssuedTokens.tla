-------------------------- MODULE MCSelfIssuedTokens --------------------------
(***************************************************************************)
(* A small instance: two logins, three deployments.  The second takes both *)
(* defaults, the third has token_ttl above token_max_ttl, as the sample    *)
(* environment of the repository has.                                      *)
(***************************************************************************)
EXTENDS SelfIssuedTokens

MCConfigs == {[ttl |-> 3, max |-> 6],
              [ttl |-> 0, max |-> -1],
              [ttl |-> 5, max |-> 2]}
===============================================================================
