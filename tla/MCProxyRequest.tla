----------------------------- MODULE MCProxyRequest -----------------------------
(***************************************************************************)
(* Two users, one with fewer claims; a deployment that maps two claims to  *)
(* the same header, one that maps them apart and fixes one of the headers, *)
(* and one that fixes Authorization and a header the reverse proxy always  *)
(* removes.                                                                *)
(***************************************************************************)
EXTENDS ProxyRequest

MCUsers == {"ann", "bob"}
MCClaims == [ann |-> [email |-> "ann@x", name |-> "Ann"], bob |-> [email |-> "bob@x"]]
MCHeaders == {"X-User", "X-Name", "X-Forwarded-Host", "Authorization"}
MCStripped == {"X-Forwarded-Host"}
MCDeployments ==
    {[behavior |-> "proxy", mapping |-> [email |-> "X-User", name |-> "X-User"],
      fixed |-> [h \in {} |-> "none"]],
     [behavior |-> "self_issued", mapping |-> [email |-> "X-User", name |-> "X-Name"],
      fixed |-> [h \in {"X-User"} |-> "shared"]],
     [behavior |-> "self_issued", mapping |-> [name |-> "X-User"],
      fixed |-> [h \in {"Authorization", "X-Forwarded-Host"} |-> "key"]]}
================================================================================
