------------------------------ MODULE MCJwksCache ------------------------------
(***************************************************************************)
(* Two validations; the IdP replaces k1 by k2, or k2 by k1, up to twice.   *)
(* The key ec is of a type the proxy cannot use.                           *)
(***************************************************************************)
EXTENDS JwksCache

MCKeys == {"k1", "k2", "ec"}
MCUsable == {"k1", "k2"}
MCKeySets == {{"k1", "ec"}, {"k2"}}
================================================================================
