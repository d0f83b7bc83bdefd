------------------------------- MODULE MCLifecycle -------------------------------
(***************************************************************************)
(* Two requests; one, two or three (by default) attempts at each fetch; a  *)
(* shutdown of three units, so that requests may be younger and older.     *)
(***************************************************************************)
EXTENDS Lifecycle

MCSettings == {-1, 0, 1, 2}
================================================================================
