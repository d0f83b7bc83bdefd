------------------------------ MODULE MCJtiStore ------------------------------
(***************************************************************************)
(* Three assertions: two of one client with the same expiry, and one of    *)
(* another client that happens to use the same jti and lives longer.       *)
(***************************************************************************)
EXTENDS JtiStore

MCAssertions == {[jti |-> "j1", exp |-> 2, client |-> "c1"],
                 [jti |-> "j2", exp |-> 2, client |-> "c1"],
                 [jti |-> "j1", exp |-> 3, client |-> "c2"]}
===============================================================================
