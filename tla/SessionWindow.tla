----------------------------- MODULE SessionWindow -----------------------------
(***************************************************************************)
(* What self-issued tokens promise, with no tokens in it: a login opens a  *)
(* session and fixes its deadline once and for all, and a request of the   *)
(* session is served only up to the deadline (a whole second, inclusive).  *)
(***************************************************************************)
EXTENDS Integers

CONSTANT Logins

VARIABLES clock,     \* in half seconds
          deadline,  \* [Logins -> the session's last second, or -1: not open]
          served     \* [Logins -> last time a request was served, or -1]

vars == <<clock, deadline, served>>

Init == /\ clock = 0
        /\ deadline = [l \in Logins |-> -1]
        /\ served = [l \in Logins |-> -1]

Tick == /\ clock' = clock + 1
        /\ UNCHANGED <<deadline, served>>

Open(l) == /\ deadline[l] = -1
           /\ deadline'[l] \in Nat
           /\ deadline' = [deadline EXCEPT ![l] = deadline'[l]]
           /\ UNCHANGED <<clock, served>>

Serve(l) == /\ clock \div 2 <= deadline[l]
            /\ served' = [served EXCEPT ![l] = clock]
            /\ UNCHANGED <<clock, deadline>>

Next == Tick \/ \E l \in Logins : Open(l) \/ Serve(l)

Spec == Init /\ [][Next]_vars
================================================================================
