------------------------------- MODULE KeyLookup -------------------------------
(***************************************************************************)
(* What ValidateJWT makes of the IdP's keys, with no cache, no lock and no *)
(* parsed entries in it: the proxy knows one of the key sets the IdP has   *)
(* published; a validation decides in one step by the set that is known    *)
(* then; a miss makes it ask for a set that is not older than its question *)
(* and decide by what is known afterwards, which need not be its answer.   *)
(***************************************************************************)
EXTENDS Naturals, Sequences

CONSTANTS Requests, Keys, KeySets, Usable

VARIABLES history,  \* the key sets the IdP has published, oldest first
          known,    \* the number of the one the proxy knows
          lookup    \* [Requests -> where the validation is]

vars == <<history, known, lookup>>

Version == Len(history)
Found(k) == k \in history[known] \cap Usable

Idle == [stage |-> "idle"]
Goto(r, where) == /\ lookup' = [lookup EXCEPT ![r] = where]
                  /\ UNCHANGED <<history, known>>

Init == /\ \E S \in KeySets : history = <<S>>
        /\ known = 1
        /\ lookup = [r \in Requests |-> Idle]

Publish(S) == /\ history' = Append(history, S)
              /\ UNCHANGED <<known, lookup>>

Ask(r, k) == /\ lookup[r].stage \in {"idle", "accepted", "refused"}
             /\ Goto(r, [stage |-> "look", key |-> k, at |-> "first"])

Accept(r) == /\ lookup[r].stage = "look" /\ Found(lookup[r].key)
             /\ Goto(r, [stage |-> "accepted", key |-> lookup[r].key])

\* A key that is there does not verify its own signature: only while another
\* validation uses the same key.
Garble(r) == /\ lookup[r].stage = "look" /\ Found(lookup[r].key)
             /\ \E q \in Requests \ {r} : /\ lookup[q].stage = "look"
                                          /\ lookup[q].key = lookup[r].key
             /\ Goto(r, [stage |-> "refused", key |-> lookup[r].key, why |-> "torn"])

Turn(r) == /\ lookup[r].stage = "look" /\ lookup[r].at = "first"
           /\ ~ Found(lookup[r].key)
           /\ Goto(r, [stage |-> "refresh", key |-> lookup[r].key, began |-> Version])

Refresh(r) == /\ lookup[r].stage = "refresh"
              /\ known' \in lookup[r].began .. Version
              /\ lookup' = [lookup EXCEPT ![r] = [stage |-> "look", key |-> lookup[r].key,
                                                  at |-> "second"]]
              /\ UNCHANGED history

Fail(r) == /\ lookup[r].stage = "refresh"
           /\ Goto(r, [stage |-> "refused", key |-> lookup[r].key, why |-> "fetch"])

Refuse(r) == /\ lookup[r].stage = "look" /\ lookup[r].at = "second"
             /\ ~ Found(lookup[r].key)
             /\ Goto(r, [stage |-> "refused", key |-> lookup[r].key, why |-> "missing"])

Restart == /\ known' = Version
           /\ lookup' = [r \in Requests |-> Idle]
           /\ UNCHANGED history

Next == \/ Restart
        \/ \E S \in KeySets : Publish(S)
        \/ \E r \in Requests : \/ \E k \in Keys : Ask(r, k)
                               \/ Accept(r) \/ Garble(r) \/ Refuse(r)
                               \/ Turn(r) \/ Refresh(r) \/ Fail(r)

Spec == Init /\ [][Next]_vars
================================================================================
