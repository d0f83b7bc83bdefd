-------------------------------- MODULE JtiStore --------------------------------
(***************************************************************************)
(* private_key_jwt client authentication: validatePrivateKeyJWT and the    *)
(* store of the jti values it has seen.                                    *)
(*                                                                         *)
(* The handler of a /token request fetches the client's document and keys, *)
(* verifies the assertion against the clock, and only then asks the store, *)
(* which reads the clock again.  Between the two the clock moves and other *)
(* handlers call the store.  Seen itself holds the mutex throughout and is *)
(* one step.  The store is memory of the process and is gone when it       *)
(* restarts.                                                               *)
(***************************************************************************)
EXTENDS Integers

CONSTANTS Assertions,   \* [jti, exp, client]: the assertions clients send
          Jtis,         \* their jti values
          Requests,     \* request slots: how many requests are served at once
          MaxTime,      \* bound: the clock stops here
          MaxUses       \* bound: how often one assertion is taken

Assertion == [jti : Jtis, exp : Nat, client : STRING]

ASSUME JtiAssumption == /\ Assertions \subseteq Assertion
                        /\ MaxTime \in Nat
                        /\ MaxUses \in Nat

VARIABLES now,      \* the clock
          entries,  \* s.entries: [Jtis -> expiry, or Absent]
          job,      \* the handler in each request slot
          timely,   \* history: how often this process took each assertion
                    \* no later than its expiry
          late      \* history: ... and after it

vars == <<now, entries, job, timely, late>>

Absent == -1

Idle == [stage |-> "idle"]
Job == {Idle} \cup [stage : {"fetch", "verified"}, assertion : Assertions]

TypeOK == /\ now \in Nat
          /\ entries \in [Jtis -> Nat \cup {Absent}]
          /\ job \in [Requests -> Job]
          /\ timely \in [Assertions -> Nat]
          /\ late \in [Assertions -> Nat]

Init == /\ now = 0
        /\ entries = [j \in Jtis |-> Absent]
        /\ job = [r \in Requests |-> Idle]
        /\ timely = [a \in Assertions |-> 0]
        /\ late = [a \in Assertions |-> 0]

Finish(r) == job' = [job EXCEPT ![r] = Idle]

(***************************************************************************)
(* A /token request with a client_assertion; the handler goes to fetch the *)
(* client's metadata document and its key set.                             *)
(***************************************************************************)
Receive(r, a) ==
    /\ job[r] = Idle
    /\ timely[a] + late[a] < MaxUses
    /\ job' = [job EXCEPT ![r] = [stage |-> "fetch", assertion |-> a]]
    /\ UNCHANGED <<now, entries, timely, late>>

\* jwt.Parse without leeway: good strictly before exp.
NotExpired(a, t) == t < a.exp

\* Mutant: the jti is registered as soon as the assertion is verified, and the
\* handler goes on to ask for it.
Verify_Registers(r) ==
    /\ job[r].stage = "fetch"
    /\ NotExpired(job[r].assertion, now)
    /\ job' = [job EXCEPT ![r].stage = "verified"]
    /\ entries' = [entries EXCEPT ![job[r].assertion.jti] = job[r].assertion.exp]
    /\ UNCHANGED <<now, timely, late>>

(***************************************************************************)
(* The document and the keys are there; jwt.Parse and the comparisons of   *)
(* iss, sub, aud and jti succeed.                                          *)
(***************************************************************************)
Verify(r) ==
    /\ job[r].stage = "fetch"
    /\ NotExpired(job[r].assertion, now)
    /\ job' = [job EXCEPT ![r].stage = "verified"]
    /\ UNCHANGED <<now, entries, timely, late>>

(***************************************************************************)
(* invalid_client: a fetch fails, or the assertion does not verify.        *)
(***************************************************************************)
Refuse(r) ==
    /\ job[r].stage = "fetch"
    /\ Finish(r)
    /\ UNCHANGED <<now, entries, timely, late>>

\* Mutants: an entry goes at the instant of its expiry; valid entries go.
Expired_AtExpiry(j, t) == entries[j] # Absent /\ t >= entries[j]
Expired_Swapped(j, t) == entries[j] # Absent /\ t < entries[j]

\* What a call of Seen at time t keeps: an entry goes once t is after its expiry.
Expired(j, t) == entries[j] # Absent /\ t > entries[j]

\* Mutant: nothing is ever pruned.
Pruned_Never(t) == entries

Pruned(t) == [j \in Jtis |-> IF Expired(j, t) THEN Absent ELSE entries[j]]

\* Mutant: the time left to the expiry is stored instead of the expiry.
Register_Lifetime(a) == [Pruned(now) EXCEPT ![a.jti] = a.exp - now]

Register(a) == [Pruned(now) EXCEPT ![a.jti] = a.exp]

(***************************************************************************)
(* jtiStore.Seen under its mutex: prune, look up, register.  The request   *)
(* is authenticated unless the jti is still registered.                    *)
(***************************************************************************)
Seen(r) ==
    LET a == job[r].assertion IN
    /\ job[r].stage = "verified"
    /\ IF Pruned(now)[a.jti] # Absent
         THEN /\ entries' = Pruned(now)
              /\ UNCHANGED <<timely, late>>
         ELSE /\ entries' = Register(a)
              /\ IF now <= a.exp
                   THEN timely' = [timely EXCEPT ![a] = @ + 1] /\ UNCHANGED late
                   ELSE late' = [late EXCEPT ![a] = @ + 1] /\ UNCHANGED timely
    /\ Finish(r)
    /\ UNCHANGED now

(***************************************************************************)
(* The process restarts with an empty store; so does the history, which is *)
(* about one process.                                                      *)
(***************************************************************************)
Restart == /\ entries' = [j \in Jtis |-> Absent]
           /\ job' = [r \in Requests |-> Idle]
           /\ timely' = [a \in Assertions |-> 0]
           /\ late' = [a \in Assertions |-> 0]
           /\ UNCHANGED now

Tick == /\ now < MaxTime
        /\ now' = now + 1
        /\ UNCHANGED <<entries, job, timely, late>>

Next == \/ Tick
        \/ Restart
        \/ \E r \in Requests, a \in Assertions : Receive(r, a)
        \/ \E r \in Requests : Verify(r) \/ Refuse(r) \/ Seen(r)

Spec == Init /\ [][Next]_vars
--------------------------------------------------------------------------------
(***************************************************************************)
(* AtMostOnceWhileValid: one process takes an assertion at most once up to *)
(* and including the instant it expires, however the handlers of its       *)
(* copies interleave and whatever else is registered and pruned meanwhile. *)
(***************************************************************************)
AtMostOnceWhileValid == \A a \in Assertions : timely[a] <= 1

(***************************************************************************)
(* RemembersWhileValid: "tracking seen jti values until the assertion's    *)
(* expiry time": what the process took stays registered, under its own     *)
(* expiry, as long as it is valid, although every call prunes the store    *)
(* and another client may use the same jti with another expiry.            *)
(***************************************************************************)
RemembersWhileValid ==
    \A a \in Assertions :
        timely[a] > 0 /\ now <= a.exp => entries[a.jti] = a.exp

(***************************************************************************)
(* RegisteredWasTaken: a jti is registered, and so makes an assertion be   *)
(* refused as a replay, only because this process took an assertion with   *)
(* that jti and that expiry; it need not be of the same client, since the  *)
(* store is keyed by the jti alone.                                        *)
(***************************************************************************)
RegisteredWasTaken ==
    \A j \in Jtis : entries[j] # Absent =>
        \E a \in Assertions : /\ a.jti = j /\ a.exp = entries[j]
                             /\ timely[a] + late[a] > 0

(***************************************************************************)
(* KeepsOnlyValid: a call that changes the store leaves no expired entry   *)
(* in it but the one it registers itself, so that the store does not grow  *)
(* with the assertions of the past.                                        *)
(***************************************************************************)
Registers(j) == \E a \in Assertions : /\ a.jti = j
                                      /\ timely'[a] + late'[a] > timely[a] + late[a]

ChangesKeepValid ==
    entries' # entries =>
        \A j \in Jtis : \/ entries'[j] = Absent
                        \/ entries'[j] >= now
                        \/ Registers(j)

KeepsOnlyValid == [][ChangesKeepValid]_vars

(***************************************************************************)
(* NeverTwice: the comment on validatePrivateKeyJWT, "jti not previously   *)
(* seen (replay protection)": one process takes no assertion twice.        *)
(***************************************************************************)
NeverTwice == \A a \in Assertions : timely[a] + late[a] <= 1
================================================================================
