----------------------------- MODULE JtiStoreProofs -----------------------------
(***************************************************************************)
(* Proofs about JtiStore, for every set of assertions, whatever jti values *)
(* and expiries they share, and any number of concurrent requests.         *)
(***************************************************************************)
EXTENDS JtiStore, TLAPS

\* An assertion has a jti and a natural expiry, which is not the mark of an absent entry.
LEMMA AssertionFields ==
    ASSUME NEW a \in Assertions
    PROVE  a.jti \in Jtis /\ a.exp \in Nat /\ a.exp # Absent
BY JtiAssumption, SMT DEF Assertion, Absent

\* Pruning yields a store again, and removes exactly the expired entries.
LEMMA PrunedProps ==
    ASSUME TypeOK
    PROVE  /\ Pruned(now) \in [Jtis -> Nat \cup {Absent}]
           /\ \A j \in Jtis :
                /\ Pruned(now)[j] # Absent => /\ Pruned(now)[j] = entries[j]
                                              /\ now <= entries[j]
                /\ entries[j] # Absent /\ now <= entries[j]
                       => Pruned(now)[j] = entries[j]
<1>1. now \in Nat /\ entries \in [Jtis -> Nat \cup {Absent}]
  BY DEF TypeOK
<1>2. ASSUME NEW j \in Jtis, entries[j] # Absent
      PROVE  Expired(j, now) <=> ~ (now <= entries[j])
  BY <1>1, <1>2, SMT DEF Expired
<1> QED
  BY <1>1, <1>2 DEF Pruned, Expired

\* A handler that has something to do holds an assertion.
LEMMA JobAssertion ==
    ASSUME TypeOK, NEW r \in Requests, job[r].stage # "idle"
    PROVE  job[r].assertion \in Assertions
BY DEF TypeOK, Job, Idle

\* The two outcomes of a call of Seen.
Replayed(a) == /\ entries' = Pruned(now)
               /\ UNCHANGED <<timely, late>>

TakenInTime(a) == /\ Pruned(now)[a.jti] = Absent
                  /\ entries' = [Pruned(now) EXCEPT ![a.jti] = a.exp]
                  /\ now <= a.exp
                  /\ timely' = [timely EXCEPT ![a] = @ + 1]
                  /\ late' = late

TakenLate(a) == /\ Pruned(now)[a.jti] = Absent
                /\ entries' = [Pruned(now) EXCEPT ![a.jti] = a.exp]
                /\ ~ (now <= a.exp)
                /\ late' = [late EXCEPT ![a] = @ + 1]
                /\ timely' = timely

\* Seen answers "replayed", or takes the assertion: in time, or after its expiry.
LEMMA SeenOutcomes ==
    ASSUME NEW r, Seen(r)
    PROVE  LET a == job[r].assertion
           IN  now' = now /\ (Replayed(a) \/ TakenInTime(a) \/ TakenLate(a))
BY DEF Seen, Register, Replayed, TakenInTime, TakenLate
--------------------------------------------------------------------------------
\* Every step of Next keeps the types.
LEMMA TypeStep == TypeOK /\ [Next]_vars => TypeOK'
<1> SUFFICES ASSUME TypeOK, [Next]_vars PROVE TypeOK'
  OBVIOUS
<1>1. CASE Tick
  BY <1>1, SMT DEF TypeOK, Tick
<1>2. CASE Restart
  BY <1>2, SMT DEF TypeOK, Restart, Job
<1>3. ASSUME NEW r \in Requests, NEW a \in Assertions, Receive(r, a) PROVE TypeOK'
  BY <1>3 DEF TypeOK, Receive, Job
<1>4. ASSUME NEW r \in Requests, Verify(r) PROVE TypeOK'
  <2>1. job[r] \in [stage : {"fetch"}, assertion : Assertions]
    BY <1>4 DEF TypeOK, Verify, Job, Idle
  <2>2. [job[r] EXCEPT !.stage = "verified"] \in Job
    BY <2>1 DEF Job
  <2>3. job' = [job EXCEPT ![r] = [job[r] EXCEPT !.stage = "verified"]]
    BY <1>4 DEF Verify
  <2> QED
    BY <1>4, <2>2, <2>3 DEF TypeOK, Verify
<1>5. ASSUME NEW r \in Requests, Refuse(r) PROVE TypeOK'
  BY <1>5 DEF TypeOK, Refuse, Finish, Job
<1>6. ASSUME NEW r \in Requests, Seen(r) PROVE TypeOK'
  <2> DEFINE a == job[r].assertion
  <2>1. a \in Assertions /\ a.jti \in Jtis /\ a.exp \in Nat
    BY <1>6, JobAssertion, AssertionFields DEF Seen
  <2>2. job' \in [Requests -> Job]
    BY <1>6 DEF TypeOK, Seen, Finish, Job
  <2>3. now' = now /\ (Replayed(a) \/ TakenInTime(a) \/ TakenLate(a))
    BY <1>6, SeenOutcomes
  <2>4. entries' \in [Jtis -> Nat \cup {Absent}]
    BY <2>1, <2>3, PrunedProps DEF Replayed, TakenInTime, TakenLate
  <2>5. timely' \in [Assertions -> Nat] /\ late' \in [Assertions -> Nat]
    BY <2>1, <2>3, SMT DEF TypeOK, Replayed, TakenInTime, TakenLate
  <2> QED
    BY <2>2, <2>3, <2>4, <2>5 DEF TypeOK
<1>7. CASE UNCHANGED vars
  BY <1>7 DEF TypeOK, vars
<1> QED
  BY <1>1, <1>2, <1>3, <1>4, <1>5, <1>6, <1>7 DEF Next

(***************************************************************************)
(* TypeCorrect: every variable keeps its type.                             *)
(***************************************************************************)
THEOREM TypeCorrect == Spec => []TypeOK
<1>1. Init => TypeOK
  BY SMT DEF Init, TypeOK, Job
<1> QED
  BY <1>1, TypeStep, PTL DEF Spec
--------------------------------------------------------------------------------
(***************************************************************************)
(* An assertion is taken only when no entry for its jti survives the       *)
(* pruning.  What makes that rule out a second time is that the entry of   *)
(* the first does survive while the assertion is valid:                    *)
(* AtMostOnceWhileValid is inductive only together with                    *)
(* RemembersWhileValid.                                                    *)
(***************************************************************************)
OnceInv == TypeOK /\ RemembersWhileValid /\ AtMostOnceWhileValid

\* The entry of an assertion taken in time is still there after the pruning of Seen.
LEMMA SurvivesPruning ==
    ASSUME TypeOK, RemembersWhileValid,
           NEW a \in Assertions, timely[a] > 0, now <= a.exp
    PROVE  Pruned(now)[a.jti] = a.exp /\ a.exp # Absent
<1>1. entries[a.jti] = a.exp
  BY DEF RemembersWhileValid
<1> QED
  BY <1>1, AssertionFields, PrunedProps

\* Every step keeps the inductive invariant.
LEMMA OnceStep == OnceInv /\ [Next]_vars => OnceInv'
<1> SUFFICES ASSUME OnceInv, [Next]_vars
             PROVE  RemembersWhileValid' /\ AtMostOnceWhileValid'
  BY TypeStep DEF OnceInv
<1> USE DEF OnceInv
<1>1. CASE Tick
  <2>1. ASSUME NEW a \in Assertions, now' <= a.exp PROVE now <= a.exp
    BY <1>1, <2>1, AssertionFields, SMT DEF Tick, TypeOK
  <2> QED
    BY <1>1, <2>1 DEF Tick, RemembersWhileValid, AtMostOnceWhileValid
<1>2. CASE Restart
  BY <1>2, SMT DEF Restart, RemembersWhileValid, AtMostOnceWhileValid
<1>3. CASE UNCHANGED <<now, entries, timely>>
  BY <1>3 DEF RemembersWhileValid, AtMostOnceWhileValid
<1>4. ASSUME NEW r \in Requests, Seen(r)
      PROVE  RemembersWhileValid' /\ AtMostOnceWhileValid'
  <2> DEFINE a == job[r].assertion
  <2>1. a \in Assertions /\ a.jti \in Jtis /\ a.exp \in Nat /\ a.exp # Absent
    BY <1>4, JobAssertion, AssertionFields DEF Seen
  <2>2. now' = now /\ (Replayed(a) \/ TakenInTime(a) \/ TakenLate(a))
    BY <1>4, SeenOutcomes
  <2>3. CASE Replayed(a)
    BY <2>2, <2>3, SurvivesPruning
       DEF Replayed, RemembersWhileValid, AtMostOnceWhileValid
  <2>4. CASE TakenInTime(a)
    <3>1. timely[a] = 0
      BY <2>1, <2>4, SurvivesPruning, SMT DEF TakenInTime, TypeOK
    <3>2. timely' = [timely EXCEPT ![a] = 1]
      BY <2>1, <2>4, <3>1 DEF TakenInTime, TypeOK
    <3>3. AtMostOnceWhileValid'
      BY <2>1, <3>2, SMT DEF AtMostOnceWhileValid, TypeOK
    <3>4. ASSUME NEW b \in Assertions, b # a, timely'[b] > 0, now' <= b.exp
          PROVE  entries'[b.jti] = b.exp
      <4>1. timely[b] > 0 /\ now <= b.exp
        BY <2>1, <2>2, <3>2, <3>4 DEF TypeOK
      <4>2. Pruned(now)[b.jti] = b.exp /\ b.exp # Absent
        BY <4>1, SurvivesPruning
      <4>3. b.jti # a.jti
        BY <2>4, <4>2 DEF TakenInTime
      <4> QED
        BY <2>1, <2>4, <4>2, <4>3, AssertionFields, PrunedProps DEF TakenInTime
    <3>5. entries'[a.jti] = a.exp
      BY <2>1, <2>4, PrunedProps DEF TakenInTime
    <3> QED
      BY <3>3, <3>4, <3>5 DEF RemembersWhileValid
  <2>5. CASE TakenLate(a)
    <3>1. ASSUME NEW b \in Assertions, timely'[b] > 0, now' <= b.exp
          PROVE  entries'[b.jti] = b.exp
      <4>1. timely[b] > 0 /\ now <= b.exp
        BY <2>2, <2>5, <3>1 DEF TakenLate
      <4>2. Pruned(now)[b.jti] = b.exp /\ b.exp # Absent
        BY <4>1, SurvivesPruning
      <4>3. b.jti # a.jti
        BY <2>5, <4>2 DEF TakenLate
      <4> QED
        BY <2>1, <2>5, <4>2, <4>3, AssertionFields, PrunedProps DEF TakenLate
    <3> QED
      BY <2>5, <3>1 DEF RemembersWhileValid, AtMostOnceWhileValid, TakenLate
  <2> QED
    BY <2>2, <2>3, <2>4, <2>5
<1> QED
  BY <1>1, <1>2, <1>3, <1>4 DEF Next, Receive, Verify, Refuse, vars

\* So every state has it.
LEMMA OnceInvariant == Spec => []OnceInv
<1>1. Init => OnceInv
  BY SMT DEF Init, OnceInv, TypeOK, Job, RemembersWhileValid, AtMostOnceWhileValid
<1> QED
  BY <1>1, OnceStep, PTL DEF Spec

(***************************************************************************)
(* AtMostOnce: one process takes an assertion at most once while it is     *)
(* valid, for any number of concurrent copies of it.                       *)
(***************************************************************************)
THEOREM AtMostOnce == Spec => []AtMostOnceWhileValid
BY OnceInvariant, PTL DEF OnceInv

(***************************************************************************)
(* Remembers: pruning never forgets an assertion before its expiry.        *)
(***************************************************************************)
THEOREM Remembers == Spec => []RemembersWhileValid
BY OnceInvariant, PTL DEF OnceInv
--------------------------------------------------------------------------------
\* Every step keeps RegisteredWasTaken: only Register adds an entry, and it counts what it takes.
LEMMA RegisteredStep ==
    TypeOK /\ RegisteredWasTaken /\ [Next]_vars => RegisteredWasTaken'
<1> SUFFICES ASSUME TypeOK, RegisteredWasTaken, [Next]_vars
             PROVE  RegisteredWasTaken'
  OBVIOUS
<1>1. CASE UNCHANGED <<entries, timely, late>>
  BY <1>1 DEF RegisteredWasTaken
<1>2. CASE Restart
  BY <1>2 DEF Restart, RegisteredWasTaken
<1>3. ASSUME NEW r \in Requests, Seen(r) PROVE RegisteredWasTaken'
  <2> DEFINE a == job[r].assertion
  <2>1. a \in Assertions /\ a.jti \in Jtis
    BY <1>3, JobAssertion, AssertionFields DEF Seen
  <2>2. Replayed(a) \/ TakenInTime(a) \/ TakenLate(a)
    BY <1>3, SeenOutcomes
  <2>3. /\ \A b \in Assertions : timely[b] + late[b] > 0 => timely'[b] + late'[b] > 0
        /\ ~ Replayed(a) => timely'[a] + late'[a] > 0
    BY <2>1, <2>2, SMT DEF TypeOK, Replayed, TakenInTime, TakenLate
  <2>4. ASSUME NEW j \in Jtis, entries'[j] # Absent
        PROVE  \E b \in Assertions : /\ b.jti = j /\ b.exp = entries'[j]
                                    /\ timely'[b] + late'[b] > 0
    <3>1. CASE entries'[j] = Pruned(now)[j]
      <4>1. entries[j] # Absent /\ entries'[j] = entries[j]
        BY <2>4, <3>1, PrunedProps
      <4> QED
        BY <4>1, <2>3 DEF RegisteredWasTaken
    <3>2. CASE entries'[j] # Pruned(now)[j]
      <4>1. ~ Replayed(a) /\ entries' = [Pruned(now) EXCEPT ![a.jti] = a.exp]
        BY <2>2, <3>2 DEF Replayed, TakenInTime, TakenLate
      <4>2. j = a.jti /\ entries'[j] = a.exp
        BY <2>1, <3>2, <4>1, PrunedProps
      <4> QED
        BY <2>1, <2>3, <4>1, <4>2
    <3> QED
      BY <3>1, <3>2
  <2> QED
    BY <2>4 DEF RegisteredWasTaken
<1> QED
  BY <1>1, <1>2, <1>3 DEF Next, Tick, Receive, Verify, Refuse, vars

(***************************************************************************)
(* RefusalsAreReplays: a jti is registered only because this process took  *)
(* an assertion that carries it.                                           *)
(***************************************************************************)
THEOREM RefusalsAreReplays == Spec => []RegisteredWasTaken
<1>1. Init => RegisteredWasTaken
  BY DEF Init, RegisteredWasTaken
<1> QED
  BY <1>1, TypeCorrect, RegisteredStep, PTL DEF Spec

\* The action property ChangesKeepValid, of every step from a state of the right type.
LEMMA KeepsStep == TypeOK /\ [Next]_vars => ChangesKeepValid
<1> SUFFICES ASSUME TypeOK, [Next]_vars, entries' # entries, NEW j \in Jtis,
                    entries'[j] # Absent, ~ Registers(j)
             PROVE  entries'[j] >= now
  BY DEF ChangesKeepValid
<1>1. CASE Restart
  BY <1>1 DEF Restart
<1>2. ASSUME NEW r \in Requests, Seen(r) PROVE entries'[j] >= now
  <2> DEFINE a == job[r].assertion
  <2>1. a \in Assertions /\ a.jti \in Jtis
    BY <1>2, JobAssertion, AssertionFields DEF Seen
  <2>2. Replayed(a) \/ TakenInTime(a) \/ TakenLate(a)
    BY <1>2, SeenOutcomes
  <2>3. Replayed(a) \/ timely'[a] + late'[a] > timely[a] + late[a]
    BY <2>1, <2>2, SMT DEF TypeOK, TakenInTime, TakenLate
  <2>4. entries'[j] = Pruned(now)[j]
    <3>1. CASE Replayed(a)
      BY <3>1 DEF Replayed
    <3>2. CASE ~ Replayed(a)
      <4>1. j # a.jti
        BY <2>1, <2>3, <3>2 DEF Registers
      <4> QED
        BY <2>2, <3>2, <4>1, PrunedProps DEF TakenInTime, TakenLate
    <3> QED
      BY <3>1, <3>2
  <2>5. entries'[j] = entries[j] /\ now <= entries[j]
    BY <2>4, PrunedProps
  <2>6. entries[j] \in Nat /\ now \in Nat
    BY <2>5, SMT DEF TypeOK
  <2> QED
    BY <2>5, <2>6, SMT
<1> QED
  BY <1>1, <1>2 DEF Next, Tick, Receive, Verify, Refuse, vars

(***************************************************************************)
(* Prunes: a call that changes the store leaves no expired entry of an     *)
(* earlier call behind.                                                    *)
(***************************************************************************)
THEOREM Prunes == Spec => KeepsOnlyValid
BY TypeCorrect, KeepsStep, PTL DEF Spec, KeepsOnlyValid
================================================================================
