---------------------------- MODULE LifecycleProofs ----------------------------
(***************************************************************************)
(* Proofs about Lifecycle, for every configuration of the retries, every   *)
(* deadline, any number of requests and of telemetry providers: when the   *)
(* start is given up, whom the shutdown cuts off and how long it takes.    *)
(***************************************************************************)
EXTENDS Lifecycle, TLAPS

\* The lesser and the greater of two integers.
LEMMA MinOfTwo ==
    ASSUME NEW m \in Int, NEW n \in Int
    PROVE  Min({m, n}) = IF m <= n THEN m ELSE n
<1>1. \E x \in {m, n} : \A y \in {m, n} : x =< y
  BY SMT
<1>2. Min({m, n}) \in {m, n} /\ \A y \in {m, n} : Min({m, n}) =< y
  BY <1>1 DEF Min
<1> QED
  BY <1>2, SMT

\* Of two numbers, Max is the larger one.
LEMMA MaxOfTwo ==
    ASSUME NEW m \in Int, NEW n \in Int
    PROVE  Max({m, n}) = IF m >= n THEN m ELSE n
<1>1. \E x \in {m, n} : \A y \in {m, n} : x >= y
  BY SMT
<1>2. Max({m, n}) \in {m, n} /\ \A y \in {m, n} : Max({m, n}) >= y
  BY <1>1 DEF Max
<1> QED
  BY <1>2, SMT

\* The delays between the attempts of a fetch add up.
LEMMA DelaysAddUp ==
    ASSUME NEW n \in Nat, n >= 1
    PROVE  /\ (n - 1) * Delay \in Nat /\ n * Delay \in Nat
           /\ n * Delay = (n - 1) * Delay + Delay
           /\ \A m \in Nat : n <= m => n * Delay <= m * Delay
<1>1. Delay \in Nat
  BY LifecycleAssumption
<1>2. \A m \in Nat : n <= m => n * Delay <= m * Delay
  BY <1>1, SMT
<1> QED
  BY <1>1, <1>2, SMT

\* withRetry makes at least one attempt, whatever the setting.
LEMMA AttemptsProps ==
    ASSUME setting \in [attempts : Settings, providers : {{}, Providers}]
    PROVE  Attempts \in Nat /\ Attempts >= 1
<1>1. setting.attempts \in Int
  BY LifecycleAssumption
<1>2. DefaultAttempts \in Nat /\ DefaultAttempts # 0
  BY LifecycleAssumption
<1> QED
  BY <1>1, <1>2, SMT DEF Attempts

\* The types of the numbers, and the ages of the requests that run.
LEMMA Numbers ==
    ASSUME TypeOK
    PROVE  /\ tries \in Nat /\ tries <= Attempts - 1 /\ waited \in Nat /\ span \in Nat
           /\ elapsed \in Nat /\ left \in Nat /\ left <= Grace
           /\ Delay \in Nat /\ Grace \in Nat /\ FlushLimit \in Nat
           /\ MaxAge \in Nat /\ Grace <= MaxAge
           /\ \A r \in Requests : age[r] \in Int /\ -1 <= age[r] /\ age[r] <= MaxAge
<1>1. Delay \in Nat /\ FlushLimit \in Nat
  BY LifecycleAssumption
<1>2. Max({Delay, FlushLimit}) \in Nat
  BY <1>1, MaxOfTwo, SMT
<1>3. tries \in Nat /\ tries <= Attempts - 1
  BY AttemptsProps, SMT DEF TypeOK
<1> QED
  BY <1>1, <1>2, <1>3, LifecycleAssumption, SMT DEF TypeOK

\* The end of the process leaves the variables well-typed.
LEMMA ExitTyped ==
    ASSUME TypeOK, NEW code \in {0, 1},
           NEW why \in {"fetch", "signal", "bind", "drain", "probes", "done"},
           Exit(code, why)
    PROVE  TypeOK'
<1>1. Active \subseteq Requests /\ {age[r] : r \in Active} \subseteq 0 .. MaxAge
  BY Numbers, SMT DEF Active
<1>2. exit' \in [code : {0, 1},
                 why : {"running", "fetch", "signal", "bind", "drain", "probes", "done"},
                 cut : SUBSET Requests, ages : SUBSET (0 .. MaxAge)]
  BY <1>1 DEF Exit
<1>3. age' \in [Requests -> -1 .. MaxAge]
  BY Numbers, SMT DEF Exit
<1>4. UNCHANGED <<setting, startup, shutdown>> /\ Attempts' = Attempts
  BY DEF Exit, Attempts
<1> QED
  BY <1>2, <1>3, <1>4 DEF TypeOK, Exit, startup, shutdown

\* What a unit of time does to the clocks of the process.
LEMMA TickProps ==
    ASSUME TypeOK, Tick
    PROVE  /\ waited' = IF pc \in Waiting \cup {"flush"} THEN waited + 1 ELSE waited
           /\ pc \in Waiting => waited < Delay
           /\ pc = "flush" => waited < FlushLimit
           /\ tries > 0 => \/ span' = span + 1
                           \/ span' = Attempts * Delay
           /\ tries = 0 => span' = span
           /\ span' \in Nat
           /\ \A r \in Requests : /\ age[r] >= 0 => \/ age'[r] = age[r] + 1
                                                    \/ age'[r] = MaxAge
                                  /\ age[r] < 0 => age'[r] = -1
           /\ age' \in [Requests -> -1 .. MaxAge]
           /\ Active' = Active
<1>a. Attempts \in Nat /\ Attempts * Delay \in Nat
  BY AttemptsProps, DelaysAddUp DEF TypeOK
<1>1. /\ waited' = IF pc \in Waiting \cup {"flush"} THEN waited + 1 ELSE waited
      /\ pc \in Waiting => waited < Delay
      /\ pc = "flush" => waited < FlushLimit
  BY DEF Tick, Fetching, Waiting
<1>2. span' = IF tries > 0 THEN Min({span + 1, Attempts * Delay}) ELSE span
  BY DEF Tick
<1>3. tries > 0 => (span' = span + 1 \/ span' = Attempts * Delay) /\ span' \in Nat
  <2>1. Min({span + 1, Attempts * Delay}) \in {span + 1, Attempts * Delay}
    BY <1>a, Numbers, MinOfTwo, SMT
  <2> QED
    BY <1>2, <1>a, <2>1, Numbers
<1>4. tries = 0 => span' = span
  BY <1>2, SMT
<1>5. \A r \in Requests :
         age'[r] = IF age[r] >= 0 THEN Min({age[r] + 1, MaxAge}) ELSE -1
  BY DEF Tick, Active
<1>6. ASSUME NEW r \in Requests
      PROVE  /\ age[r] >= 0 => /\ age'[r] = age[r] + 1 \/ age'[r] = MaxAge
                               /\ age'[r] \in 0 .. MaxAge
             /\ age[r] < 0 => age'[r] = -1
  <2>1. age[r] \in Int /\ age[r] + 1 \in Int /\ MaxAge \in Nat /\ age[r] <= MaxAge
    BY Numbers, SMT
  <2>2. Min({age[r] + 1, MaxAge}) = IF age[r] + 1 <= MaxAge THEN age[r] + 1 ELSE MaxAge
    BY <2>1, MinOfTwo
  <2> QED
    BY <1>5, <2>1, <2>2, SMT
<1>7. age' \in [Requests -> -1 .. MaxAge]
  <2>1. \A r \in Requests : age'[r] \in -1 .. MaxAge
    BY <1>6, Numbers, SMT
  <2>2. age' = [r \in Requests |-> age'[r]]
    BY DEF Tick
  <2> QED
    BY <2>1, <2>2
<1>8. Active' = Active
  BY <1>6, Numbers, SMT DEF Active
<1> QED
  BY <1>1, <1>3, <1>4, <1>6, <1>7, <1>8, Numbers, SMT

\* ... and to the deadline of the shutdown.
LEMMA TickShutdown ==
    ASSUME TypeOK, Tick
    PROVE  /\ pc \in {"draining", "probes", "flush"} =>
                 /\ elapsed' = elapsed + 1
                 /\ left' = IF left > 0 THEN left - 1 ELSE 0
           /\ pc \notin {"draining", "probes", "flush"} => elapsed' = elapsed /\ left' = left
           /\ pc \in {"draining", "probes"} => left > 0
<1>1. Max({left - 1, 0}) = IF left > 0 THEN left - 1 ELSE 0
  <2>1. left - 1 \in Int /\ left \in Nat
    BY Numbers, SMT
  <2> QED
    BY <2>1, MaxOfTwo, SMT
<1> QED
  BY <1>1 DEF Tick, Fetching, Waiting

\* Every step keeps the types, one case per action.
LEMMA TypeStep == TypeOK /\ [Next]_vars => TypeOK'
<1> SUFFICES ASSUME TypeOK, [Next]_vars PROVE TypeOK'
  OBVIOUS
<1> USE DEF startup, servers, shutdown
<1>a. Attempts \in Nat /\ Attempts >= 1
  BY AttemptsProps DEF TypeOK
<1>b. 0 \in 0 .. Max({Delay, FlushLimit}) /\ 0 \in 0 .. (Attempts - 1)
  <2>1. Max({Delay, FlushLimit}) \in Nat
    BY LifecycleAssumption, MaxOfTwo, SMT
  <2> QED
    BY <1>a, <2>1, SMT
<1>1. CASE FetchSucceeds
  <2>1. Attempts' = Attempts
    BY <1>1 DEF FetchSucceeds, Attempts
  <2> QED
    <3>1. /\ UNCHANGED <<setting, waited, busy, age, left, elapsed, asked, err, exit>>
          /\ tries' = 0 /\ span' = 0 /\ pc' \in {"jwks", "launch"}
          /\ {server', probe'} \subseteq {server, probe, "starting"}
      BY <1>1 DEF FetchSucceeds
    <3> QED
      BY <1>b, <2>1, <3>1 DEF TypeOK, Fetching
<1>2. CASE FetchFails
  <2>1. Attempts' = Attempts
    BY <1>2 DEF FetchFails, Attempts
  <2>2. tries' \in 0 .. (Attempts - 1)
    <3>1. tries' = tries + 1 /\ ~ (tries + 1 >= Attempts)
      BY <1>2 DEF FetchFails, LastTry
    <3>2. tries \in Nat
      BY Numbers
    <3> QED
      BY <1>a, <3>1, <3>2, SMT
  <2> QED
    BY <1>2, <1>b, <2>1, <2>2 DEF TypeOK, FetchFails, Waiting
<1>3. CASE Retry
  BY <1>3 DEF TypeOK, Retry, Fetching, Attempts
<1>4. CASE GiveUp
  BY <1>4, ExitTyped DEF GiveUp
<1>5. CASE Notify
  BY <1>5 DEF TypeOK, Notify, Attempts
<1>6. CASE Killed
  BY <1>6, ExitTyped DEF Killed
<1>7. CASE Listen
  BY <1>7 DEF TypeOK, Listen, Attempts
<1>8. CASE ListenFails
  BY <1>8, ExitTyped DEF ListenFails
<1>9. ASSUME NEW r \in Requests, Accept(r) \/ Answer(r) PROVE TypeOK'
  <2>1. 0 \in -1 .. MaxAge /\ -1 \in -1 .. MaxAge
    BY Numbers, SMT
  <2>2. age' \in [Requests -> -1 .. MaxAge]
    BY <1>9, <2>1 DEF TypeOK, Accept, Answer
  <2> QED
    BY <1>9, <2>2 DEF TypeOK, Accept, Answer, Attempts
<1>10. CASE Probe
  <2>1. busy' \in BOOLEAN
    BY <1>10 DEF Probe
  <2> QED
    BY <1>10, <2>1 DEF TypeOK, Probe, Attempts
<1>11. CASE Terminate
  BY <1>11 DEF TypeOK, Terminate, Attempts
<1>12. CASE Drained
  BY <1>12 DEF TypeOK, Drained, Attempts
<1>13. CASE DrainTimeout
  BY <1>13, ExitTyped DEF DrainTimeout
<1>14. CASE ProbesClosed
  BY <1>14, <1>b DEF TypeOK, ProbesClosed, Attempts
<1>15. CASE ProbesTimeout
  BY <1>15, ExitTyped DEF ProbesTimeout
<1>16. ASSUME NEW p \in Providers, Flush(p) PROVE TypeOK'
  BY <1>16 DEF TypeOK, Flush, Attempts
<1>17. CASE Done
  BY <1>17, ExitTyped DEF Done
<1>18. CASE Tick
  <2>1. UNCHANGED <<setting, pc, tries, server, probe, busy, asked, err, exit>>
        /\ Attempts' = Attempts
    BY <1>18 DEF Tick, Attempts
  <2>2. waited' \in 0 .. Max({Delay, FlushLimit})
    <3>1. Max({Delay, FlushLimit}) \in Nat /\ Max({Delay, FlushLimit}) >= Delay
          /\ Max({Delay, FlushLimit}) >= FlushLimit
      BY LifecycleAssumption, MaxOfTwo, SMT
    <3>2. waited \in 0 .. Max({Delay, FlushLimit})
      BY DEF TypeOK
    <3> QED
      BY <1>18, <3>1, <3>2, TickProps, Numbers, SMT
  <2>3. elapsed' \in Nat /\ left' \in 0 .. Grace
    BY <1>18, TickShutdown, Numbers, SMT
  <2>4. span' \in Nat /\ age' \in [Requests -> -1 .. MaxAge]
    BY <1>18, TickProps
  <2> QED
    BY <2>1, <2>2, <2>3, <2>4 DEF TypeOK
<1>19. CASE UNCHANGED vars
  BY <1>19 DEF TypeOK, vars, Attempts
<1> QED
  BY <1>1, <1>2, <1>3, <1>4, <1>5, <1>6, <1>7, <1>8, <1>9, <1>10, <1>11, <1>12, <1>13,
     <1>14, <1>15, <1>16, <1>17, <1>18, <1>19 DEF Next

\* The process starts in a state of the right type.
LEMMA InitType == Init => TypeOK
<1> SUFFICES ASSUME Init PROVE TypeOK
  OBVIOUS
<1>1. Attempts \in Nat /\ Attempts >= 1
  BY AttemptsProps DEF Init
<1>2. Max({Delay, FlushLimit}) \in Nat
  BY LifecycleAssumption, MaxOfTwo, SMT
<1>3. /\ 0 \in 0 .. (Attempts - 1) /\ 0 \in 0 .. Max({Delay, FlushLimit})
      /\ Grace \in 0 .. Grace /\ -1 \in -1 .. MaxAge
  BY <1>1, <1>2, LifecycleAssumption, SMT
<1> QED
  BY <1>3 DEF Init, TypeOK, Fetching, NotYet

(***************************************************************************)
(* TypeCorrect: every variable keeps its type.                             *)
(***************************************************************************)
THEOREM TypeCorrect == Spec => []TypeOK
BY InitType, TypeStep, PTL DEF Spec
--------------------------------------------------------------------------------
(***************************************************************************)
(* What main has started and stopped at each of its steps: no request runs *)
(* before the servers do or after the drain, and once the signal came no   *)
(* new one is accepted.                                                    *)
(***************************************************************************)
ServersFollowMain ==
    /\ pc \in Fetching \cup Waiting => server = "off" /\ probe = "off" /\ Active = {}
    /\ pc \in {"draining", "probes", "flush", "exited"} => server = "closed"
    /\ pc \in {"probes", "flush", "exited"} => probe = "closed" /\ Active = {}
    /\ pc = "exited" => ~ busy
    /\ pc # "exited" => exit = NotYet

\* The failures so far took the delays between them.
RetriesTakeTime ==
    /\ pc \in Fetching => span >= tries * Delay
    /\ pc \in Waiting => /\ tries >= 1 /\ waited <= Delay
                         /\ span >= (tries - 1) * Delay + waited

\* The draining and the probe server share the deadline; the flush has its own.
DeadlinesHold ==
    /\ pc \in Fetching \cup Waiting \cup {"launch", "serving"} => elapsed = 0 /\ left = Grace
    /\ pc \in {"draining", "probes"} => elapsed + left = Grace
    /\ pc = "flush" => waited <= FlushLimit /\ elapsed <= Grace + waited

\* A request that is still running has been running since the signal.
DrainingAges == pc = "draining" => \A r \in Active : age[r] >= Grace - left

LifeInv == /\ TypeOK
           /\ ServersFollowMain
           /\ RetriesTakeTime
           /\ DeadlinesHold
           /\ DrainingAges
           /\ GivesUpLate /\ CutOnlyLate /\ StopsInTime

\* While the process runs, what is said of its end holds of NotYet.
LEMMA NoEndYet ==
    ASSUME exit' = NotYet
    PROVE  GivesUpLate' /\ CutOnlyLate'
BY DEF NotYet, GivesUpLate, CutOnlyLate

\* What has to be shown where the process ends.
LEMMA ExitKeeps ==
    ASSUME LifeInv, NEW code \in {0, 1},
           NEW why \in {"fetch", "signal", "bind", "drain", "probes", "done"},
           Exit(code, why),
           why = "fetch" => tries = Attempts - 1 /\ span >= (Attempts - 1) * Delay,
           code = 0 => Active = {} /\ asked = setting.providers,
           Active # {} => \/ why \in {"signal", "bind"}
                          \/ why = "drain" /\ \A r \in Active : age[r] >= Grace
    PROVE  LifeInv'
<1>1. TypeOK'
  BY ExitTyped DEF LifeInv
<1>2. /\ pc' = "exited" /\ server' = "closed" /\ probe' = "closed" /\ ~ busy'
      /\ age' = [r \in Requests |-> -1]
      /\ exit'.code = code /\ exit'.why = why /\ exit'.cut = Active
      /\ exit'.ages = {age[r] : r \in Active}
      /\ tries' = tries /\ span' = span /\ elapsed' = elapsed /\ asked' = asked
      /\ setting' = setting /\ Attempts' = Attempts
  BY DEF Exit, startup, shutdown, Attempts
<1>3. Active' = {}
  <2>1. \A r \in Requests : age'[r] = -1
    BY <1>2
  <2> QED
    BY <2>1, SMT DEF Active
<1>4. ServersFollowMain' /\ RetriesTakeTime' /\ DeadlinesHold' /\ DrainingAges'
  BY <1>2, <1>3 DEF ServersFollowMain, RetriesTakeTime, DeadlinesHold, DrainingAges,
     Fetching, Waiting
<1>5. GivesUpLate'
  BY <1>2 DEF GivesUpLate
<1>6. CutOnlyLate'
  BY <1>2 DEF CutOnlyLate
<1>7. StopsInTime'
  BY <1>2 DEF LifeInv, StopsInTime
<1> QED
  BY <1>1, <1>4, <1>5, <1>6, <1>7 DEF LifeInv

\* Every step keeps the inductive invariant, one case per action.
LEMMA LifeStep == LifeInv /\ [Next]_vars => LifeInv'
<1> SUFFICES ASSUME LifeInv, [Next]_vars PROVE LifeInv'
  OBVIOUS
<1> USE DEF startup, servers, shutdown
<1>a. /\ TypeOK /\ TypeOK' /\ ServersFollowMain /\ RetriesTakeTime /\ DeadlinesHold
      /\ DrainingAges /\ StopsInTime
  BY TypeStep DEF LifeInv
<1>b. Attempts \in Nat /\ Attempts >= 1
  BY <1>a, AttemptsProps DEF TypeOK
<1>1. CASE FetchSucceeds
  <2>1. /\ pc \in Fetching /\ pc' \in {"jwks", "launch"} /\ tries' = 0 /\ span' = 0
        /\ pc' = "jwks" => UNCHANGED <<server, probe>>
        /\ UNCHANGED <<age, left, elapsed, asked, setting, exit>> /\ Active' = Active
    BY <1>1 DEF FetchSucceeds, Active
  <2>2. ServersFollowMain' /\ exit' = NotYet
    BY <1>a, <2>1 DEF ServersFollowMain, Fetching, Waiting
  <2>3. RetriesTakeTime'
    <3>1. 0 * Delay = 0
      BY Numbers, <1>a, SMT
    <3>2. pc' \notin Waiting
      BY <2>1 DEF Waiting
    <3> QED
      BY <2>1, <3>1, <3>2, SMT DEF RetriesTakeTime
  <2>4. DeadlinesHold' /\ DrainingAges' /\ StopsInTime'
    BY <1>a, <2>1 DEF DeadlinesHold, DrainingAges, StopsInTime, Fetching, Waiting
  <2> QED
    BY <1>a, <2>2, <2>3, <2>4, NoEndYet DEF LifeInv
<1>2. CASE FetchFails
  <2>1. /\ pc \in Fetching /\ pc' \in Waiting /\ tries' = tries + 1 /\ waited' = 0
        /\ UNCHANGED <<span, server, probe, age, left, elapsed, asked, setting, exit>>
        /\ Active' = Active
    BY <1>2 DEF FetchFails, Waiting, Active
  <2>2. ServersFollowMain' /\ exit' = NotYet
    BY <1>a, <2>1 DEF ServersFollowMain, Fetching, Waiting
  <2>3. RetriesTakeTime'
    <3>1. /\ tries \in Nat /\ Delay \in Nat /\ span \in Nat /\ span >= tries * Delay
      BY <1>a, <2>1, Numbers DEF RetriesTakeTime
    <3>2. tries' - 1 = tries /\ tries' >= 1 /\ 0 <= Delay
      BY <2>1, <3>1, SMT
    <3>3. tries * Delay \in Nat
      BY <3>1, SMT
    <3>4. span' >= (tries' - 1) * Delay + waited'
      BY <2>1, <3>1, <3>2, <3>3, SMT
    <3>5. pc' \notin Fetching
      BY <2>1 DEF Fetching, Waiting
    <3> QED
      BY <2>1, <3>2, <3>4, <3>5 DEF RetriesTakeTime
  <2>4. DeadlinesHold' /\ DrainingAges' /\ StopsInTime'
    BY <1>a, <2>1 DEF DeadlinesHold, DrainingAges, StopsInTime, Fetching, Waiting
  <2> QED
    BY <1>a, <2>2, <2>3, <2>4, NoEndYet DEF LifeInv
<1>3. CASE Retry
  <2>1. /\ pc \in Waiting /\ pc' \in Fetching /\ waited >= Delay
        /\ UNCHANGED <<tries, span, server, probe, age, left, elapsed, asked, setting, exit>>
        /\ Active' = Active
    BY <1>3 DEF Retry, Fetching, Active
  <2>2. ServersFollowMain' /\ exit' = NotYet
    BY <1>a, <2>1 DEF ServersFollowMain, Fetching, Waiting
  <2>3. RetriesTakeTime'
    <3>1. /\ tries \in Nat /\ Delay \in Nat /\ span \in Nat /\ waited \in Nat /\ tries >= 1
          /\ span >= (tries - 1) * Delay + waited
      BY <1>a, <2>1, Numbers DEF RetriesTakeTime
    <3>2. /\ (tries - 1) * Delay \in Nat /\ tries * Delay \in Nat
          /\ tries * Delay = (tries - 1) * Delay + Delay
      BY <3>1, DelaysAddUp
    <3>3. span' >= tries' * Delay
      BY <2>1, <3>1, <3>2, SMT
    <3>4. pc' \notin Waiting
      BY <2>1 DEF Fetching, Waiting
    <3> QED
      BY <3>3, <3>4 DEF RetriesTakeTime
  <2>4. DeadlinesHold' /\ DrainingAges' /\ StopsInTime'
    BY <1>a, <2>1 DEF DeadlinesHold, DrainingAges, StopsInTime, Fetching, Waiting
  <2> QED
    BY <1>a, <2>2, <2>3, <2>4, NoEndYet DEF LifeInv
<1>4. CASE GiveUp
  <2>1. pc \in Fetching /\ LastTry /\ Exit(1, "fetch")
    BY <1>4 DEF GiveUp
  <2>2. tries = Attempts - 1
    BY <1>a, <1>b, <2>1, Numbers, SMT DEF LastTry
  <2>3. span >= (Attempts - 1) * Delay
    BY <1>a, <2>1, <2>2 DEF RetriesTakeTime
  <2>4. Active = {}
    BY <1>a, <2>1 DEF ServersFollowMain
  <2> QED
    BY <2>1, <2>2, <2>3, <2>4, ExitKeeps
<1>5. CASE Notify
  <2>1. /\ pc = "launch" /\ pc' = "serving" /\ Active' = Active
        /\ UNCHANGED <<setting, startup, servers, shutdown, exit>>
    BY <1>5 DEF Notify, Active
  <2> QED
    BY <1>a, <2>1, NoEndYet DEF LifeInv, ServersFollowMain, RetriesTakeTime, DeadlinesHold,
       DrainingAges, StopsInTime, Fetching, Waiting
<1>6. CASE Killed
  BY <1>6, ExitKeeps DEF Killed
<1>7. CASE Listen
  <2>1. /\ \/ server = "starting" /\ server' = "open" /\ probe' = probe
           \/ probe = "starting" /\ probe' = "open" /\ server' = server
        /\ UNCHANGED <<setting, pc, startup, busy, age, shutdown, exit>>
        /\ Active' = Active
    BY <1>7 DEF Listen, Active
  <2>2. ServersFollowMain' /\ exit' = NotYet
    BY <1>a, <2>1 DEF ServersFollowMain
  <2> QED
    BY <1>a, <2>1, <2>2, NoEndYet DEF LifeInv, RetriesTakeTime, DeadlinesHold,
       DrainingAges, StopsInTime
<1>8. CASE ListenFails
  BY <1>8, ExitKeeps DEF ListenFails
<1>9. ASSUME NEW r \in Requests, Accept(r) PROVE LifeInv'
  <2>1. /\ server = "open" /\ age' = [age EXCEPT ![r] = 0]
        /\ UNCHANGED <<setting, pc, startup, server, probe, busy, shutdown, exit>>
    BY <1>9 DEF Accept
  <2>2. pc \in {"launch", "serving"} /\ exit' = NotYet
    BY <1>a, <2>1 DEF ServersFollowMain, TypeOK
  <2> QED
    BY <1>a, <2>1, <2>2, NoEndYet DEF LifeInv, ServersFollowMain, RetriesTakeTime,
       DeadlinesHold, DrainingAges, StopsInTime, Fetching, Waiting
<1>10. ASSUME NEW r \in Requests, Answer(r) PROVE LifeInv'
  <2>1. /\ r \in Active /\ age' = [age EXCEPT ![r] = -1]
        /\ UNCHANGED <<setting, pc, startup, server, probe, busy, shutdown, exit>>
    BY <1>10 DEF Answer, Active
  <2>2. Active' \subseteq Active /\ \A q \in Active' : age'[q] = age[q]
    <3>1. ASSUME NEW q \in Active' PROVE q \in Active /\ age'[q] = age[q]
      <4>1. q \in Requests /\ age'[q] >= 0
        BY <3>1 DEF Active
      <4>2. q # r
        BY <1>a, <2>1, <4>1, SMT DEF TypeOK
      <4> QED
        BY <1>a, <2>1, <4>1, <4>2 DEF TypeOK, Active
    <3> QED
      BY <3>1
  <2>3. pc \in {"launch", "serving", "draining"} /\ exit' = NotYet
    BY <1>a, <2>1 DEF ServersFollowMain, TypeOK
  <2> QED
    BY <1>a, <2>1, <2>2, <2>3, NoEndYet DEF LifeInv, ServersFollowMain, RetriesTakeTime,
       DeadlinesHold, DrainingAges, StopsInTime, Fetching, Waiting
<1>11. CASE Probe
  <2>1. /\ busy \/ probe = "open"
        /\ Active' = Active
        /\ UNCHANGED <<setting, pc, startup, server, probe, age, shutdown, exit>>
    BY <1>11 DEF Probe, Active
  <2>2. pc # "exited"
    BY <1>a, <1>11, <2>1 DEF ServersFollowMain, Probe
  <2>3. ServersFollowMain' /\ exit' = NotYet
    BY <1>a, <2>1, <2>2 DEF ServersFollowMain
  <2> QED
    BY <1>a, <2>1, <2>3, NoEndYet DEF LifeInv, RetriesTakeTime, DeadlinesHold,
       DrainingAges, StopsInTime
<1>12. CASE Terminate
  <2>1. /\ pc = "serving" /\ pc' = "draining" /\ server' = "closed" /\ Active' = Active
        /\ UNCHANGED <<setting, startup, probe, busy, age, shutdown, exit>>
    BY <1>12 DEF Terminate, Active
  <2>2. elapsed' = 0 /\ left' = Grace
    BY <1>a, <2>1 DEF DeadlinesHold
  <2>3. DeadlinesHold' /\ DrainingAges'
    <3>1. elapsed' + left' = Grace /\ Grace - left' = 0
      BY <2>2, <1>a, Numbers, SMT
    <3>2. \A r \in Active' : age'[r] >= 0
      BY <2>1 DEF Active
    <3> QED
      BY <2>1, <3>1, <3>2 DEF DeadlinesHold, DrainingAges, Fetching, Waiting
  <2>4. ServersFollowMain' /\ RetriesTakeTime' /\ StopsInTime' /\ exit' = NotYet
    BY <1>a, <2>1 DEF ServersFollowMain, RetriesTakeTime, StopsInTime, Fetching, Waiting
  <2> QED
    BY <1>a, <2>3, <2>4, NoEndYet DEF LifeInv
<1>13. CASE Drained
  <2>1. /\ pc = "draining" /\ pc' = "probes" /\ probe' = "closed" /\ Active = {}
        /\ Active' = Active
        /\ UNCHANGED <<setting, startup, server, busy, age, shutdown, exit>>
    BY <1>13 DEF Drained, Active
  <2> QED
    BY <1>a, <2>1, NoEndYet DEF LifeInv, ServersFollowMain, RetriesTakeTime, DeadlinesHold,
       DrainingAges, StopsInTime, Fetching, Waiting
<1>14. CASE DrainTimeout
  <2>1. pc = "draining" /\ left = 0 /\ Exit(1, "drain")
    BY <1>14 DEF DrainTimeout
  <2>2. \A r \in Active : age[r] >= Grace
    <3>1. Grace - left = Grace
      BY <1>a, <2>1, Numbers, SMT
    <3> QED
      BY <1>a, <2>1, <3>1 DEF DrainingAges
  <2> QED
    BY <2>1, <2>2, ExitKeeps
<1>15. CASE ProbesClosed
  <2>1. /\ pc = "probes" /\ pc' = "flush" /\ waited' = 0 /\ Active' = Active
        /\ UNCHANGED <<setting, tries, span, servers, shutdown, exit>>
    BY <1>15 DEF ProbesClosed, Active
  <2>2. waited' <= FlushLimit /\ elapsed' <= Grace + waited'
    BY <1>a, <2>1, Numbers, SMT DEF DeadlinesHold
  <2> QED
    BY <1>a, <2>1, <2>2, NoEndYet DEF LifeInv, ServersFollowMain, RetriesTakeTime,
       DeadlinesHold, DrainingAges, StopsInTime, Fetching, Waiting
<1>16. CASE ProbesTimeout
  <2>1. pc = "probes" /\ Exit(1, "probes")
    BY <1>16 DEF ProbesTimeout
  <2>2. Active = {}
    BY <1>a, <2>1 DEF ServersFollowMain
  <2> QED
    BY <2>1, <2>2, ExitKeeps
<1>17. ASSUME NEW p \in Providers, Flush(p) PROVE LifeInv'
  <2>1. /\ pc = "flush" /\ Active' = Active
        /\ UNCHANGED <<setting, pc, startup, servers, left, elapsed, exit>>
    BY <1>17 DEF Flush, Active
  <2> QED
    BY <1>a, <2>1, NoEndYet DEF LifeInv, ServersFollowMain, RetriesTakeTime, DeadlinesHold,
       DrainingAges, StopsInTime, Fetching, Waiting
<1>18. CASE Done
  <2>1. pc = "flush" /\ asked = setting.providers /\ Exit(0, "done")
    BY <1>18 DEF Done
  <2>2. Active = {}
    BY <1>a, <2>1 DEF ServersFollowMain
  <2> QED
    BY <2>1, <2>2, ExitKeeps
<1>19. CASE Tick
  <2>1. /\ UNCHANGED <<setting, pc, tries, server, probe, busy, asked, err, exit>>
        /\ Active' = Active /\ Attempts' = Attempts /\ pc # "exited"
    BY <1>a, <1>19, TickProps DEF Tick, Attempts, Fetching, Waiting
  <2>2. ServersFollowMain' /\ exit' = NotYet
    BY <1>a, <2>1 DEF ServersFollowMain
  <2>3. RetriesTakeTime'
    <3>1. ASSUME pc \in Fetching PROVE span' >= tries * Delay
      <4>1. span >= tries * Delay /\ span \in Nat /\ tries \in Nat /\ tries <= Attempts
        BY <1>a, <1>b, <3>1, Numbers, SMT DEF RetriesTakeTime
      <4>2. CASE tries = 0
        BY <1>a, <1>19, <4>1, <4>2, TickProps
      <4>3. CASE tries >= 1
        <5>1. tries * Delay <= Attempts * Delay /\ tries * Delay \in Nat
              /\ Attempts * Delay \in Nat
          BY <1>b, <4>1, <4>3, DelaysAddUp
        <5>2. span' = span + 1 \/ span' = Attempts * Delay
          BY <1>a, <1>19, <4>1, <4>3, TickProps, SMT
        <5> QED
          BY <4>1, <5>1, <5>2, SMT
      <4> QED
        BY <4>1, <4>2, <4>3, SMT
    <3>2. ASSUME pc \in Waiting
          PROVE  tries >= 1 /\ waited' <= Delay /\ span' >= (tries - 1) * Delay + waited'
      <4>1. /\ tries >= 1 /\ span >= (tries - 1) * Delay + waited
            /\ span \in Nat /\ tries \in Nat /\ waited \in Nat /\ Delay \in Nat
            /\ tries <= Attempts
        BY <1>a, <1>b, <3>2, Numbers, SMT DEF RetriesTakeTime
      <4>2. waited' = waited + 1 /\ waited < Delay
        BY <1>a, <1>19, <3>2, TickProps
      <4>3. /\ (tries - 1) * Delay \in Nat /\ tries * Delay = (tries - 1) * Delay + Delay
            /\ tries * Delay <= Attempts * Delay /\ Attempts * Delay \in Nat
        BY <1>b, <4>1, DelaysAddUp
      <4>4. span' = span + 1 \/ span' = Attempts * Delay
        BY <1>a, <1>19, <4>1, TickProps, SMT
      <4> QED
        BY <4>1, <4>2, <4>3, <4>4, SMT
    <3> QED
      BY <2>1, <3>1, <3>2 DEF RetriesTakeTime
  <2>4. DeadlinesHold' /\ StopsInTime'
    <3>1. CASE pc \in {"draining", "probes"}
      <4>1. elapsed' + left' = Grace /\ elapsed' <= Grace + FlushLimit
        BY <1>a, <1>19, <3>1, TickShutdown, Numbers, SMT DEF DeadlinesHold
      <4> QED
        BY <2>1, <3>1, <4>1 DEF DeadlinesHold, StopsInTime, Fetching, Waiting
    <3>2. CASE pc = "flush"
      <4>1. /\ waited' = waited + 1 /\ waited < FlushLimit /\ elapsed' = elapsed + 1
            /\ elapsed <= Grace + waited
        BY <1>a, <1>19, <3>2, TickProps, TickShutdown DEF DeadlinesHold
      <4>2. /\ waited' <= FlushLimit /\ elapsed' <= Grace + waited'
            /\ elapsed' <= Grace + FlushLimit
        BY <1>a, <4>1, Numbers, SMT
      <4> QED
        BY <2>1, <3>2, <4>2 DEF DeadlinesHold, StopsInTime, Fetching, Waiting
    <3>3. CASE pc \notin {"draining", "probes", "flush"}
      BY <1>a, <1>19, <2>1, <3>3, TickShutdown DEF DeadlinesHold, StopsInTime
    <3> QED
      BY <3>1, <3>2, <3>3
  <2>5. DrainingAges'
    <3> SUFFICES ASSUME pc = "draining", NEW r \in Active PROVE age'[r] >= Grace - left'
      BY <2>1 DEF DrainingAges
    <3>1. /\ r \in Requests /\ age[r] >= 0 /\ age[r] >= Grace - left
          /\ left' = left - 1 /\ left > 0
      BY <1>a, <1>19, TickShutdown DEF DrainingAges, Active
    <3>2. age'[r] = age[r] + 1 \/ age'[r] = MaxAge
      BY <1>a, <1>19, <3>1, TickProps
    <3> QED
      BY <1>a, <3>1, <3>2, Numbers, SMT
  <2> QED
    BY <1>a, <2>2, <2>3, <2>4, <2>5, NoEndYet DEF LifeInv
<1>20. CASE UNCHANGED vars
  BY <1>20 DEF vars, LifeInv, TypeOK, ServersFollowMain, RetriesTakeTime, DeadlinesHold,
     DrainingAges, GivesUpLate, CutOnlyLate, StopsInTime, Active, Attempts
<1> QED
  BY <1>1, <1>2, <1>3, <1>4, <1>5, <1>6, <1>7, <1>8, <1>9, <1>10, <1>11, <1>12, <1>13,
     <1>14, <1>15, <1>16, <1>17, <1>18, <1>19, <1>20 DEF Next

\* So every state has it.
LEMMA LifeInvariant == Spec => []LifeInv
<1>1. Init => LifeInv
  <2> SUFFICES ASSUME Init PROVE LifeInv
    OBVIOUS
  <2>1. Active = {}
    BY SMT DEF Init, Active
  <2>2. 0 * Delay = 0 /\ 0 <= Grace + FlushLimit
    BY LifecycleAssumption, SMT
  <2>3. RetriesTakeTime
    BY <2>2, SMT DEF Init, RetriesTakeTime, Waiting
  <2> QED
    BY <2>1, <2>2, <2>3, InitType DEF Init, LifeInv, ServersFollowMain, DeadlinesHold,
       DrainingAges, GivesUpLate, CutOnlyLate, StopsInTime, NotYet, Fetching, Waiting
<1> QED
  BY <1>1, LifeStep, PTL DEF Spec

(***************************************************************************)
(* GiveUpIsLate: whatever the setting, the start is given up only after    *)
(* that many attempts, with the delay between each and the next.           *)
(***************************************************************************)
THEOREM GiveUpIsLate == Spec => []GivesUpLate
BY LifeInvariant, PTL DEF LifeInv

(***************************************************************************)
(* CutIsLate: an exit with 0 has cut nobody off and has asked every        *)
(* provider to flush, whichever of them failed; apart from an early signal *)
(* and a server that fails, a request is cut off only after it had the     *)
(* whole deadline.                                                         *)
(***************************************************************************)
THEOREM CutIsLate == Spec => []CutOnlyLate
BY LifeInvariant, PTL DEF LifeInv

(***************************************************************************)
(* ShutdownIsShort: the three waits of the shutdown end within its two     *)
(* deadlines together.                                                     *)
(***************************************************************************)
THEOREM ShutdownIsShort == Spec => []StopsInTime
BY LifeInvariant, PTL DEF LifeInv
================================================================================
