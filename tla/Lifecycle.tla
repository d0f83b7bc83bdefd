-------------------------------- MODULE Lifecycle --------------------------------
(***************************************************************************)
(* The life of a proxy process: main, from its start over the fetches of   *)
(* the IdP's configuration and keys to the two servers it starts, and from *)
(* the signal over the draining of requests to the end.                    *)
(*                                                                         *)
(* The shutdown gives requests, and after them the probe server, one       *)
(* deadline of Grace together; the telemetry providers are then asked to   *)
(* flush within FlushLimit, whether or not one of them fails, by a         *)
(* deferred call that an exit through Logger.Fatal never reaches.          *)
(* Requests may run longer than Grace, and a server may fail at any time.  *)
(*                                                                         *)
(* Time is counted in units that are long for the scheduler: it does not   *)
(* pass while main could go on.                                            *)
(***************************************************************************)
EXTENDS Integers, FiniteSetsExt

CONSTANTS Requests,
          Settings,         \* values of fetch_retry_attempts
          DefaultAttempts,  \* when the setting is not positive
          Delay,            \* fetch_retry_delay
          Grace,            \* the deadline of the shutdown
          Providers,        \* telemetry providers, when telemetry is enabled
          FlushLimit,       \* the deadline of their flush
          MaxAge            \* bound: times above it are not told apart

ASSUME LifecycleAssumption ==
    /\ Settings \subseteq Int
    /\ DefaultAttempts \in Nat \ {0}
    /\ Delay \in Nat /\ Grace \in Nat /\ FlushLimit \in Nat
    /\ MaxAge \in Nat /\ MaxAge >= Grace

VARIABLES setting,   \* [attempts, providers]: the configuration
          pc,        \* what main does
          tries,     \* failed attempts of the withRetry under way
          waited,    \* time in the current delay, or in the flush
          span,      \* history: time since the first of these failures
          server,    \* the listener of the proxy
          probe,     \* the listener of the probe server
          busy,      \* the probe server has a connection that is not idle
          age,       \* [Requests -> how long each has been running, or -1]
          left,      \* what is left of the shutdown's deadline
          elapsed,   \* history: time since the shutdown began
          asked,     \* the providers asked to flush
          err,       \* one of them has returned an error
          exit       \* how the process ended

vars == <<setting, pc, tries, waited, span, server, probe, busy, age, left, elapsed,
          asked, err, exit>>
startup == <<tries, waited, span>>
servers == <<server, probe, busy, age>>
shutdown == <<left, elapsed, asked, err>>

Fetching == {"oidc", "jwks"}
Waiting == {"wait oidc", "wait jwks"}
Active == {r \in Requests : age[r] >= 0}
NotYet == [code |-> 1, why |-> "running", cut |-> {}, ages |-> {}]

Attempts == IF setting.attempts > 0 THEN setting.attempts ELSE DefaultAttempts

TypeOK == /\ setting \in [attempts : Settings, providers : {{}, Providers}]
          /\ pc \in Fetching \cup Waiting \cup {"launch", "serving", "draining",
                                               "probes", "flush", "exited"}
          /\ tries \in 0..(Attempts - 1)
          /\ waited \in 0..Max({Delay, FlushLimit})
          /\ span \in Nat /\ elapsed \in Nat
          /\ {server, probe} \subseteq {"off", "starting", "open", "closed"}
          /\ busy \in BOOLEAN
          /\ age \in [Requests -> -1..MaxAge]
          /\ left \in 0..Grace
          /\ asked \subseteq setting.providers
          /\ err \in BOOLEAN
          /\ exit \in [code : {0, 1},
                       why : {"running", "fetch", "signal", "bind", "drain", "probes", "done"},
                       cut : SUBSET Requests, ages : SUBSET (0..MaxAge)]

\* The configuration is loaded; telemetry and encryption are set up.
Init == /\ setting \in [attempts : Settings, providers : {{}, Providers}]
        /\ pc = "oidc"
        /\ tries = 0 /\ waited = 0 /\ span = 0
        /\ server = "off" /\ probe = "off" /\ busy = FALSE
        /\ age = [r \in Requests |-> -1]
        /\ left = Grace /\ elapsed = 0 /\ asked = {} /\ err = FALSE
        /\ exit = NotYet

\* The process ends, and whatever runs is cut off.
Exit(code, why) ==
    /\ pc' = "exited"
    /\ exit' = [code |-> code, why |-> why, cut |-> Active,
                ages |-> {age[r] : r \in Active}]
    /\ age' = [r \in Requests |-> -1]
    /\ server' = "closed" /\ probe' = "closed" /\ busy' = FALSE
    /\ UNCHANGED <<setting, startup, shutdown>>
--------------------------------------------------------------------------------
\* withRetry: an attempt succeeds.  After the second fetch main starts the
\* goroutines of both servers.
FetchSucceeds ==
    /\ pc \in Fetching
    /\ IF pc = "oidc" THEN pc' = "jwks" /\ UNCHANGED <<server, probe>>
                      ELSE pc' = "launch" /\ server' = "starting" /\ probe' = "starting"
    /\ tries' = 0 /\ span' = 0
    /\ UNCHANGED <<setting, waited, busy, age, shutdown, exit>>

\* Is the attempt that fails the last one?  Mutants: one too few, one too many.
LastTry_Early == tries + 2 >= Attempts
LastTry_Late == tries >= Attempts
LastTry == tries + 1 >= Attempts

FetchFails ==
    /\ pc \in Fetching /\ ~ LastTry
    /\ pc' = IF pc = "oidc" THEN "wait oidc" ELSE "wait jwks"
    /\ tries' = tries + 1 /\ waited' = 0
    /\ UNCHANGED <<setting, span, servers, shutdown, exit>>

Retry ==
    /\ pc \in Waiting /\ waited >= Delay
    /\ pc' = IF pc = "wait oidc" THEN "oidc" ELSE "jwks"
    /\ UNCHANGED <<setting, startup, servers, shutdown, exit>>

\* main ends through Logger.Fatal.
GiveUp == pc \in Fetching /\ LastTry /\ Exit(1, "fetch")

\* From here on main takes signals; until then they end the process.
Notify == /\ pc = "launch"
          /\ pc' = "serving"
          /\ UNCHANGED <<setting, startup, servers, shutdown, exit>>

Killed == pc \in Fetching \cup Waiting \cup {"launch"} /\ Exit(1, "signal")

\* The goroutines listen, each when it comes to run.
Listen == /\ \/ server = "starting" /\ server' = "open" /\ UNCHANGED probe
             \/ probe = "starting" /\ probe' = "open" /\ UNCHANGED server
          /\ UNCHANGED <<setting, pc, startup, busy, age, shutdown, exit>>

\* ListenAndServe returns an error, at once or after it has served: Logger.Fatal
\* in that goroutine ends the process, whatever main does.
ListenFails == {server, probe} \cap {"starting", "open"} # {} /\ Exit(1, "bind")

Accept(r) == /\ server = "open" /\ age[r] < 0
             /\ age' = [age EXCEPT ![r] = 0]
             /\ UNCHANGED <<setting, pc, startup, server, probe, busy, shutdown, exit>>

Answer(r) == /\ age[r] >= 0
             /\ age' = [age EXCEPT ![r] = -1]
             /\ UNCHANGED <<setting, pc, startup, server, probe, busy, shutdown, exit>>

\* The orchestrator opens a connection to the probe server, or is done with it.
Probe == /\ busy' = ~ busy
         /\ busy \/ probe = "open"
         /\ UNCHANGED <<setting, pc, startup, server, probe, age, shutdown, exit>>

\* The signal: srv.Shutdown closes the listener and waits.  Further signals
\* stay in the channel.
Terminate == /\ pc = "serving"
             /\ pc' = "draining"
             /\ server' = "closed"
             /\ UNCHANGED <<setting, startup, probe, busy, age, shutdown, exit>>

\* Mutant: the probe server gets a deadline of its own.
Drained_NewDeadline ==
    /\ pc = "draining" /\ Active = {}
    /\ pc' = "probes"
    /\ probe' = "closed" /\ left' = Grace
    /\ UNCHANGED <<setting, startup, server, busy, age, elapsed, asked, err, exit>>

\* No request runs any more: probeSrv.Shutdown, with the same context.
Drained == /\ pc = "draining" /\ Active = {}
           /\ pc' = "probes"
           /\ probe' = "closed"
           /\ UNCHANGED <<setting, startup, server, busy, age, shutdown, exit>>

\* Mutants: requests are not waited for; there is no deadline.
DrainTimeout_Close == pc = "draining" /\ Exit(1, "drain")
DrainTimeout_Never == pc = "draining" /\ left < 0 /\ Exit(1, "drain")

\* The deadline passes; the requests that run have finished or are cut off.
DrainTimeout == pc = "draining" /\ left = 0 /\ Exit(1, "drain")

ProbesClosed == /\ pc = "probes" /\ ~ busy
                /\ pc' = "flush"
                /\ waited' = 0
                /\ UNCHANGED <<setting, tries, span, servers, shutdown, exit>>

ProbesTimeout == pc = "probes" /\ busy /\ left = 0 /\ Exit(1, "probes")

\* main returns, and the deferred call asks one provider after the other.  One
\* that fails, or is late, leaves an error and the next one is asked.
Flush(p) == /\ pc = "flush" /\ p \in setting.providers \ asked
            /\ asked' = asked \cup {p}
            /\ err' \in {err, TRUE}
            /\ UNCHANGED <<setting, pc, startup, servers, left, elapsed, exit>>

\* Mutant: the first error ends the loop.
Done_AtFirstError == pc = "flush" /\ (err \/ asked = setting.providers) /\ Exit(0, "done")

\* An error of a provider is logged only.
Done == pc = "flush" /\ asked = setting.providers /\ Exit(0, "done")

Tick == /\ \/ pc \in Fetching \cup {"serving"}
           \/ pc \in Waiting /\ waited < Delay
           \/ pc = "draining" /\ Active # {} /\ left > 0
           \/ pc = "probes" /\ busy /\ left > 0
           \/ pc = "flush" /\ waited < FlushLimit
        /\ waited' = IF pc \in Waiting \cup {"flush"} THEN waited + 1 ELSE waited
        /\ span' = IF tries > 0 THEN Min({span + 1, Attempts * Delay}) ELSE span
        /\ age' = [r \in Requests |-> IF r \in Active THEN Min({age[r] + 1, MaxAge})
                                                      ELSE -1]
        /\ IF pc \in {"draining", "probes", "flush"}
           THEN elapsed' = elapsed + 1 /\ left' = Max({left - 1, 0})
           ELSE UNCHANGED <<elapsed, left>>
        /\ UNCHANGED <<setting, pc, tries, server, probe, busy, asked, err, exit>>

Next == \/ FetchSucceeds \/ FetchFails \/ Retry \/ GiveUp
        \/ Notify \/ Killed
        \/ Listen \/ ListenFails
        \/ \E r \in Requests : Accept(r) \/ Answer(r)
        \/ Probe
        \/ Terminate
        \/ Drained \/ DrainTimeout \/ ProbesClosed \/ ProbesTimeout
        \/ \E p \in Providers : Flush(p)
        \/ Done
        \/ Tick

Spec == Init /\ [][Next]_vars

\* Time passes, and main takes the steps of the shutdown that it can take.  No
\* request and no probe need ever end.
Stopping == \/ Drained \/ DrainTimeout \/ ProbesClosed \/ ProbesTimeout
            \/ \E p \in Providers : Flush(p)
            \/ Done
FairSpec == Spec /\ WF_vars(Tick) /\ WF_vars(Stopping)
--------------------------------------------------------------------------------
(***************************************************************************)
(* GivesUpLate: the proxy gives its start up only after all attempts at    *)
(* one of the fetches have failed, over a time of at least Delay between   *)
(* each and the next: an IdP that is away for less does not prevent it.    *)
(***************************************************************************)
GivesUpLate == exit.why = "fetch" => /\ tries = Attempts - 1
                                     /\ span >= (Attempts - 1) * Delay

(***************************************************************************)
(* CutOnlyLate: a process that ends with 0 has cut no request off and has  *)
(* asked every provider to flush, also those after one that failed.  A     *)
(* request is cut off only after it had Grace to finish, by a signal       *)
(* before main takes signals, or by a server that does not come up or      *)
(* fails, which ends the process at once under the requests of the other.  *)
(***************************************************************************)
CutOnlyLate ==
    /\ exit.code = 0 => exit.cut = {} /\ asked = setting.providers
    /\ exit.cut # {} => \/ exit.why \in {"signal", "bind"}
                        \/ exit.why = "drain" /\ \A a \in exit.ages : a >= Grace

(***************************************************************************)
(* StopsInTime: from the signal to the end of the process it takes no more *)
(* than the two deadlines together, though they are of three waits.        *)
(***************************************************************************)
StopsInTime == elapsed <= Grace + FlushLimit

(***************************************************************************)
(* Terminates: a process that got its signal ends, whatever its requests,  *)
(* the probes and the telemetry collector do.                              *)
(***************************************************************************)
Terminates == pc = "draining" ~> pc = "exited"
================================================================================
