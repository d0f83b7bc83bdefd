------------------------------- MODULE JwksCache -------------------------------
(***************************************************************************)
(* ValidateJWT and the IdP's key set, which the proxy caches.              *)
(*                                                                         *)
(* A validation looks its key up under the read lock.  If the key is not   *)
(* there it fetches the set, outside any lock, swaps the pointer under the *)
(* write lock and looks again.  Nothing keeps validations from fetching at *)
(* the same time, and the answers may be installed in any order.           *)
(*                                                                         *)
(* A key is parsed at its first use, by RSAKey, which writes the result    *)
(* into the shared entry although its callers hold only the read lock.     *)
(***************************************************************************)
EXTENDS Integers, Sequences, FiniteSetsExt

CONSTANTS Requests,    \* validations at the same time
          Keys,        \* key ids
          Usable,      \* those whose entry RSAKey can parse
          KeySets,     \* the key sets the IdP may publish
          TornReads,   \* the build may reorder the writes of RSAKey (arm64)
          MaxVersions  \* bound: how many key sets the IdP publishes

ASSUME JwksAssumption ==
    /\ Usable \subseteq Keys
    /\ KeySets \subseteq SUBSET Keys
    /\ TornReads \in BOOLEAN
    /\ MaxVersions \in Nat

VARIABLES history,  \* the key sets the IdP has published, oldest first
          cache,    \* h.jwks: its keys, and which version of the set it is
          parsed,   \* the keys of the cache with a publicKey
          floor,    \* history: no refresh that ended began before this version
          val       \* [Requests -> where the validation is]

vars == <<history, cache, parsed, floor, val>>

Version == Len(history)
Published == history[Version]

(***************************************************************************)
(* Where a validation is: about to look, for the first or the second time; *)
(* parsing its key, and then still inside the read lock with the result    *)
(* written; waiting for the IdP, holding its answer, or waiting for the    *)
(* write lock; or over.                                                    *)
(*                                                                         *)
(* began is the version published when the validation last turned to the   *)
(* IdP, oldest the version published when the earliest fetch began that    *)
(* was then under way.  floor and until frame the decision: the floor and  *)
(* the version published when it was taken.                                *)
(***************************************************************************)
Looks == {"first", "second"}
Idle == [stage |-> "idle"]
Validation ==
         {Idle}
    \cup [stage : {"look", "parsing", "written"}, key : Keys, at : Looks, oldest : Nat]
    \cup [stage : {"fetching"}, key : Keys, began : Nat, oldest : Nat]
    \cup [stage : {"fetched", "locking"}, key : Keys, began : Nat, oldest : Nat,
          served : Nat]
    \cup [stage : {"accepted"}, key : Keys, floor : Nat, until : Nat]
    \cup [stage : {"refused"}, key : Keys, why : {"missing", "fetch", "torn"},
          oldest : Nat, until : Nat]

TypeOK == /\ history \in Seq(KeySets) /\ history # <<>>
          /\ cache \in [keys : KeySets, version : Nat]
          /\ parsed \subseteq cache.keys \cap Usable
          /\ floor \in Nat
          /\ val \in [Requests -> Validation]

\* New has fetched the key set before the first request.
Init == /\ \E S \in KeySets : /\ history = <<S>>
                              /\ cache = [keys |-> S, version |-> 1]
        /\ parsed = {}
        /\ floor = 1
        /\ val = [r \in Requests |-> Idle]

Goto(r, where) == val' = [val EXCEPT ![r] = where]
Accepted(k) == [stage |-> "accepted", key |-> k, floor |-> floor, until |-> Version]
Refused(k, why, oldest) == [stage |-> "refused", key |-> k, why |-> why,
                            oldest |-> oldest, until |-> Version]
--------------------------------------------------------------------------------
\* Mutant: the read lock is given back before RSAKey parses the entry.
HoldsRead_NotParsing(v) == v.stage = "written"

\* jwksMu.  A writer that waits keeps new readers out, as sync.RWMutex does.
HoldsRead(v) == v.stage \in {"parsing", "written"}
MayRead == \A q \in Requests : val[q].stage # "locking"
MayWrite == \A q \in Requests : ~ HoldsRead(val[q])

Fetches(v) == v.stage \in {"fetching", "fetched", "locking"}

\* ValidateJWT is called with a token signed by k.
Validate(r, k) ==
    /\ val[r].stage \in {"idle", "accepted", "refused"}
    /\ Goto(r, [stage |-> "look", key |-> k, at |-> "first", oldest |-> 0])
    /\ UNCHANGED <<history, cache, parsed, floor>>

\* What a validation reads from a publicKey that another one has just written
\* and not yet unlocked may be incomplete, and no signature verifies under it.
MayBeTorn(r, k) == /\ TornReads
                   /\ \E q \in Requests \ {r} : val[q].stage = "written" /\ val[q].key = k

\* The key is there and parsed.
LookHit(r) ==
    LET k == val[r].key IN
    /\ val[r].stage = "look" /\ MayRead
    /\ k \in parsed
    /\ \/ Goto(r, Accepted(k))
       \/ MayBeTorn(r, k) /\ Goto(r, Refused(k, "torn", val[r].oldest))
    /\ UNCHANGED <<history, cache, parsed, floor>>

\* The key is there and has not been used before: RSAKey sets out to parse it.
LookUnparsed(r) ==
    LET k == val[r].key IN
    /\ val[r].stage = "look" /\ MayRead
    /\ k \in (cache.keys \cap Usable) \ parsed
    /\ Goto(r, [val[r] EXCEPT !.stage = "parsing"])
    /\ UNCHANGED <<history, cache, parsed, floor>>

\* ... writes the result ...
Parse(r) ==
    /\ val[r].stage = "parsing"
    /\ Goto(r, [val[r] EXCEPT !.stage = "written"])
    /\ parsed' = parsed \cup {val[r].key}
    /\ UNCHANGED <<history, cache, floor>>

\* ... and returns what the entry then holds, which another validation may have
\* overwritten.
Unlock(r) ==
    LET k == val[r].key IN
    /\ val[r].stage = "written"
    /\ \/ Goto(r, Accepted(k))
       \/ MayBeTorn(r, k) /\ Goto(r, Refused(k, "torn", val[r].oldest))
    /\ UNCHANGED <<history, cache, parsed, floor>>

\* The earliest version published when a fetch began that is still under way.
OldestUnderWay ==
    LET starts == {val[q].began : q \in {p \in Requests : Fetches(val[p])}} \cup {Version}
    IN  Min(starts)

\* No entry, or one that RSAKey cannot use: GetKeyByKID returns nil.
Missing(k) == k \notin cache.keys \cap Usable

\* Mutant: the read lock is held across the refresh, which then waits for itself.
MissFirst_KeepsLock(r) ==
    /\ val[r].stage = "look" /\ MayRead /\ val[r].at = "first"
    /\ Missing(val[r].key)
    /\ Goto(r, [stage |-> "selfwait", key |-> val[r].key])
    /\ UNCHANGED <<history, cache, parsed, floor>>

\* A miss at the first look: refreshJWKS asks the IdP.
MissFirst(r) ==
    /\ val[r].stage = "look" /\ MayRead /\ val[r].at = "first"
    /\ Missing(val[r].key)
    /\ Goto(r, [stage |-> "fetching", key |-> val[r].key,
                began |-> Version, oldest |-> OldestUnderWay])
    /\ UNCHANGED <<history, cache, parsed, floor>>

\* A miss at the second look is final.
MissSecond(r) ==
    /\ val[r].stage = "look" /\ MayRead /\ val[r].at = "second"
    /\ Missing(val[r].key)
    /\ Goto(r, Refused(val[r].key, "missing", val[r].oldest))
    /\ UNCHANGED <<history, cache, parsed, floor>>

\* The IdP answers with what is published at that moment.
IdpAnswers(r) ==
    /\ val[r].stage = "fetching"
    /\ Goto(r, [stage |-> "fetched", key |-> val[r].key, began |-> val[r].began,
                oldest |-> val[r].oldest, served |-> Version])
    /\ UNCHANGED <<history, cache, parsed, floor>>

\* ... or fetchJWKS fails, on the way there or in the answer, and leaves the
\* cache alone.
FetchFails(r) ==
    /\ val[r].stage \in {"fetching", "fetched"}
    /\ Goto(r, Refused(val[r].key, "fetch", val[r].oldest))
    /\ UNCHANGED <<history, cache, parsed, floor>>

\* refreshJWKS asks for the write lock.
AwaitLock(r) ==
    /\ val[r].stage = "fetched"
    /\ Goto(r, [val[r] EXCEPT !.stage = "locking"])
    /\ UNCHANGED <<history, cache, parsed, floor>>

Again(r) == Goto(r, [stage |-> "look", key |-> val[r].key, at |-> "second",
                     oldest |-> val[r].oldest])
RaiseFloor(r) == floor' = Max({floor, val[r].oldest})

\* Mutants: the answer is kept in a local variable; the new keys are added to
\* the old ones; the parsed keys are carried over.
Install_Shadowed(r) ==
    /\ val[r].stage = "locking" /\ MayWrite
    /\ RaiseFloor(r) /\ Again(r)
    /\ UNCHANGED <<history, cache, parsed>>
Install_Adds(r) ==
    /\ val[r].stage = "locking" /\ MayWrite
    /\ cache' = [keys |-> cache.keys \cup history[val[r].served], version |-> val[r].served]
    /\ parsed' = {}
    /\ RaiseFloor(r) /\ Again(r)
    /\ UNCHANGED history
Install_KeepsParsed(r) ==
    /\ val[r].stage = "locking" /\ MayWrite
    /\ cache' = [keys |-> history[val[r].served], version |-> val[r].served]
    /\ RaiseFloor(r) /\ Again(r)
    /\ UNCHANGED <<history, parsed>>
Install_OnceOnly(r) ==
    /\ val[r].stage = "locking" /\ MayWrite
    /\ IF cache.keys = {}
       THEN cache' = [keys |-> history[val[r].served], version |-> val[r].served]
       ELSE UNCHANGED cache
    /\ RaiseFloor(r) /\ Again(r)
    /\ UNCHANGED <<history, parsed>>

\* ... and swaps the pointer, over whatever another validation put there; the
\* entries are new ones.  The validation looks again.
Install(r) ==
    /\ val[r].stage = "locking" /\ MayWrite
    /\ cache' = [keys |-> history[val[r].served], version |-> val[r].served]
    /\ parsed' = {}
    /\ RaiseFloor(r) /\ Again(r)
    /\ UNCHANGED history

\* The IdP rotates its keys.
Publish(S) ==
    /\ Version < MaxVersions
    /\ S # Published
    /\ history' = Append(history, S)
    /\ UNCHANGED <<cache, parsed, floor, val>>

\* The process restarts and fetches the key set before it serves.
Restart ==
    /\ cache' = [keys |-> Published, version |-> Version]
    /\ parsed' = {}
    /\ floor' = Version
    /\ val' = [r \in Requests |-> Idle]
    /\ UNCHANGED history

\* The steps that take the read lock, and the other ones the Go scheduler runs;
\* the IdP's part is in neither.
Look(r) == LookHit(r) \/ LookUnparsed(r) \/ MissFirst(r) \/ MissSecond(r)
Run(r) == Parse(r) \/ Unlock(r) \/ AwaitLock(r) \/ Install(r)

Next == \/ Restart
        \/ \E S \in KeySets : Publish(S)
        \/ \E r \in Requests :
             \/ \E k \in Keys : Validate(r, k)
             \/ Look(r) \/ Run(r)
             \/ IdpAnswers(r) \/ FetchFails(r)

Spec == Init /\ [][Next]_vars

\* A reader that a writer keeps out is let in when that writer unlocks, before
\* the next writer: it looks if it can look again and again.
FairSpec == Spec /\ \A r \in Requests : SF_vars(Look(r)) /\ WF_vars(Run(r))
--------------------------------------------------------------------------------
(***************************************************************************)
(* MissHasCause: a token is refused because its key was not found after    *)
(* the refresh only if the key is of no use to the proxy, or if the IdP    *)
(* did not publish it at some time since the earliest fetch began that was *)
(* under way when the validation turned to the IdP.  An older answer that  *)
(* overwrites a newer one (the hazard of refreshJWKS) can do no more harm. *)
(***************************************************************************)
MissHasCause ==
    \A r \in Requests :
        LET v == val[r] IN
        v.stage = "refused" /\ v.why = "missing" /\ v.key \in Usable =>
            \E n \in v.oldest .. v.until : v.key \notin history[n]

(***************************************************************************)
(* WithdrawnKeys: a token is accepted only under a key the IdP published   *)
(* at some time since the earliest fetch began that was under way when the *)
(* latest refresh began: once the proxy has refreshed its set, a key that  *)
(* was withdrawn before any of those fetches began stays out.  While       *)
(* nobody refreshes, a withdrawn key stays usable, and this says so.       *)
(***************************************************************************)
WithdrawnKeys ==
    \A r \in Requests :
        LET v == val[r] IN
        v.stage = "accepted" => \E n \in v.floor .. v.until : v.key \in history[n]

(***************************************************************************)
(* Answered: a validation that has not to wait for the IdP ends; readers   *)
(* and writers of the key set do not block each other for good.            *)
(***************************************************************************)
Answered ==
    \A r \in Requests :
        val[r].stage \notin {"idle", "fetching"}
            ~> val[r].stage \in {"idle", "fetching", "accepted", "refused"}

\* A token signed by k is refused for want of the key.
RefusesMissing(k) == \E r \in Requests :
    /\ val[r].stage = "look" /\ val[r].key = k
    /\ val'[r].stage = "refused"
    /\ val'[r].why = "missing"

(***************************************************************************)
(* Settles: once the IdP publishes a key for good, the proxy refuses a     *)
(* token for want of it only finitely often: answers that are out of date  *)
(* run out.                                                                *)
(***************************************************************************)
Settles ==
    \A k \in Usable :
        (<>[](k \in Published)) => <>[][~ RefusesMissing(k)]_vars
--------------------------------------------------------------------------------
(***************************************************************************)
(* The abstract promise: a look is one step, whatever RSAKey does under    *)
(* the read lock, and a refresh is one step, whatever overlaps with it.    *)
(***************************************************************************)
Looking(v) == v.stage \in {"look", "parsing", "written"}
LookupOf(v) ==
    CASE Looking(v) -> [stage |-> "look", key |-> v.key, at |-> v.at]
      [] Fetches(v) -> [stage |-> "refresh", key |-> v.key, began |-> v.began]
      [] v.stage = "accepted" -> [stage |-> "accepted", key |-> v.key]
      [] v.stage = "refused" -> [stage |-> "refused", key |-> v.key, why |-> v.why]
      [] v.stage = "idle" -> Idle

Lookups == [r \in Requests |-> LookupOf(val[r])]

Lookup == INSTANCE KeyLookup WITH known <- cache.version, lookup <- Lookups

LookupSpec == Lookup!Spec
================================================================================
