---------------------------- MODULE JwksCacheProofs ----------------------------
(***************************************************************************)
(* Proofs about JwksCache, for every set of keys and key sets, any number  *)
(* of concurrent validations and any number of rotations: what the cache   *)
(* holds, what a refused key was missing from and what an accepted key was *)
(* published in.                                                           *)
(***************************************************************************)
EXTENDS JwksCache, WellFoundedInduction, TLAPS

\* A set of numbers that is not empty has a least member, and Min is it.
LEMMA MinProps ==
    ASSUME NEW S, S \subseteq Nat, S # {}
    PROVE  Min(S) \in S /\ \A n \in S : Min(S) <= n
<1>1. PICK m \in S : \A n \in S : ~ (<<n, m>> \in OpToRel(<, Nat))
  BY NatLessThanWellFounded, WFMin
<1>2. \A n \in S : ~ (n < m)
  BY <1>1 DEF OpToRel
<1>3. \A n \in S : m <= n
  BY <1>2, SMT
<1> QED
  BY <1>3 DEF Min

\* The greater of two numbers.
LEMMA MaxOfTwo ==
    ASSUME NEW m \in Nat, NEW n \in Nat
    PROVE  /\ Max({m, n}) \in {m, n}
           /\ m <= Max({m, n}) /\ n <= Max({m, n})
<1>1. \E x \in {m, n} : \A y \in {m, n} : x >= y
  BY SMT
<1>2. /\ Max({m, n}) \in {m, n}
      /\ \A y \in {m, n} : Max({m, n}) >= y
  BY <1>1 DEF Max
<1> QED
  BY <1>2, SMT

\* The members a validation has at each stage.
LEMMA ValidationFields ==
    ASSUME NEW v \in Validation
    PROVE  /\ v.stage \in {"idle", "look", "parsing", "written", "fetching", "fetched",
                           "locking", "accepted", "refused"}
           /\ v.stage # "idle" => v.key \in Keys
           /\ v.stage \in {"look", "parsing", "written"} =>
                 v \in [stage : {"look", "parsing", "written"}, key : Keys, at : Looks,
                        oldest : Nat]
           /\ v.stage = "fetching" => v.began \in Nat /\ v.oldest \in Nat
           /\ v.stage \in {"fetched", "locking"} =>
                 v \in [stage : {"fetched", "locking"}, key : Keys, began : Nat,
                        oldest : Nat, served : Nat]
           /\ v.stage = "accepted" => v.floor \in Nat /\ v.until \in Nat
           /\ v.stage = "refused" => /\ v.why \in {"missing", "fetch", "torn"}
                                     /\ v.oldest \in Nat /\ v.until \in Nat
BY DEF Validation, Idle

\* What a step that moves one validation does to all of them.
LEMMA Moved ==
    ASSUME TypeOK, NEW r \in Requests, NEW w, Goto(r, w)
    PROVE  /\ val' = [val EXCEPT ![r] = w]
           /\ val'[r] = w
           /\ \A q \in Requests : q # r => val'[q] = val[q]
           /\ w \in Validation => val' \in [Requests -> Validation]
BY DEF Goto, TypeOK

\* The versions the IdP has published so far.
LEMMA VersionProps ==
    ASSUME TypeOK
    PROVE  /\ Version \in Nat /\ Version >= 1
           /\ \A n \in 1 .. Version : history[n] \in KeySets
           /\ Published \in KeySets
<1>1. Len(history) \in Nat /\ Len(history) >= 1
  BY SMT DEF TypeOK
<1>2. \A n \in 1 .. Len(history) : history[n] \in KeySets
  BY <1>1, SMT DEF TypeOK
<1> QED
  BY <1>1, <1>2, SMT DEF Version, Published

\* Publishing adds a version and leaves the earlier ones as they were.
LEMMA PublishProps ==
    ASSUME TypeOK, NEW S \in KeySets, Publish(S)
    PROVE  /\ history' \in Seq(KeySets) /\ history' # <<>>
           /\ Version' = Version + 1
           /\ \A n \in 1 .. Version : history'[n] = history[n]
BY SMT DEF TypeOK, Publish, Version

\* OldestUnderWay is a version, and no fetch under way began before it.
LEMMA OldestProps ==
    ASSUME TypeOK
    PROVE  /\ OldestUnderWay \in Nat
           /\ OldestUnderWay <= Version
           /\ \A q \in Requests : Fetches(val[q]) => OldestUnderWay <= val[q].began
<1> DEFINE starts == {val[q].began : q \in {p \in Requests : Fetches(val[p])}}
                        \cup {Version}
<1>1. \A q \in Requests : Fetches(val[q]) => val[q].began \in Nat
  BY ValidationFields DEF TypeOK, Fetches
<1>2. starts \subseteq Nat /\ starts # {}
  BY <1>1, VersionProps
<1>3. Min(starts) \in starts /\ \A n \in starts : Min(starts) <= n
  BY <1>2, MinProps
<1>4. OldestUnderWay = Min(starts)
  BY DEF OldestUnderWay
<1> HIDE DEF starts
<1>5. OldestUnderWay \in Nat
  BY <1>2, <1>3, <1>4
<1>6. Version \in starts
  BY DEF starts
<1>7. ASSUME NEW q \in Requests, Fetches(val[q]) PROVE val[q].began \in starts
  BY <1>7 DEF starts
<1> QED
  BY <1>3, <1>4, <1>5, <1>6, <1>7
--------------------------------------------------------------------------------
(***************************************************************************)
(* TypeOK says that only usable keys of the cache are parsed.  RSAKey adds *)
(* its key to them some steps after the look that found it; the key is     *)
(* still in the cache because nobody swaps the pointer while a validation  *)
(* holds the read lock.                                                    *)
(***************************************************************************)
ReadersHoldCachedKey ==
    \A r \in Requests : HoldsRead(val[r]) => val[r].key \in cache.keys \cap Usable

\* The answer a validation installs is one of the published key sets.
ServedIsPublished ==
    \A r \in Requests :
        val[r].stage \in {"fetched", "locking"} => val[r].served \in 1 .. Version

TypeInv == TypeOK /\ ReadersHoldCachedKey /\ ServedIsPublished

\* A step that moves one validation and leaves the key sets alone keeps TypeInv,
\* when the validation is well-formed where it goes.
LEMMA MoveKeepsType ==
    ASSUME TypeInv, NEW r \in Requests, NEW w \in Validation, Goto(r, w),
           UNCHANGED <<history, cache, floor>>,
           parsed' \subseteq cache.keys \cap Usable,
           HoldsRead(w) => w.key \in cache.keys \cap Usable,
           w.stage \in {"fetched", "locking"} => w.served \in 1 .. Version
    PROVE  TypeInv'
<1>1. TypeOK'
  BY Moved DEF TypeInv, TypeOK
<1>2. ReadersHoldCachedKey'
  BY Moved DEF TypeInv, ReadersHoldCachedKey, HoldsRead
<1>3. ServedIsPublished'
  BY Moved DEF TypeInv, ServedIsPublished, Version
<1> QED
  BY <1>1, <1>2, <1>3 DEF TypeInv

\* Every step keeps the type invariant and its strengthening, one case per action.
LEMMA TypeStep == TypeInv /\ [Next]_vars => TypeInv'
<1> SUFFICES ASSUME TypeInv, [Next]_vars PROVE TypeInv'
  OBVIOUS
<1>a. /\ TypeOK /\ parsed \subseteq cache.keys \cap Usable
      /\ \A r \in Requests : val[r] \in Validation
  BY DEF TypeInv, TypeOK
<1>1. CASE Restart
  <2>1. cache' \in [keys : KeySets, version : Nat] /\ floor' \in Nat
    BY <1>1, <1>a, VersionProps DEF Restart
  <2>2. val' \in [Requests -> Validation]
    BY <1>1 DEF Restart, Validation
  <2> QED
    BY <1>1, <1>a, <2>1, <2>2 DEF TypeInv, TypeOK, Restart, ReadersHoldCachedKey,
       ServedIsPublished, HoldsRead, Idle
<1>2. ASSUME NEW S \in KeySets, Publish(S) PROVE TypeInv'
  <2>1. history' \in Seq(KeySets) /\ history' # <<>> /\ Version' = Version + 1
    BY <1>2, <1>a, PublishProps
  <2>2. Version \in Nat
    BY <1>a, VersionProps
  <2>3. \A n \in 1 .. Version : n \in 1 .. Version'
    BY <2>1, <2>2, SMT
  <2>4. UNCHANGED <<cache, parsed, floor, val>>
    BY <1>2 DEF Publish
  <2> QED
    BY <1>2, <2>1, <2>3, <2>4 DEF TypeInv, TypeOK, ReadersHoldCachedKey,
       ServedIsPublished, HoldsRead
<1>3. ASSUME NEW r \in Requests, NEW k \in Keys, Validate(r, k) PROVE TypeInv'
  <2>1. [stage |-> "look", key |-> k, at |-> "first", oldest |-> 0] \in Validation
    BY DEF Validation, Looks
  <2> QED
    BY <1>3, <1>a, <2>1, MoveKeepsType DEF Validate, HoldsRead
<1>4. ASSUME NEW r \in Requests, NEW why \in {"missing", "fetch", "torn"},
             val[r].stage \in {"look", "written", "fetching", "fetched"},
             Goto(r, Refused(val[r].key, why, val[r].oldest)),
             UNCHANGED <<history, cache, parsed, floor>>
      PROVE  TypeInv'
  <2>1. val[r].key \in Keys /\ val[r].oldest \in Nat /\ Version \in Nat
    BY <1>4, <1>a, ValidationFields, VersionProps
  <2>2. Refused(val[r].key, why, val[r].oldest) \in Validation
    BY <2>1 DEF Refused, Validation
  <2>3. Refused(val[r].key, why, val[r].oldest).stage = "refused"
    BY DEF Refused
  <2> QED
    BY <1>4, <1>a, <2>2, <2>3, MoveKeepsType DEF HoldsRead
<1>5. ASSUME NEW r \in Requests, val[r].stage \in {"look", "written"},
             Goto(r, Accepted(val[r].key)),
             UNCHANGED <<history, cache, parsed, floor>>
      PROVE  TypeInv'
  <2>1. val[r].key \in Keys /\ floor \in Nat /\ Version \in Nat
    BY <1>5, <1>a, ValidationFields, VersionProps DEF TypeOK
  <2>2. Accepted(val[r].key) \in Validation
    BY <2>1 DEF Accepted, Validation
  <2>3. Accepted(val[r].key).stage = "accepted"
    BY DEF Accepted
  <2> QED
    BY <1>5, <1>a, <2>2, <2>3, MoveKeepsType DEF HoldsRead
<1>6. ASSUME NEW r \in Requests, LookHit(r) PROVE TypeInv'
  BY <1>4, <1>5, <1>6 DEF LookHit
<1>7. ASSUME NEW r \in Requests, LookUnparsed(r) PROVE TypeInv'
  <2> DEFINE w == [val[r] EXCEPT !.stage = "parsing"]
  <2>1. w \in Validation /\ w.stage = "parsing" /\ w.key = val[r].key
    BY <1>7, <1>a, ValidationFields DEF LookUnparsed, Validation
  <2>2. w.key \in cache.keys \cap Usable
    BY <1>7, <2>1 DEF LookUnparsed
  <2>3. Goto(r, w) /\ UNCHANGED <<history, cache, parsed, floor>>
    BY <1>7 DEF LookUnparsed
  <2> HIDE DEF w
  <2> QED
    BY <1>a, <2>1, <2>2, <2>3, MoveKeepsType
<1>8. ASSUME NEW r \in Requests, Parse(r) PROVE TypeInv'
  <2> DEFINE w == [val[r] EXCEPT !.stage = "written"]
  <2>1. w \in Validation /\ w.stage = "written" /\ w.key = val[r].key
    BY <1>8, <1>a, ValidationFields DEF Parse, Validation
  <2>2. val[r].key \in cache.keys \cap Usable
    BY <1>8 DEF Parse, TypeInv, ReadersHoldCachedKey, HoldsRead
  <2>3. /\ Goto(r, w) /\ UNCHANGED <<history, cache, floor>>
        /\ parsed' = parsed \cup {val[r].key}
    BY <1>8 DEF Parse
  <2> HIDE DEF w
  <2> QED
    BY <1>a, <2>1, <2>2, <2>3, MoveKeepsType
<1>9. ASSUME NEW r \in Requests, Unlock(r) PROVE TypeInv'
  BY <1>4, <1>5, <1>9 DEF Unlock
<1>10. ASSUME NEW r \in Requests, MissFirst(r) PROVE TypeInv'
  <2> DEFINE w == [stage |-> "fetching", key |-> val[r].key,
                   began |-> Version, oldest |-> OldestUnderWay]
  <2>1. val[r].key \in Keys /\ Version \in Nat /\ OldestUnderWay \in Nat
    BY <1>10, <1>a, ValidationFields, VersionProps, OldestProps DEF MissFirst
  <2>2. w \in Validation /\ w.stage = "fetching"
    BY <2>1 DEF Validation
  <2>3. Goto(r, w) /\ UNCHANGED <<history, cache, parsed, floor>>
    BY <1>10 DEF MissFirst
  <2> HIDE DEF w
  <2> QED
    BY <1>a, <2>2, <2>3, MoveKeepsType DEF HoldsRead
<1>11. ASSUME NEW r \in Requests, MissSecond(r) PROVE TypeInv'
  BY <1>4, <1>11 DEF MissSecond
<1>12. ASSUME NEW r \in Requests, IdpAnswers(r) PROVE TypeInv'
  <2> DEFINE w == [stage |-> "fetched", key |-> val[r].key, began |-> val[r].began,
                   oldest |-> val[r].oldest, served |-> Version]
  <2>1. /\ val[r].key \in Keys /\ val[r].began \in Nat /\ val[r].oldest \in Nat
        /\ Version \in Nat /\ Version >= 1
    BY <1>12, <1>a, ValidationFields, VersionProps DEF IdpAnswers
  <2>2. w \in Validation /\ w.stage = "fetched"
    BY <2>1 DEF Validation
  <2>3. w.served \in 1 .. Version
    BY <2>1, SMT
  <2>4. Goto(r, w) /\ UNCHANGED <<history, cache, parsed, floor>>
    BY <1>12 DEF IdpAnswers
  <2> HIDE DEF w
  <2> QED
    BY <1>a, <2>2, <2>3, <2>4, MoveKeepsType DEF HoldsRead
<1>13. ASSUME NEW r \in Requests, FetchFails(r) PROVE TypeInv'
  BY <1>4, <1>13 DEF FetchFails
<1>14. ASSUME NEW r \in Requests, AwaitLock(r) PROVE TypeInv'
  <2> DEFINE w == [val[r] EXCEPT !.stage = "locking"]
  <2>1. w \in Validation /\ w.stage = "locking" /\ w.served = val[r].served
    BY <1>14, <1>a, ValidationFields DEF AwaitLock, Validation
  <2>2. w.served \in 1 .. Version
    BY <1>14, <2>1 DEF AwaitLock, TypeInv, ServedIsPublished
  <2>3. Goto(r, w) /\ UNCHANGED <<history, cache, parsed, floor>>
    BY <1>14 DEF AwaitLock
  <2> HIDE DEF w
  <2> QED
    BY <1>a, <2>1, <2>2, <2>3, MoveKeepsType DEF HoldsRead
<1>15. ASSUME NEW r \in Requests, Install(r) PROVE TypeInv'
  <2> DEFINE w == [stage |-> "look", key |-> val[r].key, at |-> "second",
                   oldest |-> val[r].oldest]
  <2>1. /\ val[r].key \in Keys /\ val[r].oldest \in Nat /\ val[r].served \in Nat
    BY <1>15, <1>a, ValidationFields DEF Install
  <2>2. w \in Validation /\ w.stage = "look"
    BY <2>1 DEF Validation, Looks
  <2>3. val[r].served \in 1 .. Version
    BY <1>15 DEF Install, TypeInv, ServedIsPublished
  <2>4. cache' \in [keys : KeySets, version : Nat]
    BY <1>15, <1>a, <2>1, <2>3, VersionProps DEF Install
  <2>5. floor' \in Nat
    BY <1>15, <1>a, <2>1, MaxOfTwo DEF Install, RaiseFloor, TypeOK
  <2>6. Goto(r, w) /\ history' = history /\ parsed' = {}
    BY <1>15 DEF Install, Again
  <2>7. \A q \in Requests : ~ HoldsRead(val[q])
    BY <1>15 DEF Install, MayWrite
  <2> HIDE DEF w
  <2>8. TypeOK'
    BY <1>a, <2>2, <2>4, <2>5, <2>6, Moved DEF TypeOK
  <2>9. ReadersHoldCachedKey'
    BY <1>a, <2>2, <2>6, <2>7, Moved DEF ReadersHoldCachedKey, HoldsRead
  <2>10. ServedIsPublished'
    BY <1>a, <2>2, <2>6, Moved DEF TypeInv, ServedIsPublished, Version
  <2> QED
    BY <2>8, <2>9, <2>10 DEF TypeInv
<1>16. CASE UNCHANGED vars
  BY <1>16 DEF vars, TypeInv, TypeOK, ReadersHoldCachedKey, ServedIsPublished,
     HoldsRead, Version
<1> QED
  BY <1>1, <1>2, <1>3, <1>6, <1>7, <1>8, <1>9, <1>10, <1>11, <1>12, <1>13, <1>14,
     <1>15, <1>16 DEF Next, Look, Run

\* Initially both hold: the cache has the first published set.
LEMMA InitType == Init => TypeInv
<1> SUFFICES ASSUME Init PROVE TypeInv
  OBVIOUS
<1>1. PICK S \in KeySets : history = <<S>> /\ cache = [keys |-> S, version |-> 1]
  BY DEF Init
<1>2. history \in Seq(KeySets) /\ history # <<>>
  BY <1>1, SMT
<1>3. cache \in [keys : KeySets, version : Nat]
  BY <1>1
<1> QED
  BY <1>2, <1>3 DEF Init, TypeInv, TypeOK, Validation, Idle, ReadersHoldCachedKey,
     ServedIsPublished, HoldsRead

\* So every state has them.
LEMMA TypeInvariant == Spec => []TypeInv
BY InitType, TypeStep, PTL DEF Spec

(***************************************************************************)
(* TypeCorrect: every variable keeps its type; only usable keys of the set *)
(* that is installed are parsed.                                           *)
(***************************************************************************)
THEOREM TypeCorrect == Spec => []TypeOK
BY TypeInvariant, PTL DEF TypeInv
--------------------------------------------------------------------------------
(***************************************************************************)
(* Which versions the cache may hold.  A fetch that is under way brings a  *)
(* version no older than the one published when it began, and it is the    *)
(* only thing that can still replace what is installed.  A validation that *)
(* remembers the oldest of these beginnings (oldest) therefore finds       *)
(* nothing older in the cache when it looks again, whatever was installed  *)
(* in between; and the floor, raised to oldest at every swap, never passes *)
(* the version that is installed.                                          *)
(***************************************************************************)
CacheIsPublished == /\ cache.version \in 1 .. Version
                    /\ cache.keys = history[cache.version]
                    /\ 1 <= floor /\ floor <= cache.version

FetchesBringNoOlder ==
    \A q \in Requests :
        /\ Fetches(val[q]) => floor <= val[q].began /\ val[q].began <= Version
        /\ val[q].stage \in {"fetched", "locking"} =>
               val[q].began <= val[q].served /\ val[q].served <= Version

\* The validations that may still turn to the cache, or look at it again.
Pending(v) == v.stage = "look" \/ Fetches(v)

PendingFramed ==
    \A r \in Requests :
        /\ val[r].stage = "look" => val[r].oldest <= cache.version
        /\ Pending(val[r]) =>
               \A q \in Requests : Fetches(val[q]) => val[r].oldest <= val[q].began

\* A decision that was taken: which published sets bear it out.
Founded(v) ==
    /\ v.stage = "accepted" => \E n \in v.floor .. v.until :
                                  n \in 1 .. Version /\ v.key \in history[n]
    /\ v.stage = "refused" /\ v.why = "missing" /\ v.key \in Usable =>
          \E n \in v.oldest .. v.until : n \in 1 .. Version /\ v.key \notin history[n]

DecisionsFounded == \A r \in Requests : Founded(val[r])

Framed == /\ CacheIsPublished
          /\ FetchesBringNoOlder
          /\ PendingFramed
          /\ DecisionsFounded

CacheInv == TypeInv /\ Framed

\* What the invariant says of one validation and the numbers it compares.
LEMMA Numbers ==
    ASSUME TypeInv, NEW q \in Requests
    PROVE  /\ Version \in Nat /\ cache.version \in Nat /\ floor \in Nat
           /\ Pending(val[q]) => val[q].oldest \in Nat
           /\ Fetches(val[q]) => val[q].began \in Nat
           /\ val[q].stage \in {"fetched", "locking"} => val[q].served \in Nat
<1>1. TypeOK /\ val[q] \in Validation
  BY DEF TypeInv, TypeOK
<1>2. Version \in Nat
  BY <1>1, VersionProps
<1> QED
  BY <1>1, <1>2, ValidationFields DEF TypeOK, Pending, Fetches

\* A step that moves one validation and leaves the key sets alone keeps the
\* invariant when the validation is framed where it goes.
LEMMA MoveKeepsFrame ==
    ASSUME CacheInv, NEW r \in Requests, NEW w, Goto(r, w),
           UNCHANGED <<history, cache, floor>>,
           Fetches(w) => /\ floor <= w.began /\ w.began <= Version
                         /\ \A q \in Requests : Pending(val[q]) => val[q].oldest <= w.began
                         /\ w.oldest <= w.began,
           w.stage \in {"fetched", "locking"} => w.began <= w.served /\ w.served <= Version,
           w.stage = "look" => w.oldest <= cache.version,
           Pending(w) => \A q \in Requests :
                            Fetches(val[q]) => w.oldest <= val[q].began,
           Founded(w)
    PROVE  Framed'
<1>1. /\ val'[r] = w /\ \A q \in Requests : q # r => val'[q] = val[q]
      /\ Version' = Version /\ floor' = floor /\ cache' = cache /\ history' = history
  BY Moved DEF CacheInv, TypeInv, Version
<1>2. CacheIsPublished'
  BY <1>1 DEF CacheInv, Framed, CacheIsPublished
<1>3. FetchesBringNoOlder'
  BY <1>1 DEF CacheInv, Framed, FetchesBringNoOlder, Fetches
<1>4. ASSUME NEW p \in Requests
      PROVE  /\ val'[p].stage = "look" => val'[p].oldest <= cache'.version
             /\ Pending(val'[p]) => \A q \in Requests :
                    Fetches(val'[q]) => val'[p].oldest <= val'[q].began
  <2>1. CASE p = r
    BY <1>1, <2>1 DEF Pending
  <2>2. CASE p # r
    BY <1>1, <2>2 DEF CacheInv, Framed, PendingFramed
  <2> QED
    BY <2>1, <2>2
<1>5. PendingFramed'
  BY <1>4 DEF PendingFramed, Pending, Fetches
<1>6. DecisionsFounded'
  BY <1>1 DEF CacheInv, Framed, DecisionsFounded, Founded
<1> QED
  BY <1>2, <1>3, <1>5, <1>6 DEF Framed

\* Every step keeps the inductive invariant of the validations.
LEMMA FrameStep == CacheInv /\ [Next]_vars => CacheInv'
<1> SUFFICES ASSUME CacheInv, [Next]_vars
             PROVE  Framed'
  BY TypeStep DEF CacheInv
<1>a. /\ TypeInv /\ TypeOK /\ Version \in Nat /\ Version >= 1 /\ Published \in KeySets
      /\ \A r \in Requests : val[r] \in Validation
  BY VersionProps DEF CacheInv, TypeInv, TypeOK
<1>b. /\ cache.version \in Nat /\ floor \in Nat /\ floor <= cache.version
      /\ cache.version <= Version /\ cache.version \in 1 .. Version
      /\ cache.keys = history[cache.version]
  BY <1>a DEF CacheInv, Framed, CacheIsPublished, TypeOK
<1>1. CASE Restart
  <2>1. /\ Version' = Version /\ cache'.version = Version /\ floor' = Version
        /\ cache'.keys = history'[Version] /\ \A r \in Requests : val'[r] = Idle
    BY <1>1 DEF Restart, Version, Published
  <2>2. CacheIsPublished'
    BY <1>a, <2>1, SMT DEF CacheIsPublished
  <2> QED
    BY <2>1, <2>2 DEF Framed, FetchesBringNoOlder, PendingFramed, DecisionsFounded, Founded,
       Fetches, Pending, Idle
<1>2. ASSUME NEW S \in KeySets, Publish(S)
      PROVE  Framed'
  <2>1. /\ Version' = Version + 1
        /\ \A n \in 1 .. Version : n \in 1 .. Version' /\ history'[n] = history[n]
    BY <1>a, <1>2, PublishProps, SMT
  <2>2. UNCHANGED <<cache, floor, val>>
    BY <1>2 DEF Publish
  <2>3. CacheIsPublished'
    BY <1>b, <2>1, <2>2 DEF CacheInv, Framed, CacheIsPublished
  <2>4. FetchesBringNoOlder'
    <3>1. ASSUME NEW q \in Requests, Fetches(val[q])
          PROVE  val[q].began <= Version'
      BY <1>a, <2>1, <3>1, Numbers, SMT DEF CacheInv, Framed, FetchesBringNoOlder
    <3>2. ASSUME NEW q \in Requests, val[q].stage \in {"fetched", "locking"}
          PROVE  val[q].served <= Version'
      BY <1>a, <2>1, <3>2, Numbers, SMT DEF CacheInv, Framed, FetchesBringNoOlder
    <3> QED
      BY <2>2, <3>1, <3>2 DEF CacheInv, Framed, FetchesBringNoOlder, Fetches
  <2>5. PendingFramed'
    BY <2>2 DEF CacheInv, Framed, PendingFramed, Pending, Fetches
  <2>6. DecisionsFounded'
    BY <2>1, <2>2 DEF CacheInv, Framed, DecisionsFounded, Founded
  <2> QED
    BY <2>3, <2>4, <2>5, <2>6 DEF Framed
<1>3. ASSUME NEW r \in Requests, NEW k \in Keys, Validate(r, k)
      PROVE  Framed'
  <2> DEFINE w == [stage |-> "look", key |-> k, at |-> "first", oldest |-> 0]
  <2>1. w.stage = "look" /\ w.oldest = 0
    OBVIOUS
  <2>2. w.oldest <= cache.version
    BY <1>b, SMT
  <2>3. \A q \in Requests : Fetches(val[q]) => 0 <= val[q].began
    BY <1>a, Numbers, SMT
  <2>4. Goto(r, w) /\ UNCHANGED <<history, cache, floor>>
    BY <1>3 DEF Validate
  <2> HIDE DEF w
  <2> QED
    BY <2>1, <2>2, <2>3, <2>4, MoveKeepsFrame DEF Fetches, Founded
<1>4. ASSUME NEW r \in Requests, NEW why \in {"fetch", "torn"},
             Goto(r, Refused(val[r].key, why, val[r].oldest)),
             UNCHANGED <<history, cache, parsed, floor>>
      PROVE  Framed'
  BY <1>4, MoveKeepsFrame DEF Refused, Fetches, Pending, Founded
<1>5. ASSUME NEW r \in Requests, val[r].key \in cache.keys,
             Goto(r, Accepted(val[r].key)),
             UNCHANGED <<history, cache, parsed, floor>>
      PROVE  Framed'
  <2>1. cache.version \in floor .. Version
    BY <1>a, <1>b, SMT
  <2>2. Founded(Accepted(val[r].key))
    BY <1>b, <1>5, <2>1 DEF Accepted, Founded
  <2> QED
    BY <1>5, <2>2, MoveKeepsFrame DEF Accepted, Fetches, Pending
<1>6. ASSUME NEW r \in Requests, LookHit(r)
      PROVE  Framed'
  <2>1. val[r].key \in cache.keys
    BY <1>a, <1>6 DEF LookHit, TypeOK
  <2> QED
    BY <1>4, <1>5, <1>6, <2>1 DEF LookHit
<1>7. ASSUME NEW r \in Requests, LookUnparsed(r)
      PROVE  Framed'
  <2> DEFINE w == [val[r] EXCEPT !.stage = "parsing"]
  <2>1. w.stage = "parsing"
    BY <1>7, <1>a, ValidationFields DEF LookUnparsed
  <2>2. Goto(r, w) /\ UNCHANGED <<history, cache, floor>>
    BY <1>7 DEF LookUnparsed
  <2> HIDE DEF w
  <2> QED
    BY <2>1, <2>2, MoveKeepsFrame DEF Fetches, Pending, Founded
<1>8. ASSUME NEW r \in Requests, Parse(r)
      PROVE  Framed'
  <2> DEFINE w == [val[r] EXCEPT !.stage = "written"]
  <2>1. w.stage = "written"
    BY <1>8, <1>a, ValidationFields DEF Parse
  <2>2. Goto(r, w) /\ UNCHANGED <<history, cache, floor>>
    BY <1>8 DEF Parse
  <2> HIDE DEF w
  <2> QED
    BY <2>1, <2>2, MoveKeepsFrame DEF Fetches, Pending, Founded
<1>9. ASSUME NEW r \in Requests, Unlock(r)
      PROVE  Framed'
  <2>1. val[r].key \in cache.keys
    BY <1>a, <1>9 DEF Unlock, TypeInv, ReadersHoldCachedKey, HoldsRead
  <2> QED
    BY <1>4, <1>5, <1>9, <2>1 DEF Unlock
<1>10. ASSUME NEW r \in Requests, MissFirst(r)
       PROVE  Framed'
  <2> DEFINE w == [stage |-> "fetching", key |-> val[r].key,
                   began |-> Version, oldest |-> OldestUnderWay]
  <2>1. /\ w.stage = "fetching" /\ w.began = Version /\ w.oldest = OldestUnderWay
        /\ Goto(r, w) /\ UNCHANGED <<history, cache, floor>>
    BY <1>10 DEF MissFirst
  <2>2. floor <= Version
    BY <1>a, <1>b, SMT
  <2>3. ASSUME NEW q \in Requests, Pending(val[q]) PROVE val[q].oldest <= Version
    <3>1. CASE val[q].stage = "look"
      <4>1. val[q].oldest <= cache.version
        BY <3>1 DEF CacheInv, Framed, PendingFramed
      <4> QED
        BY <1>a, <1>b, <2>3, <4>1, Numbers, SMT
    <3>2. CASE Fetches(val[q])
      <4>1. val[q].oldest <= val[q].began /\ val[q].began <= Version
        BY <2>3, <3>2 DEF CacheInv, Framed, PendingFramed, FetchesBringNoOlder
      <4> QED
        BY <1>a, <2>3, <3>2, <4>1, Numbers, SMT
    <3> QED
      BY <2>3, <3>1, <3>2 DEF Pending
  <2>4. /\ OldestUnderWay <= Version
        /\ \A q \in Requests : Fetches(val[q]) => OldestUnderWay <= val[q].began
    BY <1>a, OldestProps
  <2>5. Version <= Version
    BY <1>a, SMT
  <2> HIDE DEF w
  <2> QED
    BY <2>1, <2>2, <2>3, <2>4, <2>5, MoveKeepsFrame DEF Founded
<1>11. ASSUME NEW r \in Requests, MissSecond(r)
       PROVE  Framed'
  <2> DEFINE w == Refused(val[r].key, "missing", val[r].oldest)
  <2>1. /\ w.stage = "refused" /\ w.why = "missing" /\ w.key = val[r].key
        /\ w.oldest = val[r].oldest /\ w.until = Version
    BY DEF Refused
  <2>2. val[r].oldest \in Nat /\ val[r].oldest <= cache.version
    BY <1>a, <1>11, Numbers DEF MissSecond, CacheInv, Framed, PendingFramed, Pending
  <2>3. cache.version \in val[r].oldest .. Version
    BY <1>a, <1>b, <2>2, SMT
  <2>4. val[r].key \in Usable => val[r].key \notin history[cache.version]
    BY <1>b, <1>11 DEF MissSecond, Missing
  <2>5. Founded(w)
    BY <1>b, <2>1, <2>3, <2>4 DEF Founded
  <2>6. Goto(r, w) /\ UNCHANGED <<history, cache, floor>>
    BY <1>11 DEF MissSecond
  <2> HIDE DEF w
  <2> QED
    BY <2>1, <2>5, <2>6, MoveKeepsFrame DEF Fetches, Pending
<1>12. ASSUME NEW r \in Requests, IdpAnswers(r)
       PROVE  Framed'
  <2> DEFINE w == [stage |-> "fetched", key |-> val[r].key, began |-> val[r].began,
                   oldest |-> val[r].oldest, served |-> Version]
  <2>1. /\ w.stage = "fetched" /\ w.began = val[r].began /\ w.oldest = val[r].oldest
        /\ w.served = Version /\ Goto(r, w) /\ UNCHANGED <<history, cache, floor>>
    BY <1>12 DEF IdpAnswers
  <2>2. Fetches(val[r]) /\ Pending(val[r])
    BY <1>12 DEF IdpAnswers, Fetches, Pending
  <2>3. floor <= val[r].began /\ val[r].began <= Version
    BY <2>2 DEF CacheInv, Framed, FetchesBringNoOlder
  <2>4. \A q \in Requests : /\ Pending(val[q]) => val[q].oldest <= val[r].began
                            /\ Fetches(val[q]) => val[r].oldest <= val[q].began
    BY <2>2 DEF CacheInv, Framed, PendingFramed
  <2>5. Version <= Version
    BY <1>a, SMT
  <2> HIDE DEF w
  <2> QED
    BY <2>1, <2>2, <2>3, <2>4, <2>5, MoveKeepsFrame DEF Founded
<1>13. ASSUME NEW r \in Requests, FetchFails(r)
       PROVE  Framed'
  BY <1>4, <1>13 DEF FetchFails
<1>14. ASSUME NEW r \in Requests, AwaitLock(r)
       PROVE  Framed'
  <2> DEFINE w == [val[r] EXCEPT !.stage = "locking"]
  <2>1. /\ w.stage = "locking" /\ w.began = val[r].began /\ w.oldest = val[r].oldest
        /\ w.served = val[r].served
    BY <1>14, <1>a, ValidationFields DEF AwaitLock
  <2>2. Goto(r, w) /\ UNCHANGED <<history, cache, floor>>
    BY <1>14 DEF AwaitLock
  <2>3. Fetches(val[r]) /\ Pending(val[r]) /\ val[r].stage \in {"fetched", "locking"}
    BY <1>14 DEF AwaitLock, Fetches, Pending
  <2>4. /\ floor <= val[r].began /\ val[r].began <= Version
        /\ val[r].began <= val[r].served /\ val[r].served <= Version
    BY <2>3 DEF CacheInv, Framed, FetchesBringNoOlder
  <2>5. \A q \in Requests : /\ Pending(val[q]) => val[q].oldest <= val[r].began
                            /\ Fetches(val[q]) => val[r].oldest <= val[q].began
    BY <2>3 DEF CacheInv, Framed, PendingFramed
  <2> HIDE DEF w
  <2> QED
    BY <2>1, <2>2, <2>3, <2>4, <2>5, MoveKeepsFrame DEF Founded
<1>15. ASSUME NEW r \in Requests, Install(r)
       PROVE  Framed'
  <2> DEFINE w == [stage |-> "look", key |-> val[r].key, at |-> "second",
                   oldest |-> val[r].oldest]
  <2>1. Goto(r, w) /\ history' = history /\ Version' = Version
    BY <1>15 DEF Install, Again, Version
  <2>2. /\ val'[r] = w /\ w.stage = "look" /\ w.oldest = val[r].oldest
        /\ \A q \in Requests : q # r => val'[q] = val[q]
    BY <1>a, <2>1, Moved
  <2>3. /\ cache'.version = val[r].served /\ cache'.keys = history[val[r].served]
        /\ floor' = Max({floor, val[r].oldest})
    BY <1>15 DEF Install, RaiseFloor
  <2>4. /\ Fetches(val[r]) /\ Pending(val[r]) /\ val[r].stage \in {"fetched", "locking"}
        /\ val[r].oldest \in Nat /\ val[r].began \in Nat /\ val[r].served \in Nat
    BY <1>15, <1>a, Numbers DEF Install, Fetches, Pending
  <2>5. /\ floor <= val[r].began /\ val[r].began <= val[r].served
        /\ val[r].served \in 1 .. Version
    BY <1>15, <2>4 DEF Install, CacheInv, Framed, FetchesBringNoOlder, TypeInv, ServedIsPublished
  <2>6. /\ \A q \in Requests : Pending(val[q]) => val[q].oldest <= val[r].began
        /\ \A q \in Requests : Fetches(val[q]) => val[r].oldest <= val[q].began
    BY <2>4 DEF CacheInv, Framed, PendingFramed
  <2>7. floor' \in {floor, val[r].oldest} /\ floor <= floor'
    BY <1>b, <2>3, <2>4, MaxOfTwo
  <2> HIDE DEF w
  <2>8. CacheIsPublished'
    <3>1. 1 <= floor
      BY DEF CacheInv, Framed, CacheIsPublished
    <3>2. val[r].oldest <= val[r].began
      BY <2>4, <2>6
    <3>3. 1 <= floor' /\ floor' <= val[r].served
      BY <1>b, <2>4, <2>5, <2>7, <3>1, <3>2, SMT
    <3> QED
      BY <2>1, <2>3, <2>5, <3>3 DEF CacheIsPublished
  <2>9. FetchesBringNoOlder'
    <3>1. ASSUME NEW q \in Requests, Fetches(val[q]) PROVE floor' <= val[q].began
      BY <2>6, <2>7, <3>1 DEF CacheInv, Framed, FetchesBringNoOlder
    <3> QED
      BY <2>1, <2>2, <3>1 DEF CacheInv, Framed, FetchesBringNoOlder, Fetches
  <2>10. PendingFramed'
    <3>1. ASSUME NEW q \in Requests, Pending(val[q]) PROVE val[q].oldest <= val[r].served
      BY <1>a, <2>4, <2>5, <2>6, <3>1, Numbers, SMT
    <3>2. ASSUME NEW p \in Requests, NEW q \in Requests, Pending(val'[p]), Fetches(val'[q])
          PROVE  val'[p].oldest <= val'[q].began
      <4>1. q # r /\ val'[q] = val[q]
        BY <2>2, <3>2 DEF Fetches
      <4>2. CASE p = r
        BY <2>2, <2>6, <3>2, <4>1, <4>2
      <4>3. CASE p # r
        BY <2>2, <3>2, <4>1, <4>3 DEF CacheInv, Framed, PendingFramed
      <4> QED
        BY <4>2, <4>3
    <3>3. ASSUME NEW p \in Requests, val'[p].stage = "look"
          PROVE  val'[p].oldest <= cache'.version
      BY <2>2, <2>3, <2>4, <3>1, <3>3 DEF Pending
    <3> QED
      BY <3>2, <3>3 DEF PendingFramed, Pending, Fetches
  <2>11. DecisionsFounded'
    BY <2>1, <2>2 DEF CacheInv, Framed, DecisionsFounded, Founded
  <2> QED
    BY <2>8, <2>9, <2>10, <2>11 DEF Framed
<1>16. CASE UNCHANGED vars
  BY <1>16 DEF vars, CacheInv, Framed, CacheIsPublished, FetchesBringNoOlder, PendingFramed,
     DecisionsFounded, Founded, Pending, Fetches, Version
<1> QED
  BY <1>1, <1>2, <1>3, <1>6, <1>7, <1>8, <1>9, <1>10, <1>11, <1>12, <1>13, <1>14,
     <1>15, <1>16 DEF Next, Look, Run

\* So every state has it.
LEMMA CacheInvariant == Spec => []CacheInv
<1>1. Init => CacheInv
  <2> SUFFICES ASSUME Init PROVE CacheInv
    OBVIOUS
  <2>1. PICK S \in KeySets : history = <<S>> /\ cache = [keys |-> S, version |-> 1]
    BY DEF Init
  <2>2. TypeInv
    BY InitType
  <2>3. Version = 1 /\ history[1] = S
    BY <2>1, SMT DEF Version
  <2>4. CacheIsPublished
    BY <2>1, <2>3, SMT DEF Init, CacheIsPublished
  <2> QED
    BY <2>2, <2>4 DEF Init, CacheInv, Framed, FetchesBringNoOlder, PendingFramed,
       DecisionsFounded, Founded, Fetches, Pending, Idle
<1> QED
  BY <1>1, FrameStep, PTL DEF Spec

(***************************************************************************)
(* Withdrawn: for any number of validations and rotations, and whatever    *)
(* the order in which answers are installed, a token is accepted only      *)
(* under a key that the IdP published no earlier than the earliest fetch   *)
(* began that was under way at the latest refresh.                         *)
(***************************************************************************)
THEOREM Withdrawn == Spec => []WithdrawnKeys
<1>1. CacheInv => WithdrawnKeys
  BY DEF CacheInv, Framed, DecisionsFounded, Founded, WithdrawnKeys
<1> QED
  BY <1>1, CacheInvariant, PTL

(***************************************************************************)
(* Misses: a token whose key is usable is refused for want of it only if   *)
(* the IdP did not publish that key at some time since the earliest fetch  *)
(* then under way began, even if an older answer overwrote a newer one.    *)
(***************************************************************************)
THEOREM Misses == Spec => []MissHasCause
<1>1. CacheInv => MissHasCause
  BY DEF CacheInv, Framed, DecisionsFounded, Founded, MissHasCause
<1> QED
  BY <1>1, CacheInvariant, PTL
--------------------------------------------------------------------------------
\* The abstract lookup at each stage of a validation.
LEMMA LookupFields ==
    ASSUME NEW v \in Validation
    PROVE  /\ v.stage \in {"look", "parsing", "written"} =>
                 LookupOf(v) = [stage |-> "look", key |-> v.key, at |-> v.at]
           /\ v.stage \in {"fetching", "fetched", "locking"} =>
                 LookupOf(v) = [stage |-> "refresh", key |-> v.key, began |-> v.began]
           /\ v.stage = "accepted" => LookupOf(v) = [stage |-> "accepted", key |-> v.key]
           /\ v.stage = "refused" =>
                 LookupOf(v) = [stage |-> "refused", key |-> v.key, why |-> v.why]
           /\ v.stage = "idle" => LookupOf(v) = Idle
BY DEF LookupOf, Looking, Fetches

\* A step of one validation is one of its abstract lookup.
LEMMA LookupMoved ==
    ASSUME TypeOK, NEW r \in Requests, NEW w, Goto(r, w)
    PROVE  /\ Lookups' = [Lookups EXCEPT ![r] = LookupOf(w)]
           /\ \A q \in Requests : Lookups[q] = LookupOf(val[q])
           /\ Lookups = [q \in Requests |-> Lookups[q]]
BY Moved DEF Lookups

\* What is found in the cache is what is in the published set it holds.
LEMMA FoundInCache ==
    ASSUME CacheInv, NEW k
    PROVE  Lookup!Found(k) <=> k \in cache.keys \cap Usable
BY DEF CacheInv, Framed, CacheIsPublished, Lookup!Found

\* The two outcomes of a look that finds its key.
LEMMA LookFinds ==
    ASSUME CacheInv, NEW r \in Requests, val[r].stage \in {"look", "written"},
           val[r].key \in cache.keys \cap Usable,
           \/ Goto(r, Accepted(val[r].key))
           \/ /\ MayBeTorn(r, val[r].key)
              /\ Goto(r, Refused(val[r].key, "torn", val[r].oldest)),
           UNCHANGED <<history, cache>>
    PROVE  Lookup!Accept(r) \/ Lookup!Garble(r)
<1> DEFINE k == val[r].key
<1>1. TypeOK /\ val[r] \in Validation
  BY DEF CacheInv, TypeInv, TypeOK
<1>2. LookupOf(val[r]) = [stage |-> "look", key |-> k, at |-> val[r].at]
  BY <1>1, LookupFields
<1>3. Lookup!Found(k)
  BY FoundInCache
<1>4. CASE Goto(r, Accepted(k))
  <2>1. LookupOf(Accepted(k)) = [stage |-> "accepted", key |-> k]
    BY DEF LookupOf, Looking, Fetches, Accepted
  <2>2. Lookups' = [Lookups EXCEPT ![r] = [stage |-> "accepted", key |-> k]]
    BY <1>1, <1>4, <2>1, LookupMoved
  <2>3. Lookups[r] = LookupOf(val[r])
    BY DEF Lookups
  <2> QED
    BY <1>2, <1>3, <2>2, <2>3 DEF Lookup!Accept, Lookup!Goto
<1>5. CASE MayBeTorn(r, k) /\ Goto(r, Refused(k, "torn", val[r].oldest))
  <2>1. LookupOf(Refused(k, "torn", val[r].oldest)) =
            [stage |-> "refused", key |-> k, why |-> "torn"]
    BY DEF LookupOf, Looking, Fetches, Refused
  <2>2. Lookups' = [Lookups EXCEPT ![r] = [stage |-> "refused", key |-> k, why |-> "torn"]]
    BY <1>1, <1>5, <2>1, LookupMoved
  <2>3. \A q \in Requests : Lookups[q] = LookupOf(val[q])
    BY DEF Lookups
  <2>4. PICK q \in Requests \ {r} : val[q].stage = "written" /\ val[q].key = k
    BY <1>5 DEF MayBeTorn
  <2>5. Lookups[q].stage = "look" /\ Lookups[q].key = k
    BY <1>1, <2>3, <2>4, LookupFields DEF TypeOK
  <2>6. Lookups[r].stage = "look" /\ Lookups[r].key = k
    BY <1>2, <2>3
  <2>7. Lookup!Goto(r, [stage |-> "refused", key |-> k, why |-> "torn"])
    BY <2>2 DEF Lookup!Goto
  <2>8. \E p \in Requests \ {r} : Lookups[p].stage = "look" /\ Lookups[p].key = k
    BY <2>4, <2>5
  <2>9. Lookup!Garble(r)
    BY <1>3, <2>6, <2>7, <2>8 DEF Lookup!Garble
  <2> QED
    BY <2>9
<1> QED
  BY <1>4, <1>5

\* Each step is a step of the abstract lookup, or leaves it where it was.
LEMMA LookupStep == CacheInv /\ [Next]_vars => [Lookup!Next]_(Lookup!vars)
<1> SUFFICES ASSUME CacheInv, [Next]_vars PROVE [Lookup!Next]_(Lookup!vars)
  OBVIOUS
<1>a. /\ TypeOK /\ TypeInv /\ \A r \in Requests : val[r] \in Validation
      /\ parsed \subseteq cache.keys \cap Usable
  BY DEF CacheInv, TypeInv, TypeOK
<1>b. \A q \in Requests : Lookups[q] = LookupOf(val[q])
  BY DEF Lookups
\* A step that leaves the abstract lookup where it was.
<1>c. ASSUME NEW r \in Requests, NEW w, Goto(r, w), LookupOf(w) = LookupOf(val[r]),
             UNCHANGED <<history, cache>>
      PROVE  UNCHANGED Lookup!vars
  <2>1. Lookups' = [Lookups EXCEPT ![r] = Lookups[r]]
    BY <1>a, <1>b, <1>c, LookupMoved
  <2>2. Lookups' = Lookups
    BY <2>1 DEF Lookups
  <2> QED
    BY <1>c, <2>2 DEF Lookup!vars
<1>1. CASE Restart
  <2>1. Lookups' = [r \in Requests |-> Idle]
    BY <1>1 DEF Restart, Lookups, LookupOf, Looking, Fetches, Idle
  <2>2. Lookup!Restart
    BY <1>1, <2>1 DEF Restart, Lookup!Restart, Lookup!Version, Version, Lookup!Idle, Idle
  <2> QED
    BY <2>2 DEF Lookup!Next
<1>2. ASSUME NEW S \in KeySets, Publish(S) PROVE Lookup!Next
  <2>1. Lookup!Publish(S)
    BY <1>2 DEF Publish, Lookup!Publish, Lookups
  <2> QED
    BY <2>1 DEF Lookup!Next
<1>3. ASSUME NEW r \in Requests, NEW k \in Keys, Validate(r, k) PROVE Lookup!Next
  <2> DEFINE w == [stage |-> "look", key |-> k, at |-> "first", oldest |-> 0]
  <2>1. Goto(r, w) /\ UNCHANGED <<history, cache>>
    BY <1>3 DEF Validate
  <2>2. LookupOf(w) = [stage |-> "look", key |-> k, at |-> "first"]
    BY DEF LookupOf, Looking, Fetches
  <2>3. Lookups[r].stage \in {"idle", "accepted", "refused"}
    BY <1>3, <1>a, <1>b, LookupFields DEF Validate, Idle
  <2> HIDE DEF w
  <2>4. Lookups' = [Lookups EXCEPT ![r] = [stage |-> "look", key |-> k, at |-> "first"]]
    BY <1>a, <2>1, <2>2, LookupMoved
  <2>5. Lookup!Ask(r, k)
    BY <2>1, <2>3, <2>4 DEF Lookup!Ask, Lookup!Goto
  <2> QED
    BY <2>5 DEF Lookup!Next
<1>4. ASSUME NEW r \in Requests, LookHit(r) PROVE Lookup!Next
  <2>1. val[r].key \in cache.keys \cap Usable
    BY <1>4, <1>a DEF LookHit
  <2>2. Lookup!Accept(r) \/ Lookup!Garble(r)
    BY <1>4, <2>1, LookFinds DEF LookHit
  <2> QED
    BY <2>2 DEF Lookup!Next
<1>5. ASSUME NEW r \in Requests, LookUnparsed(r) \/ Parse(r)
      PROVE  UNCHANGED Lookup!vars
  <2>1. PICK stage \in {"parsing", "written"} : Goto(r, [val[r] EXCEPT !.stage = stage])
    BY <1>5 DEF LookUnparsed, Parse
  <2> DEFINE w == [val[r] EXCEPT !.stage = stage]
  <2>2. val[r].stage \in {"look", "parsing"} /\ UNCHANGED <<history, cache>>
    BY <1>5 DEF LookUnparsed, Parse
  <2>3. val[r] \in [stage : {"look", "parsing", "written"}, key : Keys, at : Looks,
                    oldest : Nat]
    BY <1>a, <2>2, ValidationFields
  <2>4. w.stage = stage /\ w.key = val[r].key /\ w.at = val[r].at
    BY <2>3
  <2>5. LookupOf(w) = LookupOf(val[r])
    BY <2>2, <2>4 DEF LookupOf, Looking, Fetches
  <2> QED
    BY <1>c, <2>1, <2>2, <2>5
<1>6. ASSUME NEW r \in Requests, Unlock(r) PROVE Lookup!Next
  <2>1. val[r].key \in cache.keys \cap Usable
    BY <1>6, <1>a DEF Unlock, TypeInv, ReadersHoldCachedKey, HoldsRead
  <2>2. Lookup!Accept(r) \/ Lookup!Garble(r)
    BY <1>6, <2>1, LookFinds DEF Unlock
  <2> QED
    BY <2>2 DEF Lookup!Next
<1>7. ASSUME NEW r \in Requests, MissFirst(r) PROVE Lookup!Next
  <2> DEFINE w == [stage |-> "fetching", key |-> val[r].key,
                   began |-> Version, oldest |-> OldestUnderWay]
             a == [stage |-> "refresh", key |-> val[r].key, began |-> Version]
  <2>1. Goto(r, w) /\ UNCHANGED <<history, cache>>
    BY <1>7 DEF MissFirst
  <2>2. LookupOf(w) = a
    BY DEF LookupOf, Looking, Fetches
  <2>3. /\ Lookups[r].stage = "look" /\ Lookups[r].at = "first"
        /\ Lookups[r].key = val[r].key
    BY <1>7, <1>a, <1>b, LookupFields DEF MissFirst
  <2>4. ~ Lookup!Found(val[r].key)
    BY <1>7, FoundInCache DEF MissFirst, Missing
  <2> HIDE DEF w
  <2>5. Lookups' = [Lookups EXCEPT ![r] = a]
    BY <1>a, <2>1, <2>2, LookupMoved
  <2>6. Lookup!Goto(r, a)
    BY <2>1, <2>5 DEF Lookup!Goto
  <2>7. Lookup!Turn(r)
    BY <2>3, <2>4, <2>6 DEF Lookup!Turn, Lookup!Version, Version
  <2> QED
    BY <2>7 DEF Lookup!Next
<1>8. ASSUME NEW r \in Requests, MissSecond(r) PROVE Lookup!Next
  <2> DEFINE w == Refused(val[r].key, "missing", val[r].oldest)
             a == [stage |-> "refused", key |-> val[r].key, why |-> "missing"]
  <2>1. Goto(r, w) /\ UNCHANGED <<history, cache>>
    BY <1>8 DEF MissSecond
  <2>2. LookupOf(w) = a
    BY DEF LookupOf, Looking, Fetches, Refused
  <2>3. /\ Lookups[r].stage = "look" /\ Lookups[r].at = "second"
        /\ Lookups[r].key = val[r].key
    BY <1>8, <1>a, <1>b, LookupFields DEF MissSecond
  <2>4. ~ Lookup!Found(val[r].key)
    BY <1>8, FoundInCache DEF MissSecond, Missing
  <2> HIDE DEF w
  <2>5. Lookups' = [Lookups EXCEPT ![r] = a]
    BY <1>a, <2>1, <2>2, LookupMoved
  <2>6. Lookup!Goto(r, a)
    BY <2>1, <2>5 DEF Lookup!Goto
  <2>7. Lookup!Refuse(r)
    BY <2>3, <2>4, <2>6 DEF Lookup!Refuse
  <2> QED
    BY <2>7 DEF Lookup!Next
<1>9. ASSUME NEW r \in Requests, IdpAnswers(r) PROVE UNCHANGED Lookup!vars
  <2> DEFINE w == [stage |-> "fetched", key |-> val[r].key, began |-> val[r].began,
                   oldest |-> val[r].oldest, served |-> Version]
  <2>1. Goto(r, w) /\ UNCHANGED <<history, cache>> /\ val[r].stage = "fetching"
    BY <1>9 DEF IdpAnswers
  <2>2. LookupOf(w) = [stage |-> "refresh", key |-> val[r].key, began |-> val[r].began]
    BY DEF LookupOf, Looking, Fetches
  <2>3. LookupOf(val[r]) = LookupOf(w)
    BY <1>a, <2>1, <2>2, LookupFields
  <2> QED
    BY <1>c, <2>1, <2>3
<1>10. ASSUME NEW r \in Requests, AwaitLock(r) PROVE UNCHANGED Lookup!vars
  <2> DEFINE w == [val[r] EXCEPT !.stage = "locking"]
  <2>1. Goto(r, w) /\ UNCHANGED <<history, cache>> /\ val[r].stage = "fetched"
    BY <1>10 DEF AwaitLock
  <2>2. val[r] \in [stage : {"fetched", "locking"}, key : Keys, began : Nat,
                    oldest : Nat, served : Nat]
    BY <1>a, <2>1, ValidationFields
  <2>3. w.stage = "locking" /\ w.key = val[r].key /\ w.began = val[r].began
    BY <2>2
  <2>4. LookupOf(val[r]) = LookupOf(w)
    BY <2>1, <2>3 DEF LookupOf, Looking, Fetches
  <2> QED
    BY <1>c, <2>1, <2>4
<1>11. ASSUME NEW r \in Requests, FetchFails(r) PROVE Lookup!Next
  <2> DEFINE w == Refused(val[r].key, "fetch", val[r].oldest)
             a == [stage |-> "refused", key |-> val[r].key, why |-> "fetch"]
  <2>1. Goto(r, w) /\ UNCHANGED <<history, cache>>
    BY <1>11 DEF FetchFails
  <2>2. LookupOf(w) = a
    BY DEF LookupOf, Looking, Fetches, Refused
  <2>3. Lookups[r].stage = "refresh" /\ Lookups[r].key = val[r].key
    BY <1>11, <1>a, <1>b, LookupFields DEF FetchFails
  <2> HIDE DEF w
  <2>4. Lookups' = [Lookups EXCEPT ![r] = a]
    BY <1>a, <2>1, <2>2, LookupMoved
  <2>5. Lookup!Goto(r, a)
    BY <2>1, <2>4 DEF Lookup!Goto
  <2>6. Lookup!Fail(r)
    BY <2>3, <2>5 DEF Lookup!Fail
  <2> QED
    BY <2>6 DEF Lookup!Next
<1>12. ASSUME NEW r \in Requests, Install(r) PROVE Lookup!Next
  <2> DEFINE w == [stage |-> "look", key |-> val[r].key, at |-> "second",
                   oldest |-> val[r].oldest]
             a == [stage |-> "look", key |-> val[r].key, at |-> "second"]
  <2>1. Goto(r, w) /\ UNCHANGED history /\ val[r].stage = "locking"
    BY <1>12 DEF Install, Again
  <2>2. LookupOf(w) = a
    BY DEF LookupOf, Looking, Fetches
  <2>3. /\ Lookups[r].stage = "refresh" /\ Lookups[r].key = val[r].key
        /\ Lookups[r].began = val[r].began
    BY <1>a, <1>b, <2>1, LookupFields
  <2>4. cache'.version = val[r].served
    BY <1>12 DEF Install
  <2>5. val[r].served \in val[r].began .. Version
    <3>1. val[r].began <= val[r].served /\ val[r].served <= Version
      BY <2>1 DEF CacheInv, Framed, FetchesBringNoOlder
    <3>2. val[r].began \in Nat /\ val[r].served \in Nat /\ Version \in Nat
      BY <1>a, <2>1, Numbers DEF Fetches
    <3> QED
      BY <3>1, <3>2
  <2> HIDE DEF w
  <2>6. Lookups' = [Lookups EXCEPT ![r] = a]
    BY <1>a, <2>1, <2>2, LookupMoved
  <2>7. Lookup!Refresh(r)
    BY <2>1, <2>3, <2>4, <2>5, <2>6 DEF Lookup!Refresh, Lookup!Version, Version
  <2> QED
    BY <2>7 DEF Lookup!Next
<1>13. CASE UNCHANGED vars
  BY <1>13 DEF vars, Lookup!vars, Lookups
<1> QED
  BY <1>1, <1>2, <1>3, <1>4, <1>5, <1>6, <1>7, <1>8, <1>9, <1>10, <1>11, <1>12, <1>13
  DEF Next, Look, Run

(***************************************************************************)
(* Atomicity: ValidateJWT implements KeyLookup.  The read lock makes the   *)
(* look and the lazy parsing of the entry one step, because no refresh     *)
(* swaps the key set in between; and however the fetches overlap, a        *)
(* refresh brings a key set no older than the one that was published when  *)
(* it began.                                                               *)
(***************************************************************************)
THEOREM Atomicity == Spec => LookupSpec
<1>1. Init => Lookup!Init
  BY DEF Init, Lookup!Init, Lookups, LookupOf, Looking, Fetches, Idle, Lookup!Idle
<1> QED
  BY <1>1, LookupStep, CacheInvariant, PTL DEF Spec, LookupSpec, Lookup!Spec
================================================================================
