-------------------------- MODULE SealedTokensProofs --------------------------
(***************************************************************************)
(* Lemmas about the arithmetic of token lifetimes, for every value of the  *)
(* defaults: the proofs about the components that issue and check sealed   *)
(* tokens cite them.                                                       *)
(***************************************************************************)
EXTENDS SealedTokens, TLAPS

\* Truncation to whole seconds keeps the order.
LEMMA UnixOrder ==
    ASSUME NEW a \in Int, NEW b \in Int, a <= b
    PROVE  /\ Unix(a) \in Int /\ Unix(b) \in Int
           /\ Unix(a) <= Unix(b)
BY SMT DEF Unix

\* It stays natural, and is never off by a second or more.
LEMMA UnixMonotone ==
    ASSUME NEW a \in Nat, NEW b \in Nat, a <= b
    PROVE  /\ Unix(a) \in Nat
           /\ Unix(a) <= Unix(b)
           /\ 2 * Unix(a) <= a
           /\ a < 2 * Unix(a) + 2
BY SMT DEF Unix

\* Seconds of a natural clock value are natural.
LEMMA UnixNat == \A a \in Nat : Unix(a) \in Nat
BY UnixMonotone

\* A whole second, converted to a clock value and back.
LEMMA UnixOfSecond == \A s \in Nat : /\ Unix(2 * s) = s
                                     /\ Unix(2 * s + 2) = s + 1
BY SMT DEF Unix

\* Two half seconds later it is the next second.
LEMMA UnixNextSecond == \A a \in Nat : Unix(a + 2) = Unix(a) + 1
BY SMT DEF Unix

\* The configured lifetimes, with their defaults, are natural numbers.
LEMMA EffectiveNat ==
    ASSUME NEW c \in [ttl : Int, max : Int]
    PROVE  EffectiveTTL(c) \in Nat /\ EffectiveMaxTTL(c) \in Nat
BY SMT, DefaultsAssumption DEF EffectiveTTL, EffectiveMaxTTL

\* The earlier of two times is one of them, and not after either.
LEMMA EarlierProps ==
    ASSUME NEW a \in Nat, NEW b \in Nat
    PROVE  /\ Earlier(a, b) \in Nat
           /\ Earlier(a, b) <= a
           /\ Earlier(a, b) <= b
           /\ Earlier(a, b) \in {a, b}
BY SMT DEF Earlier
===============================================================================
