----------------------------- MODULE SealedTokens -----------------------------
(***************************************************************************)
(* The sealed tokens of the proxy and the arithmetic of their lifetimes.   *)
(*                                                                         *)
(* A token the proxy hands out is an AES-GCM ciphertext that only the      *)
(* proxy can write, so a sealed blob is modelled by its content: the       *)
(* plaintext the proxy put into it.  The proxy keeps no table of them.     *)
(*                                                                         *)
(* Time.  time.Now() has sub-second precision while the token data carries *)
(* whole Unix seconds, and some comparisons are made in one unit and some  *)
(* in the other.  A clock value is a number of half seconds, the coarsest  *)
(* unit that still tells the two apart; Unix(t) is the truncation.         *)
(***************************************************************************)
EXTENDS Integers

CONSTANTS DefaultTTL,      \* defaultTokenTTL, used when token_ttl <= 0
          DefaultMaxTTL    \* defaultTokenMaxTTL, used when token_max_ttl <= 0

ASSUME DefaultsAssumption == /\ DefaultTTL \in Nat \ {0}
                             /\ DefaultMaxTTL \in Nat \ {0}

\* time.Time.Unix(): the whole second a clock value falls in.
Unix(t) == t \div 2

\* token_ttl and token_max_ttl as the code reads them out of its Proxy config.
EffectiveTTL(c) == IF c.ttl <= 0 THEN DefaultTTL ELSE c.ttl
\* Mutant: token_max_ttl is used as configured, without its default.
EffectiveMaxTTL_NoDefault(c) == c.max

EffectiveMaxTTL(c) == IF c.max <= 0 THEN DefaultMaxTTL ELSE c.max

Earlier(a, b) == IF a <= b THEN a ELSE b

\* The exp of a token that has none, or that is no JWT at all.
NoExp == -1

\* The plaintext of a self-issued token.  sub stands for the claims that were
\* mapped at login and are carried along unchanged.
SelfIssued(sub, iat, exp) == [type |-> "si", sub |-> sub, iat |-> iat, exp |-> exp]

\* The two blobs sealed by issueSelfIssuedTokens at time t under config c.
IssuedAccess(sub, t, c)  == SelfIssued(sub, Unix(t), Unix(t + EffectiveTTL(c)))
IssuedRefresh(sub, t, c) == SelfIssued(sub, Unix(t), Unix(t + EffectiveMaxTTL(c)))

\* Mutant: the second of expiry itself still refreshes.
MayRefresh_Inclusive(b, t) == b.type = "si" /\ ~(Unix(t) > b.exp)

\* refreshSelfIssuedToken: the blob must carry the self-issued type tag and its
\* second of expiry must lie in the future; either half of the issued pair decodes.
MayRefresh(b, t) == b.type = "si" /\ ~(Unix(t) >= b.exp)

\* Mutants: the new access token is not clamped to the refresh token's expiry;
\* it takes the time of the refresh for the time of the login.
RefreshedAccess_NoClamp(b, t, c) ==
    SelfIssued(b.sub, b.iat, Unix(t + EffectiveTTL(c)))
RefreshedAccess_NewLogin(b, t, c) ==
    SelfIssued(b.sub, Unix(t), Earlier(Unix(t + EffectiveTTL(c)), b.exp))

\* The access token refreshSelfIssuedToken seals out of the blob b.
RefreshedAccess(b, t, c) ==
    SelfIssued(b.sub, b.iat, Earlier(Unix(t + EffectiveTTL(c)), b.exp))

\* Mutants: a self-issued token ends with the start of its last second; its
\* expiry is not looked at.
Resolves_Exclusive(b, t) ==
    \/ b.type = "si" /\ ~(Unix(t) >= b.exp)
    \/ b.type # "si" /\ b.exp # NoExp /\ ~(2 * b.exp < t)
Resolves_NoExpiry(b, t) ==
    \/ b.type = "si"
    \/ b.type # "si" /\ b.exp # NoExp /\ ~(2 * b.exp < t)

\* resolveToken: a self-issued blob is compared in whole seconds.  Any other
\* plaintext is parsed as a JWT, whoever it was sealed for: an access token of the
\* IdP or, if it is one, a refresh token.  Its exp (a whole second) is compared with
\* the exact clock, with no leeway; a JWT without exp, and what is no JWT, is refused.
Resolves(b, t) ==
    \/ b.type = "si" /\ ~(Unix(t) > b.exp)
    \/ b.type # "si" /\ b.exp # NoExp /\ ~(2 * b.exp < t)
===============================================================================
