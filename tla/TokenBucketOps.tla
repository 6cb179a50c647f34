--------------------------- MODULE TokenBucketOps ---------------------------
(***************************************************************************)
(* The refill bucket behind Account.RPM and Def.RPM, as pure operators     *)
(* (internal/provider/provider.go, type tokenBucket).  A bucket is the     *)
(* record [tokens, last].  The code keeps a fractional token count; here   *)
(* tokens are counted in units, TokenUnit of them making one whole token,  *)
(* and a bucket of rate r gains r units per clock tick, so that counts are *)
(* natural numbers and exact.  A tick is the nanosecond that time.Duration *)
(* counts: a wait is truncated to whole ticks.                             *)
(* Time 0 stands for Go's zero time.Time: a bucket nobody took from yet.   *)
(***************************************************************************)
EXTENDS Integers

CONSTANT TokenUnit

ASSUME TokenUnitAssumption == TokenUnit \in Nat \ {0}

Bucket == [tokens : Nat, last : Nat]

\* The time in which a bucket of rate r gains n units, as a Duration.
TicksFor(n, r) == n \div r

\* A new bucket holds two tokens and has not been used.
newTokenBucket == [tokens |-> 2 * TokenUnit, last |-> 0]

\* What the bucket holds once the ticks since its last use are added up.
Credit(b, r, now) == IF b.last = 0 THEN b.tokens
                                   ELSE b.tokens + (now - b.last) * r

\* Plausible bugs of take, for checking that properties see them.
Mut_take_NoStamp(b, r, now) ==
  LET c == Credit(b, r, now)
  IN  [tokens |-> IF c >= TokenUnit THEN c - TokenUnit ELSE c,
       last |-> IF b.last = 0 THEN now ELSE b.last]

\* take: bring the bucket up to date and drain one token when it has one.
take(b, r, now) ==
  LET c == Credit(b, r, now)
  IN  [tokens |-> IF c >= TokenUnit THEN c - TokenUnit ELSE c, last |-> now]

\* A plausible bug: the time since the last use is taken off twice.
Mut_refillAt_Twice(b, r, now) ==
  IF b.last = 0 \/ Credit(b, r, now) >= TokenUnit
  THEN now
  ELSE b.last + TicksFor(TokenUnit - Credit(b, r, now), r)

(* refillAt: now when a token is there, otherwise the instant the code     *)
(* announces.  The shortfall it divides is that of the stored count, not   *)
(* of the count brought up to date, exactly as in the source.  Less than a *)
(* tick's worth short reads as now.                                        *)
refillAt(b, r, now) ==
  IF b.last = 0 \/ Credit(b, r, now) >= TokenUnit
  THEN now
  ELSE now + TicksFor(TokenUnit - b.tokens, r)
=============================================================================
