---------------------------- MODULE LimitProofs ----------------------------
(***************************************************************************)
(* Proofs about four of the things that say no to a request.               *)
(*                                                                         *)
(* TokenBucket, for every token unit, rate and time bound: TypeOK /\       *)
(* Conserved is inductive; the rate promise follows from it.               *)
(*                                                                         *)
(* ModelBench, for any models, accounts, workers, cap and windows: the     *)
(* strikes counted are timeouts that lie behind the start of the window    *)
(* (InOneWindow), so a trip has its evidence in one window; and room is    *)
(* made in the map before an entry is added, of running benches one that   *)
(* ends soonest.                                                           *)
(*                                                                         *)
(* RateLimiter, for any requests, window, limits and lag: whatever was let *)
(* in or observed since a recent second is in the ring under a stamp that  *)
(* is at most a lag older (Behind), and the ring never holds more than Rpm *)
(* slots; a window is a stretch of one of them.  What a key may still      *)
(* overshoot is bounded by the requests that the token limit let through   *)
(* and that have not reported (Overshoot).                                 *)
(*                                                                         *)
(* SubquotaMeters, for any answers of the vendors, whatever numbers they   *)
(* carry: a reading is full exactly when a meter has run out, where a      *)
(* number was floored, and when one is within half a percent of it, where  *)
(* one was rounded; each dialect turns its meters into readings one by     *)
(* one.                                                                    *)
(***************************************************************************)
EXTENDS TokenBucket, ModelBench, RateLimiter, SubquotaMeters, FiniteSetTheorems,
        SequenceTheorems, WellFoundedInduction, TLAPS

BucketInv == TypeOK /\ Conserved

(* A wait is truncated: r units a tick for TicksFor(n, r) ticks make at    *)
(* most n units, and one tick more makes them (tokenBucket.refillAt).      *)
LEMMA TicksForFloors ==
  ASSUME NEW n \in Nat, NEW r \in Nat \ {0}
  PROVE  /\ TicksFor(n, r) \in Nat
         /\ TicksFor(n, r) * r <= n
         /\ n < (TicksFor(n, r) + 1) * r
<1> DEFINE q == n \div r
<1>1. q \in Int /\ n = r * q + (n % r) /\ (n % r) \in 0 .. (r - 1)
  OBVIOUS
<1>2. q * r = r * q /\ (q + 1) * r = r * q + r
  BY <1>1
<1>3. q >= 0
  BY <1>1
<1> QED
  BY <1>1, <1>2, <1>3 DEF TicksFor

\* A bucket brought up to date is a natural number of units.
LEMMA CreditNat ==
  ASSUME NEW b \in Bucket, NEW r \in Nat, NEW t \in Nat, b.last <= t
  PROVE  Credit(b, r, t) \in Nat
<1>1. t - b.last \in Nat
  BY DEF Bucket
<1>2. (t - b.last) * r \in Nat
  BY <1>1
<1> QED
  BY <1>2 DEF Credit, Bucket

\* Without a whole token the gate of a pick (refillAt says "now") is open only
\* in the very tick of the last use, with less than a tick's refill missing.
LEMMA GateWithoutToken ==
  ASSUME TypeOK, Conserved, refillAt(bucket, Rate, now) <= now,
         Credit(bucket, Rate, now) < TokenUnit
  PROVE  bucket.last = now /\ TokenUnit - bucket.tokens < Rate
<1> DEFINE n == TokenUnit - bucket.tokens
           k == TicksFor(n, Rate)
<1>1. bucket.tokens \in Nat /\ bucket.last \in Nat /\ now \in Nat /\ bucket.last <= now
  BY DEF TypeOK, Bucket
<1>2. (now - bucket.last) * Rate \in Nat
  BY <1>1, TokenBucketAssumption
<1>3. bucket.last # 0
  BY TokenUnitAssumption DEF Conserved, Credit
<1>4. bucket.tokens + (now - bucket.last) * Rate < TokenUnit
  BY <1>3 DEF Credit
<1>5. n \in Nat
  BY <1>1, <1>2, <1>4, TokenUnitAssumption
<1>6. k \in Nat /\ n < (k + 1) * Rate
  BY <1>5, TicksForFloors, TokenBucketAssumption
<1>7. refillAt(bucket, Rate, now) = now + k
  BY <1>1, <1>2, <1>3, <1>4, TokenUnitAssumption DEF refillAt, Credit
<1>8. k = 0
  BY <1>1, <1>6, <1>7
<1>9. n < Rate
  BY <1>6, <1>8, TokenBucketAssumption
<1>10. ~(now - bucket.last >= 1)
  <2> SUFFICES ASSUME now - bucket.last >= 1 PROVE FALSE
    OBVIOUS
  <2>1. (now - bucket.last) * Rate >= Rate
    BY <1>1, TokenBucketAssumption
  <2> QED
    BY <1>1, <1>2, <1>4, <1>9, <2>1, TokenUnitAssumption, TokenBucketAssumption
<1> QED
  BY <1>1, <1>9, <1>10

LEMMA InitBucket == Init => BucketInv
  BY TokenUnitAssumption, TokenBucketAssumption
     DEF Init, BucketInv, TypeOK, Conserved, Bucket, newTokenBucket

\* A tick changes nothing but the clock.
LEMMA TickBucket == BucketInv /\ Tick => BucketInv'
<1> SUFFICES ASSUME BucketInv, Tick PROVE BucketInv'
  OBVIOUS
<1>1. bucket' = bucket /\ granted' = granted /\ first' = first /\ now' = now + 1
  BY DEF Tick
<1>2. TypeOK'
  BY <1>1 DEF BucketInv, TypeOK, Bucket
<1>3. Conserved'
  BY <1>1 DEF BucketInv, Conserved
<1> QED
  BY <1>2, <1>3 DEF BucketInv

\* A pick drains a token, and conservation accounts for the refill.
LEMMA GrantBucket == BucketInv /\ Grant => BucketInv'
<1> SUFFICES ASSUME BucketInv, Grant PROVE BucketInv'
  OBVIOUS
<1> DEFINE c == Credit(bucket, Rate, now)
<1>1. c \in Nat
  BY CreditNat, TokenBucketAssumption DEF BucketInv, TypeOK
<1>2. CASE c >= TokenUnit
  <2>1. bucket' = [tokens |-> c - TokenUnit, last |-> now]
    BY <1>2 DEF Grant, take
  <2>2. c - TokenUnit \in Nat
    BY <1>1, <1>2, TokenUnitAssumption
  <2>3. granted' = granted + 1
    BY <1>2 DEF Grant
  <2>4. TypeOK'
    BY <2>1, <2>2, <2>3 DEF BucketInv, TypeOK, Grant, Bucket
  <2>5. CASE first = 0
    <3>1. bucket.last = 0 /\ granted = 0 /\ c = 2 * TokenUnit
      BY <2>5 DEF BucketInv, Conserved, Credit
    <3> QED
      BY <2>1, <2>3, <2>4, <2>5, <3>1, TokenUnitAssumption, TokenBucketAssumption
         DEF BucketInv, TypeOK, Conserved, Grant
  <2>6. CASE first # 0
    <3>1. c = bucket.tokens + (now - bucket.last) * Rate
      BY <2>6 DEF BucketInv, Conserved, Credit
    <3>2. first' = first /\ bucket'.last = now /\ bucket'.tokens = c - TokenUnit /\ now # 0
      BY <2>1, <2>6 DEF Grant, BucketInv, TypeOK
    <3>3. Rate * (now - first) = Rate * (bucket.last - first) + (now - bucket.last) * Rate
      BY TokenBucketAssumption DEF BucketInv, TypeOK, Bucket
    <3>4. (granted + 1) * TokenUnit = granted * TokenUnit + TokenUnit
      BY TokenUnitAssumption DEF BucketInv, TypeOK
    <3>5. granted * TokenUnit + bucket.tokens = 2 * TokenUnit + Rate * (bucket.last - first)
      BY DEF BucketInv, Conserved
    <3>6. granted * TokenUnit \in Nat /\ Rate * (bucket.last - first) \in Int
          /\ (now - bucket.last) * Rate \in Int /\ bucket.tokens \in Nat
      BY TokenUnitAssumption, TokenBucketAssumption DEF BucketInv, TypeOK, Bucket
    <3>7. granted' * TokenUnit + bucket'.tokens = 2 * TokenUnit + Rate * (bucket'.last - first')
      BY <2>3, <3>1, <3>2, <3>3, <3>4, <3>5, <3>6, TokenUnitAssumption
    <3> QED
      BY <2>4, <2>6, <3>2, <3>7 DEF BucketInv, Conserved
  <2> QED
    BY <2>4, <2>5, <2>6 DEF BucketInv
<1>3. CASE ~(c >= TokenUnit)
  <2>1. bucket.last = now /\ c < TokenUnit
    BY <1>1, <1>3, GateWithoutToken, TokenUnitAssumption DEF BucketInv, Grant
  <2>2. bucket.tokens \in Nat /\ now \in Nat \ {0}
    BY DEF BucketInv, TypeOK, Bucket
  <2>3. (now - bucket.last) * Rate = 0
    BY <2>1, <2>2, TokenBucketAssumption
  <2>4. c = bucket.tokens
    BY <2>1, <2>2, <2>3 DEF Credit
  <2>5. bucket' = [tokens |-> bucket.tokens, last |-> bucket.last]
    BY <1>3, <2>1, <2>4 DEF Grant, take
  <2>6. bucket' = bucket
    BY <2>5 DEF BucketInv, TypeOK, Bucket
  <2>7. first' = first /\ granted' = granted /\ now' = now
    BY <1>3, <2>1, <2>2 DEF Grant, BucketInv, Conserved
  <2> QED
    BY <2>6, <2>7 DEF BucketInv, TypeOK, Conserved
<1> QED
  BY <1>2, <1>3

LEMMA StepBucket == BucketInv /\ [Next]_vars => BucketInv'
<1> SUFFICES ASSUME BucketInv, [Next]_vars PROVE BucketInv'
  OBVIOUS
<1>1. CASE Tick
  BY <1>1, TickBucket
<1>2. CASE Grant
  BY <1>2, GrantBucket
<1>3. CASE UNCHANGED vars
  BY <1>3 DEF BucketInv, TypeOK, Conserved, vars
<1> QED
  BY <1>1, <1>2, <1>3 DEF Next

(* The types hold, and every unit a request drained is accounted for       *)
(* (newTokenBucket, tokenBucket.take).                                     *)
THEOREM BucketConserved == Spec => [](TypeOK /\ Conserved)
<1> QED
  BY InitBucket, StepBucket, PTL DEF Spec, BucketInv

(* The governor's promise: never more than the initial two tokens plus the *)
(* refill of the elapsed time have been taken, and nobody passes without a *)
(* token but in the tick of the request before it.                         *)
THEOREM RateNeverExceeded == Spec => []RateHeld
<1>1. BucketInv => RateHeld
  <2> SUFFICES ASSUME BucketInv PROVE RateHeld
    OBVIOUS
  <2>1. Rate * (bucket.last - first) <= Rate * (now - first)
    BY TokenBucketAssumption DEF BucketInv, TypeOK, Bucket
  <2>2. granted * TokenUnit \in Nat /\ bucket.tokens \in Nat
        /\ Rate * (bucket.last - first) \in Int /\ Rate * (now - first) \in Int
    BY TokenUnitAssumption, TokenBucketAssumption DEF BucketInv, TypeOK, Bucket
  <2>3. granted * TokenUnit <= 2 * TokenUnit + Rate * (now - first)
    BY <2>1, <2>2, TokenUnitAssumption DEF BucketInv, Conserved
  <2> QED
    BY <2>3, GateWithoutToken DEF BucketInv, RateHeld
<1> QED
  BY <1>1, InitBucket, StepBucket, PTL DEF Spec

(* An announced refill instant is less than a tick early, and late by no   *)
(* more than the time since the last use: whoever comes behind it finds a  *)
(* whole token.                                                            *)
THEOREM RefillOnTime == Spec => []RefillSuffices
<1>1. BucketInv => RefillSuffices
  <2> SUFFICES ASSUME BucketInv PROVE RefillSuffices
    OBVIOUS
  <2> DEFINE n == TokenUnit - bucket.tokens
             k == TicksFor(n, Rate)
             d == now - bucket.last
  <2>0. /\ bucket.tokens \in Nat /\ bucket.last \in Nat /\ now \in Nat /\ d \in Nat
        /\ TokenUnit \in Nat \ {0} /\ Rate \in Nat \ {0}
    BY TokenUnitAssumption, TokenBucketAssumption DEF BucketInv, TypeOK, Bucket
  <2>1. CASE bucket.last = 0
    <3>1. refillAt(bucket, Rate, now) = now
      BY <2>1 DEF refillAt
    <3> QED
      BY <2>0, <2>1, <3>1 DEF BucketInv, TypeOK, Conserved, RefillSuffices, Credit
  <2>2. CASE bucket.last # 0 /\ Credit(bucket, Rate, now) >= TokenUnit
    <3>1. refillAt(bucket, Rate, now) = now
      BY <2>2 DEF refillAt
    <3>2. (now + 1) - bucket.last = d + 1 /\ (d + 1) * Rate = d * Rate + Rate /\ d * Rate \in Nat
      BY <2>0
    <3>3. Credit(bucket, Rate, now + 1) >= TokenUnit
      BY <2>0, <2>2, <3>2 DEF Credit
    <3> QED
      BY <2>0, <3>1, <3>3 DEF RefillSuffices
  <2>3. CASE bucket.last # 0 /\ ~(Credit(bucket, Rate, now) >= TokenUnit)
    <3>1. d * Rate \in Nat
      BY <2>0
    <3>2. n \in Nat
      BY <2>0, <2>3, <3>1 DEF Credit
    <3>3. k \in Nat /\ k * Rate <= n /\ n < (k + 1) * Rate
      BY <2>0, <3>2, TicksForFloors
    <3>4. refillAt(bucket, Rate, now) = now + k
      BY <2>3 DEF refillAt
    <3> HIDE DEF k
    <3>5. /\ Credit(bucket, Rate, now + k + 1) = bucket.tokens + ((now + k + 1) - bucket.last) * Rate
          /\ Credit(bucket, Rate, now + k - d - 1)
               = bucket.tokens + ((now + k - d - 1) - bucket.last) * Rate
      BY <2>3 DEF Credit
    <3>6. /\ ((now + k + 1) - bucket.last) * Rate = d * Rate + (k + 1) * Rate
          /\ ((now + k - d - 1) - bucket.last) * Rate = k * Rate - Rate
      BY <2>0, <3>3
    <3>7. k * Rate \in Nat /\ (k + 1) * Rate \in Nat
      BY <2>0, <3>3
    <3>8. /\ Credit(bucket, Rate, now + k + 1) >= TokenUnit
          /\ Credit(bucket, Rate, now + k - d - 1) < TokenUnit
      BY <2>0, <3>1, <3>2, <3>3, <3>5, <3>6, <3>7
    <3> QED
      BY <2>0, <3>3, <3>4, <3>8 DEF RefillSuffices
  <2> QED
    BY <2>1, <2>2, <2>3
<1> QED
  BY <1>1, InitBucket, StepBucket, PTL DEF Spec
-----------------------------------------------------------------------------
(* The benches of models.                                                  *)

\* What a worker is about to do.
Stages ==
  {Idle} \cup [do : {"promote", "wall"}, model : Models]
         \cup [do : {"storm"}, model : Models, seen : Seq(Nat)]

\* The sets the variables of ModelBench range over.
BenchTypes ==
  /\ benchNow \in Nat \ {0}
  /\ modelBench \in [Models -> Nat]
  /\ htStrikes \in [Models -> [count : 0 .. (StormStrikes - 1), since : Nat]]
  /\ walls \in [Models -> [acct : Accounts \cup {NoAccount}, at : Nat]]
  /\ stage \in [Workers -> Stages]
  /\ timeouts \in [Models -> Seq(Nat)]
  /\ struck \in [Models -> Nat]
  /\ proofs \in [Models -> Nat]

\* The strikes counted against a model are its latest timeouts, none of them
\* before the window they are counted in.
InOneWindow ==
  \A m \in Models :
     /\ htStrikes[m].count <= Len(timeouts[m])
     /\ \A i \in 1 .. Len(timeouts[m]) :
           i > Len(timeouts[m]) - htStrikes[m].count => timeouts[m][i] >= htStrikes[m].since

BenchInv ==
  /\ BenchTypes /\ BenchTypeOK /\ InOneWindow
  /\ IsFiniteSet(Entries(modelBench)) /\ MapBounded
  /\ StormIsReal /\ WallReproven

\* The sweep leaves nothing but running benches.
Unexpired == [m \in Models |-> IF modelBench[m] <= benchNow THEN 0 ELSE modelBench[m]]

(* Room made is room for one: whichever way BenchModel makes it, the       *)
(* entries left are entries of the map, fewer than its cap.                *)
LEMMA RoomMade ==
  ASSUME BenchTypes, IsFiniteSet(Entries(modelBench)), MapBounded, NEW b \in MadeRoom
  PROVE  /\ b \in [Models -> Nat] /\ IsFiniteSet(Entries(b))
         /\ Cardinality(Entries(b)) \in Nat /\ Cardinality(Entries(b)) < MaxBenches
<1> USE BenchAssumption
<1>1. /\ Unexpired \in [Models -> Nat] /\ IsFiniteSet(Entries(Unexpired))
      /\ Cardinality(Entries(Unexpired)) \in Nat /\ Cardinality(Entries(modelBench)) \in Nat
      /\ Cardinality(Entries(Unexpired)) <= Cardinality(Entries(modelBench))
  <2>1. Unexpired \in [Models -> Nat]
    BY DEF BenchTypes, Unexpired
  <2>2. Entries(Unexpired) \subseteq Entries(modelBench)
    BY DEF BenchTypes, Unexpired, Entries
  <2> QED
    BY <2>1, <2>2, FS_Subset, FS_CardinalityType
<1>2. CASE Cardinality(Entries(modelBench)) < MaxBenches /\ b = modelBench
  BY <1>1, <1>2 DEF BenchTypes
<1>3. CASE Cardinality(Entries(Unexpired)) < MaxBenches /\ b = Unexpired
  BY <1>1, <1>3
<1>4. ASSUME NEW k \in Entries(Unexpired), b = [Unexpired EXCEPT ![k] = 0]
      PROVE  /\ b \in [Models -> Nat] /\ IsFiniteSet(Entries(b))
             /\ Cardinality(Entries(b)) \in Nat /\ Cardinality(Entries(b)) < MaxBenches
  <2>1. b \in [Models -> Nat]
    BY <1>1, <1>4
  <2>2. Entries(b) = Entries(Unexpired) \ {k}
    BY <1>1, <1>4 DEF Entries
  <2>3. /\ IsFiniteSet(Entries(Unexpired) \ {k})
        /\ Cardinality(Entries(Unexpired) \ {k}) = Cardinality(Entries(Unexpired)) - 1
    BY <1>1, FS_RemoveElement
  <2>4. IsFiniteSet(Entries(b)) /\ Cardinality(Entries(b)) = Cardinality(Entries(Unexpired)) - 1
    BY <2>2, <2>3
  <2>5. Cardinality(Entries(b)) \in Nat
    BY <2>4, FS_CardinalityType
  <2> QED
    BY <1>1, <2>1, <2>4, <2>5 DEF MapBounded
<1> QED
  BY <1>2, <1>3, <1>4 DEF MadeRoom, Unexpired

\* Benching a model keeps the map within its cap.
LEMMA BenchFits ==
  ASSUME BenchTypes, IsFiniteSet(Entries(modelBench)), MapBounded,
         NEW m \in Models, NEW ttl \in Nat, BenchModel(m, ttl)
  PROVE  /\ modelBench' \in [Models -> Nat]
         /\ IsFiniteSet(Entries(modelBench)') /\ MapBounded'
<1> USE BenchAssumption
<1> DEFINE until == benchNow + (IF ttl = 0 THEN BenchTTL ELSE ttl)
<1>1. PICK b \in MadeRoom : modelBench' = [b EXCEPT ![m] = IF until > b[m] THEN until ELSE b[m]]
  BY DEF BenchModel
<1>2. /\ b \in [Models -> Nat] /\ IsFiniteSet(Entries(b))
      /\ Cardinality(Entries(b)) \in Nat /\ Cardinality(Entries(b)) < MaxBenches
  BY RoomMade
<1>3. benchNow \in Nat
  BY DEF BenchTypes
<1>4. modelBench' \in [Models -> Nat]
  <2>1. until \in Nat
    BY <1>3
  <2>2. (IF until > b[m] THEN until ELSE b[m]) \in Nat
    BY <1>2, <2>1
  <2> HIDE DEF until
  <2> QED
    BY <1>1, <1>2, <2>2
<1>5. Entries(modelBench)' \subseteq Entries(b) \cup {m}
  BY <1>1, <1>2 DEF Entries
<1>6. IsFiniteSet(Entries(b) \cup {m}) /\ Cardinality(Entries(b) \cup {m}) \in Nat
      /\ Cardinality(Entries(b) \cup {m}) <= MaxBenches
  <2>1. /\ IsFiniteSet(Entries(b) \cup {m})
        /\ Cardinality(Entries(b) \cup {m})
             = IF m \in Entries(b) THEN Cardinality(Entries(b)) ELSE Cardinality(Entries(b)) + 1
    BY <1>2, FS_AddElement
  <2> QED
    BY <1>2, <2>1
<1>7. /\ IsFiniteSet(Entries(modelBench)')
      /\ Cardinality(Entries(modelBench)') <= Cardinality(Entries(b) \cup {m})
  BY <1>5, <1>6, FS_Subset
<1>8. Cardinality(Entries(modelBench)') \in Nat
  BY <1>7, FS_CardinalityType
<1> QED
  BY <1>4, <1>6, <1>7, <1>8 DEF MapBounded

\* Removing entries keeps it within its cap, too.
LEMMA FewerFit ==
  ASSUME IsFiniteSet(Entries(modelBench)), MapBounded,
         Entries(modelBench)' \subseteq Entries(modelBench)
  PROVE  IsFiniteSet(Entries(modelBench)') /\ MapBounded'
<1>1. /\ IsFiniteSet(Entries(modelBench)')
      /\ Cardinality(Entries(modelBench)') <= Cardinality(Entries(modelBench))
  BY FS_Subset
<1>2. Cardinality(Entries(modelBench)') \in Nat /\ Cardinality(Entries(modelBench)) \in Nat
  BY <1>1, FS_CardinalityType
<1> QED
  BY <1>1, <1>2, BenchAssumption DEF MapBounded

LEMMA InitBench == BenchInit => BenchInv
<1> SUFFICES ASSUME BenchInit PROVE BenchInv
  OBVIOUS
<1>1. benchNow = 1 /\ StormStrikes \in Nat \ {0} /\ MaxBenches \in Nat \ {0}
  BY BenchAssumption DEF BenchInit
<1>2. \A m \in Models : /\ modelBench[m] = 0 /\ struck[m] = 0 /\ proofs[m] = 0
                        /\ htStrikes[m] = NoStorm /\ walls[m] = NoSight /\ timeouts[m] = <<>>
  BY DEF BenchInit
<1>3. BenchTypes
  <2>1. modelBench \in [Models -> Nat] /\ struck \in [Models -> Nat] /\ proofs \in [Models -> Nat]
    BY DEF BenchInit
  <2>2. NoStorm \in [count : 0 .. (StormStrikes - 1), since : Nat]
    BY <1>1 DEF NoStorm
  <2>3. NoSight \in [acct : Accounts \cup {NoAccount}, at : Nat]
    BY DEF NoSight
  <2>4. <<>> \in Seq(Nat)
    OBVIOUS
  <2>5. htStrikes \in [Models -> [count : 0 .. (StormStrikes - 1), since : Nat]]
    BY <2>2 DEF BenchInit
  <2>6. walls \in [Models -> [acct : Accounts \cup {NoAccount}, at : Nat]]
    BY <2>3 DEF BenchInit
  <2>7. timeouts \in [Models -> Seq(Nat)]
    BY <2>4 DEF BenchInit
  <2>8. stage \in [Workers -> Stages]
    BY DEF BenchInit, Stages
  <2> QED
    BY <1>1, <2>1, <2>5, <2>6, <2>7, <2>8 DEF BenchTypes
<1>4. BenchTypeOK
  BY <1>1, <1>2, <1>3 DEF BenchTypeOK, BenchTypes, NoStorm, NoSight
<1>5. InOneWindow
  BY <1>2 DEF InOneWindow, NoStorm
<1>6. Entries(modelBench) = {}
  BY <1>2 DEF Entries
<1>7. IsFiniteSet(Entries(modelBench)) /\ MapBounded
  <2>1. IsFiniteSet({}) /\ Cardinality({}) = 0
    BY FS_EmptySet
  <2> QED
    BY <1>1, <1>6, <2>1 DEF MapBounded
<1>8. StormIsReal
  BY DEF StormIsReal, BenchInit, Idle
<1>9. WallReproven
  BY <1>2 DEF WallReproven, NoSight
<1> QED
  BY <1>3, <1>4, <1>5, <1>7, <1>8, <1>9 DEF BenchInv

(* What holds of the map of benches after a step holds whatever the step   *)
(* was, so long as it only benches, cleans up or leaves the map alone.     *)
LEMMA BenchStepMap ==
  ASSUME BenchInv,
         \/ \E m \in Models, ttl \in Nat : BenchModel(m, ttl)
         \/ \E m \in Models :
              modelBench' = [modelBench EXCEPT ![m] = IF @ <= benchNow THEN 0 ELSE @]
         \/ modelBench' = modelBench
  PROVE  /\ modelBench' \in [Models -> Nat]
         /\ IsFiniteSet(Entries(modelBench)') /\ MapBounded'
<1> USE DEF BenchInv
<1>1. ASSUME NEW m \in Models, NEW ttl \in Nat, BenchModel(m, ttl)
      PROVE  /\ modelBench' \in [Models -> Nat]
             /\ IsFiniteSet(Entries(modelBench)') /\ MapBounded'
  BY <1>1, BenchFits
<1>2. ASSUME modelBench' \in [Models -> Nat],
             \A k \in Models : modelBench'[k] \in {0, modelBench[k]}
      PROVE  IsFiniteSet(Entries(modelBench)') /\ MapBounded'
  <2>1. Entries(modelBench)' \subseteq Entries(modelBench)
    BY <1>2 DEF Entries
  <2> QED
    BY <2>1, FewerFit
<1>3. ASSUME NEW m \in Models,
             modelBench' = [modelBench EXCEPT ![m] = IF @ <= benchNow THEN 0 ELSE @]
      PROVE  /\ modelBench' \in [Models -> Nat]
             /\ \A k \in Models : modelBench'[k] \in {0, modelBench[k]}
  BY <1>3 DEF BenchTypes
<1>4. CASE modelBench' = modelBench
  BY <1>4, <1>2 DEF BenchTypes
<1> QED
  BY <1>1, <1>2, <1>3, <1>4

\* The window a timeout is counted in counts timeouts.
LEMMA StrikeCounts ==
  ASSUME BenchInv, NEW m \in Models
  PROVE  LET s == Strike(m) seen == Append(timeouts[m], benchNow)
         IN  /\ s \in [count : 1 .. StormStrikes, since : Nat]
             /\ s.since <= benchNow
             /\ s.count > 1 => benchNow - s.since <= StormWindow
             /\ s.count <= Len(seen)
             /\ \A i \in 1 .. Len(seen) : i > Len(seen) - s.count => seen[i] >= s.since
<1> DEFINE t == timeouts[m]
           w == htStrikes[m]
           s == Strike(m)
           seen == Append(t, benchNow)
<1> USE BenchAssumption
<1>1. /\ t \in Seq(Nat) /\ benchNow \in Nat
      /\ w \in [count : 0 .. (StormStrikes - 1), since : Nat] /\ w.since <= benchNow
  BY DEF BenchInv, BenchTypes, BenchTypeOK
<1>2. /\ w.count \in Nat /\ w.count < StormStrikes /\ w.since \in Nat /\ Len(t) \in Nat
      /\ w.count <= Len(t)
      /\ \A i \in 1 .. Len(t) : t[i] \in Nat
      /\ \A i \in 1 .. Len(t) : i > Len(t) - w.count => t[i] >= w.since
  <2>1. w.count \in Nat /\ w.count < StormStrikes /\ w.since \in Nat
    BY <1>1
  <2>2. Len(t) \in Nat /\ \A i \in 1 .. Len(t) : t[i] \in Nat
    BY <1>1
  <2>3. /\ w.count <= Len(t)
        /\ \A i \in 1 .. Len(t) : i > Len(t) - w.count => t[i] >= w.since
    BY DEF BenchInv, InOneWindow
  <2> QED
    BY <2>1, <2>2, <2>3
<1>3. /\ Len(seen) = Len(t) + 1
      /\ seen[Len(t) + 1] = benchNow
      /\ \A i \in 1 .. Len(t) : seen[i] = t[i]
  BY <1>1, AppendProperties
<1>4. CASE w.count = 0 \/ benchNow - w.since > StormWindow
  <2>1. s = [count |-> 1, since |-> benchNow]
    BY <1>4 DEF Strike
  <2>2. \A i \in 1 .. Len(seen) : i > Len(seen) - 1 => seen[i] >= benchNow
    <3> HIDE DEF t, w, seen
    <3>1. \A i \in 1 .. Len(seen) : i > Len(seen) - 1 => i = Len(t) + 1
      BY <1>2, <1>3
    <3> QED
      BY <1>1, <1>3, <3>1
  <2> HIDE DEF s, seen
  <2> QED
    BY <1>1, <1>2, <1>3, <2>1, <2>2 DEF s, seen
<1>5. CASE w.count # 0 /\ ~(benchNow - w.since > StormWindow)
  <2>1. s = [count |-> w.count + 1, since |-> w.since]
    BY <1>1, <1>5 DEF Strike
  <2>2. \A i \in 1 .. Len(seen) : i > Len(seen) - (w.count + 1) => seen[i] >= w.since
    <3> HIDE DEF t, w, seen
    <3>1. ASSUME NEW i \in 1 .. Len(t), i > Len(seen) - (w.count + 1)
          PROVE  seen[i] >= w.since
      BY <1>2, <1>3, <3>1
    <3>2. seen[Len(t) + 1] >= w.since
      BY <1>1, <1>3
    <3>3. \A i \in 1 .. Len(seen) : i \in 1 .. Len(t) \/ i = Len(t) + 1
      BY <1>2, <1>3
    <3> QED
      BY <3>1, <3>2, <3>3
  <2>3. s.count = w.count + 1 /\ s.since = w.since
    BY <2>1
  <2>4. w.count + 1 \in 1 .. StormStrikes /\ benchNow - w.since <= StormWindow
    BY <1>1, <1>2, <1>5
  <2>5. s \in [count : 1 .. StormStrikes, since : Nat]
    BY <1>1, <2>1, <2>4
  <2> HIDE DEF s, seen
  <2>6. s.count <= Len(seen)
    BY <1>2, <1>3, <2>3
  <2> QED
    BY <1>1, <2>2, <2>3, <2>4, <2>5, <2>6 DEF s, seen
<1> QED
  BY <1>4, <1>5

\* A step that records no timeout and no strike disturbs only the map and the
\* worker that took it.
LEMMA QuietStep ==
  ASSUME BenchInv,
         modelBench' \in [Models -> Nat], IsFiniteSet(Entries(modelBench)'), MapBounded',
         benchNow' \in Nat \ {0}, benchNow <= benchNow',
         stage' \in [Workers -> Stages],
         \A w \in Workers : stage'[w].do = "storm" => stage'[w] = stage[w],
         UNCHANGED <<htStrikes, walls, timeouts, struck, proofs>>
  PROVE  BenchInv'
<1> USE DEF BenchInv
<1>1. BenchTypes'
  BY DEF BenchTypes
<1>2. BenchTypeOK'
  <2>1. \A m \in Models : htStrikes[m].since <= benchNow'
    BY DEF BenchTypes, BenchTypeOK
  <2>2. \A m \in Models : walls[m].at <= benchNow'
    BY DEF BenchTypes, BenchTypeOK
  <2> QED
    BY <2>1, <2>2 DEF BenchTypeOK
<1>3. InOneWindow' /\ WallReproven'
  BY DEF InOneWindow, WallReproven
<1>4. StormIsReal'
  BY DEF StormIsReal
<1> QED
  BY <1>1, <1>2, <1>3, <1>4

\* A timeout is counted, and a trip carries the evidence for it.
LEMMA TimeoutStep ==
  ASSUME BenchInv, NEW w \in Workers, NEW m \in Models, noteHeaderTimeout(w, m)
  PROVE  BenchInv'
<1> DEFINE s == Strike(m)
           trip == s.count >= StormStrikes
           seen == Append(timeouts[m], benchNow)
<1>1. /\ BenchTypes /\ BenchTypeOK /\ InOneWindow /\ StormIsReal /\ WallReproven
      /\ StormStrikes \in Nat \ {0}
  BY BenchAssumption DEF BenchInv
<1>2. /\ s \in [count : 1 .. StormStrikes, since : Nat]
      /\ s.since <= benchNow
      /\ s.count > 1 => benchNow - s.since <= StormWindow
      /\ s.count <= Len(seen)
      /\ \A i \in 1 .. Len(seen) : i > Len(seen) - s.count => seen[i] >= s.since
  BY StrikeCounts
<1>3. /\ seen \in Seq(Nat) /\ Len(seen) \in Nat \ {0} /\ seen[Len(seen)] = benchNow
      /\ benchNow \in Nat
  <2>1. timeouts[m] \in Seq(Nat) /\ benchNow \in Nat
    BY <1>1 DEF BenchTypes
  <2> QED
    BY <2>1, AppendProperties
<1>4. /\ htStrikes' = [htStrikes EXCEPT ![m] = IF trip THEN NoStorm ELSE s]
      /\ stage' = [stage EXCEPT
                     ![w] = IF trip THEN [do |-> "storm", model |-> m, seen |-> seen] ELSE Idle]
      /\ timeouts' = [timeouts EXCEPT ![m] = IF trip THEN <<>> ELSE seen]
      /\ UNCHANGED <<benchNow, modelBench, walls, struck, proofs>>
  BY DEF noteHeaderTimeout
<1> HIDE DEF s, seen
<1>5. BenchTypes'
  <2>1. (IF trip THEN NoStorm ELSE s) \in [count : 0 .. (StormStrikes - 1), since : Nat]
    BY <1>1, <1>2 DEF NoStorm
  <2>2. (IF trip THEN [do |-> "storm", model |-> m, seen |-> seen] ELSE Idle) \in Stages
    BY <1>3 DEF Stages
  <2>3. (IF trip THEN <<>> ELSE seen) \in Seq(Nat)
    BY <1>3
  <2>4. htStrikes' \in [Models -> [count : 0 .. (StormStrikes - 1), since : Nat]]
    BY <1>1, <1>4, <2>1 DEF BenchTypes
  <2>5. stage' \in [Workers -> Stages]
    BY <1>1, <1>4, <2>2 DEF BenchTypes
  <2>6. timeouts' \in [Models -> Seq(Nat)]
    BY <1>1, <1>4, <2>3 DEF BenchTypes
  <2> QED
    BY <1>1, <1>4, <2>4, <2>5, <2>6 DEF BenchTypes
<1>6. BenchTypeOK'
  <2>1. \A k \in Models : htStrikes'[k].since <= benchNow
    BY <1>1, <1>2, <1>3, <1>4 DEF BenchTypes, BenchTypeOK, NoStorm
  <2> QED
    BY <1>1, <1>4, <1>5, <2>1 DEF BenchTypes, BenchTypeOK
<1>7. InOneWindow'
  <2>1. ASSUME NEW k \in Models
        PROVE  /\ htStrikes'[k].count <= Len(timeouts'[k])
               /\ \A i \in 1 .. Len(timeouts'[k]) :
                     i > Len(timeouts'[k]) - htStrikes'[k].count
                       => timeouts'[k][i] >= htStrikes'[k].since
    <3>1. CASE k # m
      BY <1>1, <1>4, <3>1 DEF InOneWindow, BenchTypes
    <3>2. CASE k = m /\ trip
      <4>1. htStrikes'[k] = NoStorm /\ timeouts'[k] = <<>>
        BY <1>1, <1>4, <3>2 DEF BenchTypes
      <4> QED
        BY <4>1 DEF NoStorm
    <3>3. CASE k = m /\ ~trip
      <4>1. htStrikes'[k] = s /\ timeouts'[k] = seen
        BY <1>1, <1>4, <3>3 DEF BenchTypes
      <4> QED
        BY <1>2, <4>1
    <3> QED
      BY <3>1, <3>2, <3>3
  <2> QED
    BY <2>1 DEF InOneWindow
<1>8. trip => seen[Len(seen)] - seen[Len(seen) - StormStrikes + 1] <= StormWindow
  <2> SUFFICES ASSUME trip PROVE seen[Len(seen)] - seen[Len(seen) - StormStrikes + 1] <= StormWindow
    OBVIOUS
  <2> DEFINE i == Len(seen) - StormStrikes + 1
  <2>1. s.count = StormStrikes /\ s.since \in Nat
    BY <1>1, <1>2
  <2>2. i \in 1 .. Len(seen) /\ i > Len(seen) - s.count
    BY <1>1, <1>2, <1>3, <2>1
  <2>3. seen[i] >= s.since /\ seen[i] \in Nat
    BY <1>2, <1>3, <2>2
  <2>4. CASE StormStrikes = 1
    <3>1. i = Len(seen) /\ StormWindow \in Nat
      BY <1>3, <2>4, BenchAssumption
    <3> QED
      BY <1>3, <3>1
  <2>5. CASE StormStrikes > 1
    <3>1. benchNow - s.since <= StormWindow /\ StormWindow \in Nat
      BY <1>2, <2>1, <2>5, BenchAssumption
    <3> QED
      BY <1>3, <2>1, <2>3, <3>1
  <2> QED
    BY <1>1, <2>4, <2>5
<1>9. StormIsReal'
  <2>1. ASSUME NEW x \in Workers, stage'[x].do = "storm"
        PROVE  stage'[x].seen[Len(stage'[x].seen)]
                 - stage'[x].seen[Len(stage'[x].seen) - StormStrikes + 1] <= StormWindow
    <3>1. CASE x # w
      <4>1. stage'[x] = stage[x]
        BY <1>1, <1>4, <3>1 DEF BenchTypes
      <4> QED
        BY <1>1, <2>1, <4>1 DEF StormIsReal
    <3>2. CASE x = w
      <4>1. trip /\ stage'[x] = [do |-> "storm", model |-> m, seen |-> seen]
        BY <1>1, <1>4, <2>1, <3>2 DEF BenchTypes, Idle
      <4> QED
        BY <1>8, <4>1
    <3> QED
      BY <3>1, <3>2
  <2> QED
    BY <2>1 DEF StormIsReal
<1>10. WallReproven' /\ IsFiniteSet(Entries(modelBench)') /\ MapBounded'
  BY <1>1, <1>4 DEF BenchInv, WallReproven, MapBounded, Entries
<1> QED
  BY <1>5, <1>6, <1>7, <1>9, <1>10 DEF BenchInv

\* A strike opens a sight or closes one, and a proof closes one that was open.
LEMMA WallStep ==
  ASSUME BenchInv, NEW w \in Workers, NEW m \in Models, NEW a \in Accounts, NEW text \in BOOLEAN,
         wallStrike(w, m, a, text)
  PROVE  BenchInv'
<1> DEFINE proven == /\ walls[m].at # 0 /\ benchNow - walls[m].at <= WallWindow
                     /\ text \/ walls[m].acct # a
<1>1. BenchTypes /\ BenchTypeOK /\ InOneWindow /\ StormIsReal /\ WallReproven
  BY DEF BenchInv
<1>2. /\ walls' = [walls EXCEPT ![m] = NextSight(m, a, proven)]
      /\ struck' = [struck EXCEPT ![m] = struck[m] + 1]
      /\ proofs' = [proofs EXCEPT ![m] = IF proven THEN proofs[m] + 1 ELSE proofs[m]]
      /\ stage' = [stage EXCEPT ![w] = IF proven THEN [do |-> "wall", model |-> m] ELSE Idle]
      /\ UNCHANGED <<benchNow, modelBench, htStrikes, timeouts>>
  BY DEF wallStrike
<1>3. proven => walls[m].at # 0
  OBVIOUS
<1> HIDE DEF proven
<1>4. /\ benchNow \in Nat \ {0} /\ struck[m] \in Nat /\ proofs[m] \in Nat
      /\ walls[m].at \in Nat /\ walls[m].at <= benchNow
  BY <1>1 DEF BenchTypes, BenchTypeOK
<1>5. /\ NextSight(m, a, proven) \in [acct : Accounts \cup {NoAccount}, at : Nat]
      /\ NextSight(m, a, proven).at = IF proven THEN 0 ELSE benchNow
  BY <1>4 DEF NextSight, NoSight
<1>6. BenchTypes'
  <2>1. walls' \in [Models -> [acct : Accounts \cup {NoAccount}, at : Nat]]
    BY <1>1, <1>2, <1>5 DEF BenchTypes
  <2>2. struck' \in [Models -> Nat]
    BY <1>1, <1>2, <1>4 DEF BenchTypes
  <2>3. proofs' \in [Models -> Nat]
    BY <1>1, <1>2, <1>4 DEF BenchTypes
  <2>4. (IF proven THEN [do |-> "wall", model |-> m] ELSE Idle) \in Stages
    BY DEF Stages
  <2>5. stage' \in [Workers -> Stages]
    BY <1>1, <1>2, <2>4 DEF BenchTypes
  <2> QED
    BY <1>1, <1>2, <2>1, <2>2, <2>3, <2>5 DEF BenchTypes
<1>7. BenchTypeOK'
  <2>1. \A k \in Models : walls'[k].at <= benchNow
    BY <1>1, <1>2, <1>4, <1>5 DEF BenchTypes, BenchTypeOK
  <2> QED
    BY <1>1, <1>2, <1>6, <2>1 DEF BenchTypes, BenchTypeOK
<1>8. StormIsReal'
  <2>1. \A x \in Workers : stage'[x].do = "storm" => stage'[x] = stage[x]
    BY <1>1, <1>2 DEF BenchTypes, Idle
  <2> QED
    BY <1>1, <2>1 DEF StormIsReal
<1>9. WallReproven'
  <2>1. ASSUME NEW k \in Models
        PROVE  2 * proofs'[k] + (IF walls'[k].at # 0 THEN 1 ELSE 0) <= struck'[k]
    <3>1. 2 * proofs[k] + (IF walls[k].at # 0 THEN 1 ELSE 0) <= struck[k]
      BY <1>1 DEF WallReproven
    <3>2. CASE k # m
      <4>1. proofs'[k] = proofs[k] /\ walls'[k] = walls[k] /\ struck'[k] = struck[k]
        BY <1>1, <1>2, <3>2 DEF BenchTypes
      <4> QED
        BY <3>1, <4>1
    <3>3. CASE k = m /\ proven
      <4>1. proofs'[k] = proofs[k] + 1 /\ walls'[k].at = 0 /\ struck'[k] = struck[k] + 1
        BY <1>1, <1>2, <1>5, <3>3 DEF BenchTypes
      <4>2. 2 * proofs[k] + 1 <= struck[k]
        BY <1>3, <3>1, <3>3
      <4>3. 2 * (proofs[k] + 1) + 0 <= struck[k] + 1
        BY <1>4, <3>3, <4>2
      <4> QED
        BY <4>1, <4>3
    <3>4. CASE k = m /\ ~proven
      <4>1. proofs'[k] = proofs[k] /\ walls'[k].at = benchNow /\ struck'[k] = struck[k] + 1
        BY <1>1, <1>2, <1>5, <3>4 DEF BenchTypes
      <4>2. 2 * proofs[k] <= struck[k]
        <5>1. CASE walls[k].at # 0
          BY <1>4, <3>1, <3>4, <5>1
        <5>2. CASE walls[k].at = 0
          BY <1>4, <3>1, <3>4, <5>2
        <5> QED
          BY <5>1, <5>2
      <4>3. 2 * proofs[k] + 1 <= struck[k] + 1
        BY <1>4, <3>4, <4>2
      <4> QED
        BY <1>4, <4>1, <4>3
    <3> QED
      BY <3>2, <3>3, <3>4
  <2> QED
    BY <2>1 DEF WallReproven
<1>10. InOneWindow' /\ IsFiniteSet(Entries(modelBench)') /\ MapBounded'
  BY <1>1, <1>2 DEF BenchInv, InOneWindow, MapBounded, Entries
<1> QED
  BY <1>6, <1>7, <1>8, <1>9, <1>10 DEF BenchInv

LEMMA StepBench == BenchInv /\ [BenchNext]_benchVars => BenchInv'
<1> SUFFICES ASSUME BenchInv, [BenchNext]_benchVars PROVE BenchInv'
  OBVIOUS
<1> USE BenchAssumption
<1>1. /\ BenchTypes /\ benchNow \in Nat \ {0} /\ stage \in [Workers -> Stages] /\ Idle \in Stages
      /\ Idle.do = "idle"
  BY DEF BenchInv, BenchTypes, Stages, Idle
<1>2. CASE UNCHANGED benchVars
  BY <1>1, <1>2, BenchStepMap, QuietStep DEF benchVars, history
<1>3. CASE BenchTick
  BY <1>1, <1>3, BenchStepMap, QuietStep DEF BenchTick, history
<1>4. ASSUME NEW m \in Models, Refuse(m)
      PROVE  BenchInv'
  <2>1. \E ttl \in Nat : BenchModel(m, ttl)
    BY <1>4 DEF Refuse
  <2>2. UNCHANGED <<benchNow, htStrikes, walls, stage, timeouts, struck, proofs>>
    BY <1>4 DEF Refuse, history
  <2> QED
    BY <1>1, <2>1, <2>2, BenchStepMap, QuietStep
<1>5. ASSUME NEW w \in Workers, Promote(w) \/ StormBenches(w) \/ WallBenches(w)
      PROVE  BenchInv'
  <2>1. /\ UNCHANGED <<benchNow, htStrikes, walls, timeouts, struck, proofs>>
        /\ stage' = [stage EXCEPT ![w] = Idle] /\ stage[w].do \in {"promote", "storm", "wall"}
    BY <1>5 DEF Promote, StormBenches, WallBenches, history
  <2>2. /\ stage' \in [Workers -> Stages]
        /\ \A x \in Workers : stage'[x].do = "storm" => stage'[x] = stage[x]
    BY <1>1, <2>1
  <2>3. stage[w].model \in Models
    BY <1>1, <2>1 DEF Stages, Idle
  <2>4. \/ \E m \in Models, ttl \in Nat : BenchModel(m, ttl)
        \/ \E m \in Models :
             modelBench' = [modelBench EXCEPT ![m] = IF @ <= benchNow THEN 0 ELSE @]
    BY <1>5, <2>3 DEF Promote, StormBenches, WallBenches
  <2> QED
    BY <1>1, <2>1, <2>2, <2>4, BenchStepMap, QuietStep
<1>6. ASSUME NEW w \in Workers, NEW m \in Models, LookUp(w, m)
      PROVE  BenchInv'
  <2>1. /\ UNCHANGED <<benchNow, modelBench, htStrikes, walls, timeouts, struck, proofs>>
        /\ stage' = [stage EXCEPT ![w] = [do |-> "promote", model |-> m]]
    BY <1>6 DEF LookUp, history
  <2>2. [do |-> "promote", model |-> m] \in Stages
    BY DEF Stages
  <2>3. /\ stage' \in [Workers -> Stages]
        /\ \A x \in Workers : stage'[x].do = "storm" => stage'[x] = stage[x]
    BY <1>1, <2>1, <2>2
  <2> QED
    BY <1>1, <2>1, <2>3, BenchStepMap, QuietStep
<1> QED
  BY <1>2, <1>3, <1>4, <1>5, <1>6, TimeoutStep, WallStep DEF BenchNext

(* A model is benched on evidence of its own only, and the benches stay    *)
(* within their map (BenchModel, noteHeaderTimeout, wallStrike).           *)
THEOREM BenchesAreSound == BenchSpec => []BenchSound
<1>1. BenchInv => BenchSound
  BY DEF BenchInv, BenchSound
<1> QED
  BY <1>1, InitBench, StepBench, PTL DEF BenchSpec

\* When benching one model costs another its running bench, the map is full
\* of running benches, and that one ends soonest.
LEMMA SoonestGoes ==
  ASSUME BenchInv, NEW j \in Models, NEW ttl \in Nat, BenchModel(j, ttl),
         NEW m \in Models, modelBench[m] > benchNow, modelBench'[m] < modelBench[m]
  PROVE  /\ Cardinality(Entries(modelBench)) = MaxBenches
         /\ \A k \in Entries(modelBench) :
              modelBench[k] > benchNow /\ modelBench[m] <= modelBench[k]
<1> DEFINE until == benchNow + (IF ttl = 0 THEN BenchTTL ELSE ttl)
<1>1. PICK b \in MadeRoom : modelBench' = [b EXCEPT ![j] = IF until > b[j] THEN until ELSE b[j]]
  BY DEF BenchModel
<1>2. /\ BenchTypes /\ IsFiniteSet(Entries(modelBench)) /\ MapBounded
      /\ modelBench \in [Models -> Nat] /\ benchNow \in Nat /\ MaxBenches \in Nat \ {0}
  BY BenchAssumption DEF BenchInv, BenchTypes
<1>3. b \in [Models -> Nat]
  BY <1>2, RoomMade
<1>4. until \in Int
  BY <1>2, BenchAssumption
<1> HIDE DEF until
<1>5. b[m] < modelBench[m]
  BY <1>1, <1>2, <1>3, <1>4
<1>6. Unexpired[m] = modelBench[m]
  BY <1>2 DEF Unexpired
<1>7. PICK e \in {x \in Entries(Unexpired) : \A n \in Entries(Unexpired) : Unexpired[x] <= Unexpired[n]} :
         b = [Unexpired EXCEPT ![e] = 0]
  BY <1>2, <1>5, <1>6 DEF MadeRoom, Unexpired
<1>8. /\ ~(Cardinality(Entries(modelBench)) < MaxBenches)
      /\ ~(Cardinality(Entries(Unexpired)) < MaxBenches)
  BY <1>2, <1>5, <1>6 DEF MadeRoom, Unexpired
<1>9. e = m
  BY <1>2, <1>5, <1>6, <1>7 DEF Unexpired
<1>10. Cardinality(Entries(modelBench)) = MaxBenches /\ Entries(Unexpired) = Entries(modelBench)
  <2>1. Entries(Unexpired) \subseteq Entries(modelBench)
    BY <1>2 DEF Unexpired, Entries
  <2>2. /\ IsFiniteSet(Entries(Unexpired))
        /\ Cardinality(Entries(Unexpired)) <= Cardinality(Entries(modelBench))
        /\ Cardinality(Entries(Unexpired)) = Cardinality(Entries(modelBench))
             => Entries(Unexpired) = Entries(modelBench)
    BY <1>2, <2>1, FS_Subset
  <2>3. Cardinality(Entries(Unexpired)) \in Nat /\ Cardinality(Entries(modelBench)) \in Nat
    BY <1>2, <2>2, FS_CardinalityType
  <2> QED
    BY <1>2, <1>8, <2>2, <2>3 DEF MapBounded
<1>11. ASSUME NEW k \in Entries(modelBench)
       PROVE  modelBench[k] > benchNow /\ modelBench[m] <= modelBench[k]
  <2>1. k \in Models /\ Unexpired[k] # 0 /\ Unexpired[m] <= Unexpired[k]
    BY <1>7, <1>9, <1>10 DEF Entries
  <2> QED
    BY <1>2, <1>6, <2>1 DEF Unexpired
<1> QED
  BY <1>10, <1>11

(* A bench that is still running goes, or is cut short, only to make room  *)
(* in a map full of running ones, and then one that ends soonest           *)
(* (BenchModel's sweep, ModelBenched's second look under the write lock).  *)
THEOREM RunningBenchesKept == BenchSpec => LiveBenchKept
<1> DEFINE Kept ==
      \A m \in Models :
        modelBench[m] > benchNow /\ modelBench'[m] < modelBench[m]
           => /\ Cardinality(Entries(modelBench)) = MaxBenches /\ ~CleanedUp
              /\ \A k \in Entries(modelBench) :
                   modelBench[k] > benchNow /\ modelBench[m] <= modelBench[k]
<1>1. BenchInv /\ [BenchNext]_benchVars => [Kept]_benchVars
  <2> SUFFICES ASSUME BenchInv, BenchNext, NEW m \in Models,
                      modelBench[m] > benchNow, modelBench'[m] < modelBench[m]
               PROVE  /\ Cardinality(Entries(modelBench)) = MaxBenches /\ ~CleanedUp
                      /\ \A k \in Entries(modelBench) :
                           modelBench[k] > benchNow /\ modelBench[m] <= modelBench[k]
    OBVIOUS
  <2>1. /\ modelBench \in [Models -> Nat] /\ stage \in [Workers -> Stages]
        /\ benchNow \in Nat
    BY DEF BenchInv, BenchTypes
  <2>2. modelBench' # modelBench
    BY <2>1
  <2>3. ASSUME NEW j \in Models, Refuse(j)
        PROVE  ~CleanedUp /\ \E ttl \in Nat : BenchModel(j, ttl)
    BY <2>3, BenchAssumption DEF Refuse, CleanedUp, Idle
  <2>4. ASSUME NEW w \in Workers, StormBenches(w) \/ WallBenches(w)
        PROVE  ~CleanedUp /\ \E j \in Models, ttl \in Nat : BenchModel(j, ttl)
    <3>1. stage' = [stage EXCEPT ![w] = Idle] /\ stage[w].do \in {"storm", "wall"}
      BY <2>4 DEF StormBenches, WallBenches
    <3>2. stage[w].model \in Models
      BY <2>1, <3>1 DEF Stages, Idle
    <3>3. ~CleanedUp
      BY <2>1, <3>1 DEF CleanedUp, Idle
    <3> QED
      BY <2>4, <3>2, <3>3, BenchAssumption DEF StormBenches, WallBenches
  <2>5. ASSUME NEW w \in Workers, Promote(w)
        PROVE  FALSE
    <3>1. modelBench' = [modelBench EXCEPT
                           ![stage[w].model] = IF modelBench[stage[w].model] <= benchNow
                                                 THEN 0 ELSE modelBench[stage[w].model]]
      BY <2>5 DEF Promote
    <3> QED
      BY <2>1, <3>1
  <2>6. \/ \E j \in Models : Refuse(j)
        \/ \E w \in Workers : StormBenches(w) \/ WallBenches(w)
    BY <2>2, <2>5 DEF BenchNext, BenchTick, LookUp, noteHeaderTimeout, wallStrike
  <2> QED
    BY <2>3, <2>4, <2>6, SoonestGoes
<1> QED
  BY <1>1, InitBench, StepBench, PTL DEF BenchSpec, LiveBenchKept

-----------------------------------------------------------------------------
(* RateLimiter.                                                            *)
Cells(f) == UNION {{i} \X (1 .. f[i]) : i \in DOMAIN f}

\* A sum is as large as its cells, and it is finite.
LEMMA VolumeNat ==
  ASSUME NEW D, IsFiniteSet(D), NEW f \in [D -> Nat]
  PROVE  IsFiniteSet(Cells(f)) /\ Volume(f) = Cardinality(Cells(f)) /\ Volume(f) \in Nat
<1> DEFINE slab(i) == {i} \X (1 .. f[i])
           T == {slab(i) : i \in D}
           s == [i \in D |-> slab(i)]
<1>1. s \in Surjection(D, T)
  BY DEF Surjection
<1>2. IsFiniteSet(T)
  BY <1>1, FS_Surjection
<1>3. ASSUME NEW i \in D PROVE IsFiniteSet(slab(i))
  <2>1. 1 \in Int /\ f[i] \in Int
    OBVIOUS
  <2>2. IsFiniteSet(1 .. f[i])
    BY <2>1, FS_Interval, Zenon
  <2>3. IsFiniteSet({i})
    BY FS_Singleton
  <2> QED BY <2>2, <2>3, FS_Product
<1>4. \A S \in T : IsFiniteSet(S)
  BY <1>3
<1>5. Cells(f) = UNION T
  BY DEF Cells
<1> HIDE DEF T
<1>6. IsFiniteSet(Cells(f))
  BY <1>2, <1>4, <1>5, FS_UNION
<1> QED
  BY <1>6, FS_CardinalityType DEF Volume, Cells

\* What adds nowhere more adds up to no more, and to less if it adds less
\* somewhere.
LEMMA VolumeLess ==
  ASSUME NEW D, IsFiniteSet(D), NEW f \in [D -> Nat],
         NEW E, IsFiniteSet(E), NEW g \in [E -> Nat],
         \A i \in D : f[i] # 0 => i \in E /\ f[i] <= g[i]
  PROVE  /\ Volume(f) <= Volume(g)
         /\ \A j \in E : g[j] # 0 /\ (j \notin D \/ f[j] < g[j]) => Volume(f) < Volume(g)
<1>1. /\ IsFiniteSet(Cells(g)) /\ Volume(f) = Cardinality(Cells(f)) /\ Volume(f) \in Nat
      /\ Volume(g) = Cardinality(Cells(g)) /\ Volume(g) \in Nat
  BY VolumeNat
<1>2. ASSUME NEW c \in Cells(f) PROVE c \in Cells(g)
  <2>1. PICK i \in D : c \in {i} \X (1 .. f[i])
    BY DEF Cells
  <2>2. f[i] # 0
    BY <2>1
  <2>3. i \in E /\ f[i] <= g[i] /\ f[i] \in Nat /\ g[i] \in Nat
    BY <2>2
  <2>4. c \in {i} \X (1 .. g[i])
    BY <2>1, <2>3
  <2> QED BY <2>3, <2>4 DEF Cells
<1>3. Volume(f) <= Volume(g) /\ (Volume(f) = Volume(g) => Cells(f) = Cells(g))
  BY <1>1, <1>2, FS_Subset
<1>4. ASSUME NEW j \in E, g[j] # 0, j \notin D \/ f[j] < g[j] PROVE Volume(f) < Volume(g)
  <2>1. <<j, g[j]>> \in {j} \X (1 .. g[j])
    BY <1>4
  <2>2. <<j, g[j]>> \in Cells(g)
    BY <2>1 DEF Cells
  <2>3. <<j, g[j]>> \notin Cells(f)
    <3> SUFFICES ASSUME <<j, g[j]>> \in Cells(f) PROVE FALSE
      OBVIOUS
    <3>1. PICK i \in D : <<j, g[j]>> \in {i} \X (1 .. f[i])
      BY DEF Cells
    <3>2. i = j /\ g[j] \in 1 .. f[i]
      BY <3>1
    <3> QED BY <1>4, <3>2
  <2> QED BY <1>1, <1>3, <2>2, <2>3
<1> QED
  BY <1>3, <1>4

\* n more at one place is n more in all.
LEMMA VolumeGain ==
  ASSUME NEW D, IsFiniteSet(D), NEW f \in [D -> Nat], NEW g \in [D -> Nat],
         NEW x \in D, NEW n \in Nat, g[x] = f[x] + n, \A i \in D : i # x => g[i] = f[i]
  PROVE  Volume(g) = Volume(f) + n
<1> DEFINE S == {x} \X ((f[x] + 1) .. (f[x] + n))
<1>1. /\ IsFiniteSet(Cells(f)) /\ Volume(f) = Cardinality(Cells(f)) /\ Volume(f) \in Nat
      /\ Volume(g) = Cardinality(Cells(g))
  BY VolumeNat
<1>2. IsFiniteSet(S) /\ Cardinality(S) = n
  <2>1. f[x] \in Nat
    OBVIOUS
  <2>2. IsFiniteSet({x}) /\ Cardinality({x}) = 1
    BY FS_Singleton
  <2>3. ASSUME NEW a \in Int, NEW b \in Int, b = a + n - 1
        PROVE  IsFiniteSet(a .. b) /\ Cardinality(a .. b) = n
    <3>1. IsFiniteSet(a .. b) /\ Cardinality(a .. b) = IF a > b THEN 0 ELSE b - a + 1
      BY FS_Interval
    <3> QED BY <2>3, <3>1
  <2>4. /\ IsFiniteSet((f[x] + 1) .. (f[x] + n))
        /\ Cardinality((f[x] + 1) .. (f[x] + n)) = n
    <3>1. f[x] + 1 \in Int /\ f[x] + n \in Int /\ f[x] + n = (f[x] + 1) + n - 1
      BY <2>1
    <3> QED BY <2>3, <3>1, Zenon
  <2>5. IsFiniteSet(S) /\ Cardinality(S) = Cardinality({x}) * Cardinality((f[x] + 1) .. (f[x] + n))
    BY <2>2, <2>4, FS_Product
  <2> QED BY <2>2, <2>4, <2>5
<1>3. Cells(f) \cap S = {}
  <2> SUFFICES ASSUME NEW c \in Cells(f), c \in S PROVE FALSE
    OBVIOUS
  <2>1. PICK i \in D : c \in {i} \X (1 .. f[i])
    BY DEF Cells
  <2>2. c[1] = x /\ c[1] = i /\ c[2] \in 1 .. f[i] /\ c[2] \in (f[x] + 1) .. (f[x] + n)
    BY <2>1
  <2> QED BY <2>2
<1>4. Cells(g) = Cells(f) \cup S
  <2>1. ASSUME NEW c \in Cells(g) PROVE c \in Cells(f) \cup S
    <3>1. PICK i \in D : c \in {i} \X (1 .. g[i])
      BY DEF Cells
    <3>2. CASE i # x
      BY <3>1, <3>2 DEF Cells
    <3>3. CASE i = x
      <4>1. c = <<x, c[2]>> /\ c[2] \in 1 .. (f[x] + n) /\ f[x] \in Nat
        BY <3>1, <3>3
      <4>2. c[2] \in 1 .. f[x] \/ c[2] \in (f[x] + 1) .. (f[x] + n)
        BY <4>1
      <4>3. c \in {x} \X (1 .. f[x]) \/ c \in S
        BY <4>1, <4>2
      <4> QED BY <4>3 DEF Cells
    <3> QED BY <3>2, <3>3
  <2>2. ASSUME NEW c \in Cells(f) PROVE c \in Cells(g)
    <3>1. PICK i \in D : c \in {i} \X (1 .. f[i])
      BY DEF Cells
    <3>2. f[i] \in Nat /\ g[i] \in Nat /\ f[i] <= g[i]
      OBVIOUS
    <3>3. c \in {i} \X (1 .. g[i])
      BY <3>1, <3>2
    <3> QED BY <3>3 DEF Cells
  <2>3. ASSUME NEW c \in S PROVE c \in Cells(g)
    <3>1. c = <<x, c[2]>> /\ c[2] \in (f[x] + 1) .. (f[x] + n) /\ f[x] \in Nat
      OBVIOUS
    <3>2. c \in {x} \X (1 .. g[x])
      BY <3>1
    <3> QED BY <3>2 DEF Cells
  <2> QED BY <2>1, <2>2, <2>3
<1> HIDE DEF S
<1>5. Cardinality(Cells(f) \cup S) = Cardinality(Cells(f)) + Cardinality(S) - Cardinality(Cells(f) \cap S)
  BY <1>1, <1>2, FS_Union
<1>6. Cardinality(Cells(f) \cap S) = 0
  BY <1>3, FS_EmptySet
<1> QED
  BY <1>1, <1>2, <1>4, <1>5, <1>6

\* Two seconds less than a window apart have different buckets.
LEMMA OtherBucket ==
  ASSUME NEW a \in Nat, NEW b \in Nat, a < b, b < a + Window
  PROVE  a % Window # b % Window
<1> DEFINE qa == a \div Window  qb == b \div Window
<1>1. Window \in Nat \ {0}
  BY LimiterAssumption
<1>2. a = Window * qa + (a % Window) /\ b = Window * qb + (b % Window) /\ qa \in Int /\ qb \in Int
      /\ a % Window \in Nat /\ b % Window \in Nat
  BY <1>1
<1> HIDE DEF qa, qb
<1> SUFFICES ASSUME a % Window = b % Window PROVE FALSE
  OBVIOUS
<1>3. Window * qb - Window * qa = b - a
  BY <1>1, <1>2
<1>4. CASE qb <= qa
  <2>1. Window * qb <= Window * qa
    BY <1>1, <1>2, <1>4
  <2> QED BY <1>1, <1>2, <1>3, <2>1
<1>5. CASE qb >= qa + 1
  <2>1. Window * qb >= Window * qa + Window
    <3>1. Window * qb >= Window * (qa + 1)
      BY <1>1, <1>2, <1>5
    <3>2. Window * (qa + 1) = Window * qa + Window
      BY <1>1, <1>2
    <3>3. Window * qa \in Int /\ Window * qb \in Int /\ Window * (qa + 1) \in Int
      BY <1>1, <1>2
    <3> QED BY <1>1, <3>1, <3>2, <3>3
  <2>2. Window * qa \in Int /\ Window * qb \in Int
    BY <1>1, <1>2
  <2> QED BY <1>1, <1>3, <2>1, <2>2
<1> QED
  BY <1>2, <1>4, <1>5

\* The values of ring w, and those of them that are stamped with second from
\* or with up to lag seconds before it, or later.
Values(w) == [i \in Indices |-> w[i].v]
Since(w, lag, from) == [i \in Indices |-> IF w[i].sec + lag >= from THEN w[i].v ELSE 0]

\* The first of the Recent seconds.
Oldest == clock + 1 + MaxLag - Window

Placed(w) == \A i \in Indices : w[i].v # 0 => w[i].sec % Window = i /\ w[i].sec <= clock

LimiterTypes ==
  /\ clock \in Seconds /\ Window <= clock
  /\ req \in Ring /\ tok \in Ring
  /\ pc \in [Reqs -> {"idle", "asking", "locking", "serving"}]
  /\ check \in [Reqs -> {1, 2}] /\ stamp \in [Reqs -> Seconds]
  /\ served \in [Seconds -> Nat] /\ entered \in [Seconds -> Nat] /\ used \in [Seconds -> Nat]

\* The clock and the window as the provers need them.
LEMMA Times ==
  ASSUME LimiterTypes
  PROVE  /\ clock \in Nat /\ Window \in Nat \ {0} /\ MaxLag \in Nat /\ MaxLag < Window
         /\ Oldest \in Nat /\ Oldest <= clock /\ Oldest > clock - Window /\ MaxClock \in Nat
         /\ \A t : t \in Recent <=> t \in Nat /\ Oldest <= t /\ t <= clock
         /\ \A t \in Nat : t <= clock => t \in Seconds
         /\ \A t \in Nat : t % Window \in Indices
<1>1. Window \in Nat \ {0} /\ MaxLag \in Nat /\ MaxLag < Window /\ MaxClock \in Nat
  BY LimiterAssumption
<1>2. clock \in Nat /\ clock <= MaxClock /\ Window <= clock
  BY <1>1 DEF LimiterTypes, Seconds
<1>3. Oldest \in Nat /\ Oldest <= clock /\ Oldest > clock - Window
  BY <1>1, <1>2 DEF Oldest
<1>4. \A t : t \in Recent <=> t \in Nat /\ Oldest <= t /\ t <= clock
  BY <1>1, <1>2, <1>3 DEF Oldest, Recent
<1>5. \A t \in Nat : t <= clock => t \in Seconds
  BY <1>1, <1>2 DEF Seconds
<1>6. \A t \in Nat : t % Window \in Indices
  BY <1>1 DEF Indices
<1> QED
  BY <1>1, <1>2, <1>3, <1>4, <1>5, <1>6

LEMMA IndicesFinite == IsFiniteSet(Indices)
<1>1. 0 \in Int /\ Window - 1 \in Int
  BY LimiterAssumption
<1> QED BY <1>1, FS_Interval, Zenon DEF Indices

\* What the functions above are, for a ring.
LEMMA RingSums ==
  ASSUME NEW w \in Ring
  PROVE  /\ Values(w) \in [Indices -> Nat]
         /\ \A i \in Indices : w[i] \in [sec : Seconds, v : Nat]
         /\ \A lag, from : Since(w, lag, from) \in [Indices -> Nat]
  BY DEF Values, Since, Ring

\* sumAt at a time that is not ahead of the clock takes out of the ring only
\* what no property looks at.
LEMMA SweepKeeps ==
  ASSUME LimiterTypes, NEW w \in Ring, NEW t \in Seconds, t <= clock
  PROVE  /\ Swept(w, t) \in Ring
         /\ Placed(w) => Placed(Swept(w, t))
         /\ \A u \in Recent : Counted(Swept(w, t), u) = Counted(w, u)
         /\ \A lag \in Nat, from \in Nat : lag <= MaxLag /\ from >= Oldest =>
              Since(Swept(w, t), lag, from) = Since(w, lag, from)
         /\ Volume(Values(Swept(w, t))) <= Volume(Values(w))
<1> DEFINE x == Swept(w, t)
<1>1. \A i \in Indices : /\ w[i] \in [sec : Seconds, v : Nat] /\ w[i].sec \in Nat /\ w[i].v \in Nat
                          /\ x[i].sec = w[i].sec
                          /\ x[i].v = IF t >= w[i].sec + Window THEN 0 ELSE w[i].v
  BY DEF Ring, Swept, Expired, Seconds
<1>2. x \in Ring
  <2>1. ASSUME NEW b \in [sec : Seconds, v : Nat] PROVE [b EXCEPT !.v = 0] \in [sec : Seconds, v : Nat]
    OBVIOUS
  <2> QED BY <2>1 DEF Swept, Ring
<1>3. Placed(w) => Placed(x)
  BY <1>1 DEF Placed
<1> HIDE DEF x
<1>4. t \in Nat /\ t <= clock
  BY Times DEF Seconds
<1>5. \A u \in Recent : Counted(x, u) = Counted(w, u)
  <2> SUFFICES ASSUME NEW u \in Recent PROVE Counted(x, u) = Counted(w, u)
    OBVIOUS
  <2>1. u \in Nat /\ u > clock - Window /\ u % Window \in Indices /\ clock \in Nat /\ Window \in Nat
    BY Times
  <2>2. w[u % Window].sec = u => ~(t >= w[u % Window].sec + Window)
    BY <1>4, <2>1
  <2> QED BY <1>1, <2>1, <2>2 DEF Counted
<1>6. ASSUME NEW lag \in Nat, NEW from \in Nat, lag <= MaxLag, from >= Oldest
      PROVE  Since(x, lag, from) = Since(w, lag, from)
  <2>1. ASSUME NEW i \in Indices, w[i].sec + lag >= from PROVE ~(t >= w[i].sec + Window)
    <3>1. w[i].sec \in Nat /\ clock \in Nat /\ MaxLag \in Nat /\ Window \in Nat
      BY <1>1, Times
    <3> QED BY <1>4, <1>6, <2>1, <3>1 DEF Oldest
  <2>2. \A i \in Indices : (IF x[i].sec + lag >= from THEN x[i].v ELSE 0)
                              = (IF w[i].sec + lag >= from THEN w[i].v ELSE 0)
    BY <1>1, <2>1
  <2> QED BY <2>2 DEF Since
<1>7. Volume(Values(x)) <= Volume(Values(w))
  <2>1. \A i \in Indices : Values(x)[i] # 0 => i \in Indices /\ Values(x)[i] <= Values(w)[i]
    BY <1>1 DEF Values
  <2> QED BY <1>2, <2>1, RingSums, IndicesFinite, VolumeLess
<1> QED
  BY <1>2, <1>3, <1>5, <1>6, <1>7 DEF x

\* add counts n once, for its second and in no other sum.
LEMMA AddCounts ==
  ASSUME LimiterTypes, NEW w \in Ring, Placed(w), NEW t \in Seconds, t <= clock, clock <= t + MaxLag,
         NEW n \in Nat
  PROVE  /\ add(w, t, n) \in Ring /\ Placed(add(w, t, n))
         /\ \A u \in Recent : Counted(add(w, t, n), u) = Counted(w, u) + IF u = t THEN n ELSE 0
         /\ \A lag \in Nat, from \in Nat : lag <= MaxLag /\ from >= Oldest /\ from <= t + lag =>
              Volume(Since(add(w, t, n), lag, from)) = Volume(Since(w, lag, from)) + n
         /\ Volume(Values(add(w, t, n))) <= Volume(Values(w)) + n
<1> DEFINE a == add(w, t, n)
           k == t % Window
           new == [sec |-> t, v |-> IF w[k].sec = t THEN w[k].v + n ELSE n]
<1>1. /\ clock \in Nat /\ Window \in Nat \ {0} /\ MaxLag \in Nat /\ MaxLag < Window /\ t \in Nat
      /\ k \in Indices
  BY Times DEF Seconds
<1>2. \A i \in Indices : w[i] \in [sec : Seconds, v : Nat] /\ w[i].sec \in Nat /\ w[i].v \in Nat
  BY DEF Ring, Seconds
<1>3. new \in [sec : Seconds, v : Nat] /\ new.sec = t /\ new.v = IF w[k].sec = t THEN w[k].v + n ELSE n
  BY <1>1, <1>2
<1>4. a = [w EXCEPT ![k] = new]
  BY <1>1 DEF add, Ring
<1> HIDE DEF new
<1>5. a \in Ring /\ a[k] = new /\ \A i \in Indices : i # k => a[i] = w[i]
  BY <1>1, <1>3, <1>4 DEF Ring
<1> HIDE DEF a
<1>6. Placed(a)
  BY <1>1, <1>3, <1>5 DEF Placed
\* What the bucket counted before is the same second's, or long past.
<1>7. w[k].sec # t /\ w[k].v # 0 => w[k].sec + Window <= t
  <2> SUFFICES ASSUME w[k].sec # t, w[k].v # 0, w[k].sec + Window > t PROVE FALSE
    BY <1>1, <1>2
  <2> DEFINE s == w[k].sec
  <2>1. s \in Nat /\ s % Window = k /\ s <= clock
    BY <1>1, <1>2 DEF Placed
  <2> HIDE DEF s, k
  <2>2. s # t /\ s + Window > t
    BY DEF s
  <2>3. t < s \/ s < t
    BY <1>1, <2>1, <2>2
  <2>4. CASE t < s
    <3>1. s < t + Window
      BY <1>1, <2>1
    <3> QED BY <1>1, <2>1, <2>4, <3>1, OtherBucket DEF k
  <2>5. CASE s < t
    <3>1. t < s + Window
      BY <1>1, <2>1, <2>2
    <3> QED BY <1>1, <2>1, <2>5, <3>1, OtherBucket DEF k
  <2> QED BY <2>3, <2>4, <2>5
<1>8. ASSUME NEW u \in Recent PROVE Counted(a, u) = Counted(w, u) + IF u = t THEN n ELSE 0
  <2>1. u \in Nat /\ u > clock - Window /\ u <= clock /\ u % Window \in Indices
    BY Times
  <2>2. Counted(w, u) \in Nat
    BY <1>2, <2>1 DEF Counted
  <2>3. CASE u = t
    <3>1. Counted(a, u) = new.v
      BY <1>3, <1>5, <2>3 DEF Counted
    <3>2. Counted(w, u) = IF w[k].sec = t THEN w[k].v ELSE 0
      BY <2>3 DEF Counted
    <3> QED BY <1>1, <1>2, <1>3, <2>3, <3>1, <3>2
  <2>4. CASE u # t
    <3>1. u % Window # k
      <4>1. CASE u < t
        <5>1. t < u + Window
          BY <1>1, <2>1
        <5> QED BY <1>1, <2>1, <4>1, <5>1, OtherBucket
      <4>2. CASE t < u
        <5>1. u < t + Window
          BY <1>1, <2>1
        <5> QED BY <1>1, <2>1, <4>2, <5>1, OtherBucket
      <4> QED BY <1>1, <2>1, <2>4, <4>1, <4>2
    <3>2. Counted(a, u) = Counted(w, u)
      BY <1>5, <2>1, <3>1 DEF Counted
    <3> QED BY <2>2, <2>4, <3>2
  <2> QED BY <2>3, <2>4
<1>9. ASSUME NEW lag \in Nat, NEW from \in Nat, lag <= MaxLag, from >= Oldest, from <= t + lag
      PROVE  Volume(Since(a, lag, from)) = Volume(Since(w, lag, from)) + n
  <2> DEFINE f == Since(w, lag, from)  g == Since(a, lag, from)
  <2>1. f \in [Indices -> Nat] /\ g \in [Indices -> Nat]
    BY <1>5, RingSums
  <2>2. g[k] = new.v
    BY <1>1, <1>3, <1>5, <1>9 DEF Since
  <2>3. f[k] = IF w[k].sec = t THEN w[k].v ELSE 0
    <3>1. f[k] = IF w[k].sec + lag >= from THEN w[k].v ELSE 0
      BY <1>1 DEF Since
    <3>2. CASE w[k].sec = t
      BY <1>9, <3>1, <3>2
    <3>3. CASE w[k].sec # t /\ w[k].v = 0
      BY <3>1, <3>3
    <3>4. CASE w[k].sec # t /\ w[k].v # 0
      <4>1. w[k].sec \in Nat /\ w[k].sec + Window <= t
        BY <1>1, <1>2, <1>7, <3>4
      <4>2. w[k].sec + lag < from
        BY <1>1, <1>9, <4>1 DEF Oldest
      <4> QED BY <1>1, <3>1, <3>4, <4>1, <4>2
    <3> QED BY <3>2, <3>3, <3>4
  <2>4. \A i \in Indices : i # k => g[i] = f[i]
    BY <1>5 DEF Since
  <2> HIDE DEF f, g
  <2>5. g[k] = f[k] + n
    BY <1>1, <1>2, <1>3, <2>2, <2>3
  <2>6. Volume(g) = Volume(f) + n
    BY <1>1, <2>1, <2>4, <2>5, IndicesFinite, VolumeGain
  <2> QED BY <2>6 DEF f, g
<1>10. Volume(Values(a)) <= Volume(Values(w)) + n
  <2> DEFINE f == Values(w)  g == [f EXCEPT ![k] = @ + n]
  <2>1. f \in [Indices -> Nat] /\ Values(a) \in [Indices -> Nat]
    BY <1>5, RingSums
  <2>2. g \in [Indices -> Nat] /\ g[k] = f[k] + n /\ \A i \in Indices : i # k => g[i] = f[i]
    BY <1>1, <2>1
  <2>3. f[k] = w[k].v /\ Values(a)[k] = new.v /\ \A i \in Indices : i # k => Values(a)[i] = f[i]
    BY <1>1, <1>5 DEF Values
  <2> HIDE DEF f, g
  <2>4. Volume(g) = Volume(f) + n
    BY <1>1, <2>1, <2>2, IndicesFinite, VolumeGain
  <2>5. \A i \in Indices : Values(a)[i] <= g[i]
    BY <1>1, <1>2, <1>3, <2>1, <2>2, <2>3
  <2>6. Volume(Values(a)) <= Volume(g)
    BY <2>1, <2>2, <2>5, IndicesFinite, VolumeLess
  <2> QED BY <2>4, <2>6 DEF f
<1> QED
  BY <1>5, <1>6, <1>8, <1>9, <1>10 DEF a

\* The requests that the token limit let through and that may still report.
Past == {r \in Reqs : check[r] = 2 \/ pc[r] = "serving"}

(* A check works with a second it read at most MaxLag ago, and only the    *)
(* second check of a request is past the first.                            *)
Stamped ==
  \A r \in Reqs : /\ pc[r] = "locking" => stamp[r] <= clock /\ clock <= stamp[r] + MaxLag
                  /\ pc[r] \in {"idle", "serving"} => check[r] = 1

NoFuture == \A t \in Seconds : t > clock => served[t] = 0 /\ entered[t] = 0 /\ used[t] = 0

(* What was counted since any recent second is in the ring, under a stamp  *)
(* that is up to lag seconds older.                                        *)
Behind(h, w, lag) ==
  \A from \in Recent : Total(h, from, clock) <= Volume(Since(w, lag, from))

Overshoot ==
  Total(used, Oldest, clock) + Cardinality(Past) * MaxTokens
     <= Tpm - 1 + Cardinality(Reqs) * MaxTokens

RingsHold ==
  /\ req \in Ring /\ tok \in Ring /\ Placed(req) /\ Placed(tok) /\ NoFuture /\ RingExact
  /\ Volume(Values(req)) <= Rpm
  /\ Behind(entered, req, MaxLag) /\ Behind(used, tok, 0)

LimiterInv == LimiterTypes /\ Stamped /\ RingsHold /\ Overshoot

\* The seconds of a stretch, and the part of a history in it.
Span(lo, hi) == {s \in Seconds : lo <= s /\ s <= hi}
Part(h, lo, hi) == [t \in Span(lo, hi) |-> h[t]]

LEMMA SpanFinite == \A lo, hi : IsFiniteSet(Span(lo, hi))
<1>1. 0 \in Int /\ MaxClock \in Int
  BY LimiterAssumption
<1>2. IsFiniteSet(Seconds)
  BY <1>1, FS_Interval, Zenon DEF Seconds
<1> QED
  BY <1>2, FS_Subset DEF Span

LEMMA TotalNat ==
  ASSUME NEW h \in [Seconds -> Nat], NEW lo, NEW hi
  PROVE  /\ Part(h, lo, hi) \in [Span(lo, hi) -> Nat]
         /\ Total(h, lo, hi) = Volume(Part(h, lo, hi)) /\ Total(h, lo, hi) \in Nat
<1>1. Part(h, lo, hi) \in [Span(lo, hi) -> Nat]
  BY DEF Part, Span
<1>2. Total(h, lo, hi) = Volume(Part(h, lo, hi))
  BY DEF Total, Part, Span
<1> QED
  BY <1>1, <1>2, SpanFinite, VolumeNat

LEMMA TotalLess ==
  ASSUME NEW h \in [Seconds -> Nat], NEW g \in [Seconds -> Nat], NEW a, NEW b, NEW c, NEW d,
         \A t \in Seconds : a <= t /\ t <= b /\ h[t] # 0 => c <= t /\ t <= d /\ h[t] <= g[t]
  PROVE  Total(h, a, b) <= Total(g, c, d)
<1> DEFINE x == Part(h, a, b)  y == Part(g, c, d)
<1>1. x \in [Span(a, b) -> Nat] /\ y \in [Span(c, d) -> Nat]
  BY TotalNat
<1>2. \A i \in Span(a, b) : x[i] # 0 => i \in Span(c, d) /\ x[i] <= y[i]
  BY DEF Span, Part
<1> HIDE DEF x, y
<1>3. Volume(x) <= Volume(y)
  BY <1>1, <1>2, SpanFinite, VolumeLess
<1> QED
  BY <1>3, TotalNat DEF x, y

LEMMA TotalGain ==
  ASSUME NEW h \in [Seconds -> Nat], NEW g \in [Seconds -> Nat], NEW s \in Seconds, NEW n \in Nat,
         g[s] = h[s] + n, \A t \in Seconds : t # s => g[t] = h[t], NEW a, NEW b, a <= s, s <= b
  PROVE  Total(g, a, b) = Total(h, a, b) + n
<1> DEFINE x == Part(h, a, b)  y == Part(g, a, b)
<1>1. x \in [Span(a, b) -> Nat] /\ y \in [Span(a, b) -> Nat]
  BY TotalNat
<1>2. s \in Span(a, b) /\ y[s] = x[s] + n /\ \A i \in Span(a, b) : i # s => y[i] = x[i]
  BY DEF Span, Part
<1>3. Total(g, a, b) = Volume(y) /\ Total(h, a, b) = Volume(x)
  BY TotalNat
<1> HIDE DEF x, y
<1>4. Volume(y) = Volume(x) + n
  BY <1>1, <1>2, SpanFinite, VolumeGain
<1> QED
  BY <1>3, <1>4

\* A ring that is as it was or was swept.
LEMMA KeptRing ==
  ASSUME LimiterTypes, NEW w \in Ring, Placed(w), NEW x,
         x = w \/ \E s \in Seconds : s <= clock /\ x = Swept(w, s)
  PROVE  /\ x \in Ring /\ Placed(x) /\ \A u \in Recent : Counted(x, u) = Counted(w, u)
         /\ \A lag \in Nat, from \in Nat : lag <= MaxLag /\ from >= Oldest =>
              Since(x, lag, from) = Since(w, lag, from)
         /\ Volume(Values(x)) <= Volume(Values(w))
<1>1. CASE x = w
  <2>1. Volume(Values(w)) \in Nat
    BY RingSums, IndicesFinite, VolumeNat
  <2> QED BY <1>1, <2>1
<1>2. CASE \E s \in Seconds : s <= clock /\ x = Swept(w, s)
  BY <1>2, SweepKeeps
<1> QED
  BY <1>1, <1>2

\* The history is as it was, and the rings are or were swept.
LEMMA SameRings ==
  ASSUME LimiterTypes, RingsHold, UNCHANGED <<clock, booked>>,
         req' = req \/ \E s \in Seconds : s <= clock /\ req' = Swept(req, s),
         tok' = tok \/ \E s \in Seconds : s <= clock /\ tok' = Swept(tok, s)
  PROVE  RingsHold'
<1> USE DEF RingsHold
<1>1. UNCHANGED <<clock, served, entered, used>>
  BY DEF booked
<1>2. Recent' = Recent
  BY <1>1 DEF Recent
<1>3. Oldest \in Nat /\ MaxLag \in Nat /\ \A u \in Recent : u \in Nat /\ u >= Oldest
  BY Times
<1>4. /\ req' \in Ring /\ Placed(req') /\ \A u \in Recent : Counted(req', u) = Counted(req, u)
      /\ \A lag \in Nat, from \in Nat : lag <= MaxLag /\ from >= Oldest =>
           Since(req', lag, from) = Since(req, lag, from)
      /\ Volume(Values(req')) <= Volume(Values(req))
  BY KeptRing
<1>5. /\ tok' \in Ring /\ Placed(tok') /\ \A u \in Recent : Counted(tok', u) = Counted(tok, u)
      /\ \A lag \in Nat, from \in Nat : lag <= MaxLag /\ from >= Oldest =>
           Since(tok', lag, from) = Since(tok, lag, from)
  BY KeptRing
<1>6. Placed(req)' /\ Placed(tok)' /\ NoFuture'
  BY <1>1, <1>4, <1>5 DEF Placed, NoFuture
<1>7. RingExact'
  BY <1>1, <1>2, <1>4, <1>5 DEF RingExact, Counted
<1>8. Volume(Values(req))' <= Rpm
  <2>1. Volume(Values(req)) \in Nat /\ Volume(Values(req')) \in Nat /\ Rpm \in Nat
    BY <1>4, RingSums, IndicesFinite, VolumeNat, LimiterAssumption
  <2>2. Values(req)' = Values(req')
    BY DEF Values
  <2>3. Volume(Values(req))' = Volume(Values(req'))
    BY <2>2 DEF Volume
  <2> QED BY <1>4, <2>1, <2>3
<1>9. Behind(entered, req, MaxLag)' /\ Behind(used, tok, 0)'
  BY <1>1, <1>2, <1>3, <1>4, <1>5 DEF Behind, Total, Volume, Since
<1> QED
  BY <1>4, <1>5, <1>6, <1>7, <1>8, <1>9

LEMMA PastFinite ==
  /\ IsFiniteSet(Past) /\ Cardinality(Past) \in Nat /\ Cardinality(Reqs) \in Nat
  /\ Cardinality(Past) <= Cardinality(Reqs)
<1>1. Past \subseteq Reqs
  BY DEF Past
<1> QED
  BY <1>1, LimiterAssumption, FS_Subset, FS_CardinalityType

LEMMA Scaled ==
  ASSUME NEW a \in Nat, NEW b \in Nat, NEW m \in Nat, a <= b
  PROVE  a * m \in Nat /\ b * m \in Nat /\ a * m <= b * m
<1>1. PICK c \in Nat : b = a + c
  <2>1. b - a \in Nat /\ b = a + (b - a)
    OBVIOUS
  <2> QED BY <2>1
<1>2. (a + c) * m = a * m + c * m /\ c * m \in Nat /\ a * m \in Nat
  OBVIOUS
<1> QED
  BY <1>1, <1>2

\* Nobody came past the token limit, and no more was used lately.
LEMMA FewerPast ==
  ASSUME LimiterTypes, Overshoot, Past' \subseteq Past,
         Total(used, Oldest, clock)' \in Nat, Total(used, Oldest, clock)' <= Total(used, Oldest, clock)
  PROVE  Overshoot'
<1>1. Cardinality(Past') \in Nat /\ Cardinality(Past) \in Nat /\ Cardinality(Past') <= Cardinality(Past)
  BY PastFinite, FS_Subset, FS_CardinalityType
<1>2. MaxTokens \in Nat /\ Tpm \in Nat /\ Cardinality(Reqs) * MaxTokens \in Nat
  BY PastFinite, LimiterAssumption, Scaled
<1>3. Cardinality(Past') * MaxTokens \in Nat /\ Cardinality(Past) * MaxTokens \in Nat
      /\ Cardinality(Past') * MaxTokens <= Cardinality(Past) * MaxTokens
  BY <1>1, <1>2, Scaled
<1>4. Total(used, Oldest, clock) \in Nat
  BY TotalNat DEF LimiterTypes
<1>5. ASSUME NEW a \in Nat, NEW b \in Nat, NEW x \in Nat, NEW y \in Nat, NEW z \in Int,
             a <= b, x <= y, b + y <= z
      PROVE  a + x <= z
  BY <1>5
<1>6. Total(used, Oldest, clock)' + Cardinality(Past') * MaxTokens <= Tpm - 1 + Cardinality(Reqs) * MaxTokens
  BY <1>2, <1>3, <1>4, <1>5 DEF Overshoot
<1> QED
  BY <1>6 DEF Overshoot

\* The steps of a request that touch neither ring nor history.
LEMMA AloneStep ==
  ASSUME LimiterInv, NEW r \in Reqs, Arrive(r) \/ ReadClock(r) \/ Unobserved(r)
  PROVE  LimiterInv'
<1> USE DEF LimiterInv
<1>1. UNCHANGED <<clock, booked, served, entered, used>> /\ req' = req /\ tok' = tok /\ check' = check
  BY DEF Arrive, ReadClock, Unobserved, booked, rings
<1>2. RingsHold'
  BY <1>1, SameRings
<1>3. clock \in Nat /\ MaxLag \in Nat
  BY Times
<1>4. LimiterTypes' /\ Stamped' /\ Past' \subseteq Past
  <2>1. CASE Arrive(r)
    BY <1>1, <1>3, <2>1 DEF LimiterTypes, Stamped, Past, Arrive, Goto
  <2>2. CASE ReadClock(r)
    BY <1>1, <1>3, <2>2 DEF LimiterTypes, Stamped, Past, ReadClock, Goto
  <2>3. CASE Unobserved(r)
    BY <1>1, <1>3, <2>3 DEF LimiterTypes, Stamped, Past, Unobserved, Goto
  <2> QED BY <2>1, <2>2, <2>3
<1>5. Total(used, Oldest, clock)' = Total(used, Oldest, clock)
  BY <1>1 DEF Total, Volume, Oldest
<1>6. Total(used, Oldest, clock) \in Nat
  BY TotalNat DEF LimiterTypes
<1>7. Overshoot'
  BY <1>4, <1>5, <1>6, FewerPast
<1> QED
  BY <1>2, <1>4, <1>7

\* A refusal leaves a swept ring and takes the request out.
LEMMA RefuseStep ==
  ASSUME LimiterInv, NEW r \in Reqs, TPMBlocked(r) \/ DenyRPM(r)
  PROVE  LimiterInv'
<1> USE DEF LimiterInv
<1>1. UNCHANGED <<clock, booked, served, entered, used>>
  BY DEF TPMBlocked, DenyRPM, Refused, booked
<1>2. stamp[r] \in Seconds /\ stamp[r] <= clock
  BY DEF TPMBlocked, DenyRPM, At, Stamped, LimiterTypes
<1>3. /\ req' = req \/ req' = Swept(req, stamp[r])
      /\ tok' = tok \/ tok' = Swept(tok, stamp[r])
      /\ pc' = [pc EXCEPT ![r] = "idle"] /\ check' = [check EXCEPT ![r] = 1]
      /\ stamp' = [stamp EXCEPT ![r] = 0]
  BY DEF TPMBlocked, DenyRPM, Refused, Goto
<1>4. RingsHold'
  BY <1>1, <1>2, <1>3, SameRings
<1>5. clock \in Nat /\ MaxLag \in Nat /\ 0 \in Seconds
  BY Times
<1>6. LimiterTypes'
  BY <1>1, <1>3, <1>4, <1>5 DEF LimiterTypes, RingsHold
<1>7. Stamped' /\ Past' \subseteq Past
  BY <1>1, <1>3, <1>5 DEF LimiterTypes, Stamped, Past
<1>8. Total(used, Oldest, clock)' = Total(used, Oldest, clock)
  BY <1>1 DEF Total, Volume, Oldest
<1>9. Total(used, Oldest, clock) \in Nat
  BY TotalNat DEF LimiterTypes
<1>10. Overshoot'
  BY <1>7, <1>8, <1>9, FewerPast
<1> QED
  BY <1>4, <1>6, <1>7, <1>10

\* The token limit lets through only when less than it was used lately.
LEMMA ClearStep ==
  ASSUME LimiterInv, NEW r \in Reqs, TPMClear(r)
  PROVE  LimiterInv'
<1> USE DEF LimiterInv
<1>1. check[r] = 1 /\ pc[r] = "locking" /\ ~Full(tok, stamp[r], Tpm) /\ tok' = Swept(tok, stamp[r]) /\ req' = req
  BY DEF TPMClear, At, Order, LimiterTypes
<1>2. /\ UNCHANGED <<clock, booked, served, entered, used>>
      /\ pc' = [pc EXCEPT ![r] = "asking"] /\ check' = [check EXCEPT ![r] = 2]
      /\ stamp' = [stamp EXCEPT ![r] = 0]
  BY <1>1 DEF TPMClear, Passed, Goto, booked, LimiterTypes
<1>3. stamp[r] \in Seconds /\ stamp[r] <= clock
  BY <1>1 DEF Stamped, LimiterTypes
<1>4. RingsHold'
  BY <1>1, <1>2, <1>3, SameRings
<1>5. clock \in Nat /\ MaxLag \in Nat /\ 0 \in Seconds
  BY Times
<1>6. LimiterTypes'
  BY <1>2, <1>4, <1>5 DEF LimiterTypes, RingsHold
<1>7. Stamped'
  BY <1>2, <1>5 DEF LimiterTypes, Stamped
<1>8. Total(used, Oldest, clock) <= Tpm - 1
  <2> DEFINE x == Swept(tok, stamp[r])
  <2>1. x \in Ring /\ \A lag \in Nat, from \in Nat : lag <= MaxLag /\ from >= Oldest =>
          Since(x, lag, from) = Since(tok, lag, from)
    BY <1>3, SweepKeeps DEF LimiterTypes
  <2>2. Oldest \in Recent /\ Oldest \in Nat
    BY Times
  <2>3. Total(used, Oldest, clock) <= Volume(Since(x, 0, Oldest))
    <3>1. Since(x, 0, Oldest) = Since(tok, 0, Oldest)
      BY <1>5, <2>1, <2>2
    <3> QED BY <2>2, <3>1 DEF RingsHold, Behind
  <2>4. Volume(Since(x, 0, Oldest)) <= Volume(Values(x))
    <3>1. Since(x, 0, Oldest) \in [Indices -> Nat] /\ Values(x) \in [Indices -> Nat]
      BY <2>1, RingSums
    <3>2. \A i \in Indices : Since(x, 0, Oldest)[i] # 0 => Since(x, 0, Oldest)[i] = Values(x)[i]
      BY DEF Since, Values
    <3>3. \A i \in Indices : Since(x, 0, Oldest)[i] # 0 =>
            i \in Indices /\ Since(x, 0, Oldest)[i] <= Values(x)[i]
      BY <3>1, <3>2
    <3> QED BY <3>1, <3>3, IndicesFinite, VolumeLess
  <2>5. Sum(tok, stamp[r]) = Volume(Values(x))
    BY DEF Sum, Values
  <2>6. Total(used, Oldest, clock) \in Nat /\ Volume(Values(x)) \in Nat /\ Volume(Since(x, 0, Oldest)) \in Nat
    BY <2>1, RingSums, IndicesFinite, VolumeNat, TotalNat DEF LimiterTypes
  <2>7. ~(Volume(Values(x)) >= Tpm) /\ Tpm \in Nat
    BY <1>1, <2>5, LimiterAssumption DEF Full
  <2> HIDE DEF x
  <2> QED BY <2>3, <2>4, <2>6, <2>7
<1>9. Overshoot'
  <2>1. Total(used, Oldest, clock)' = Total(used, Oldest, clock)
    BY <1>2 DEF Total, Volume, Oldest
  <2>2. Cardinality(Past') \in Nat /\ Cardinality(Reqs) \in Nat /\ Cardinality(Past') <= Cardinality(Reqs)
    <3>1. Past' \subseteq Reqs
      BY DEF Past
    <3> QED BY <3>1, LimiterAssumption, FS_Subset, FS_CardinalityType
  <2>3. MaxTokens \in Nat /\ Tpm \in Nat
    BY LimiterAssumption
  <2>4. Cardinality(Past') * MaxTokens \in Nat /\ Cardinality(Reqs) * MaxTokens \in Nat
        /\ Cardinality(Past') * MaxTokens <= Cardinality(Reqs) * MaxTokens
    BY <2>2, <2>3, Scaled
  <2>5. Total(used, Oldest, clock) \in Nat
    BY TotalNat DEF LimiterTypes
  <2>6. Total(used, Oldest, clock)' + Cardinality(Past') * MaxTokens <= Tpm - 1 + Cardinality(Reqs) * MaxTokens
    BY <1>8, <2>1, <2>3, <2>4, <2>5
  <2> QED BY <2>6 DEF Overshoot
<1> QED
  BY <1>4, <1>6, <1>7, <1>9

\* A slot is counted in the ring and in both histories.
LEMMA AllowStep ==
  ASSUME LimiterInv, NEW r \in Reqs, AllowRPM(r)
  PROVE  LimiterInv'
<1> USE DEF LimiterInv
<1> DEFINE s == stamp[r]
           x == Swept(req, s)
<1>1. /\ check[r] = 2 /\ pc[r] = "locking" /\ ~Full(req, s, Rpm)
      /\ req' = add(x, s, 1) /\ tok' = tok
  BY DEF AllowRPM, At, Order, LimiterTypes
<1>2. /\ UNCHANGED <<clock, used>>
      /\ pc' = [pc EXCEPT ![r] = "serving"] /\ check' = [check EXCEPT ![r] = 1]
      /\ stamp' = [stamp EXCEPT ![r] = 0]
      /\ entered' = [entered EXCEPT ![clock] = @ + 1] /\ served' = [served EXCEPT ![s] = @ + 1]
  BY <1>1 DEF AllowRPM, Passed, Goto, LimiterTypes
<1>3. s \in Seconds /\ s <= clock /\ clock <= s + MaxLag
  BY <1>1 DEF Stamped, LimiterTypes
<1> HIDE DEF s
<1>4. /\ x \in Ring /\ Placed(x) /\ \A u \in Recent : Counted(x, u) = Counted(req, u)
      /\ \A lag \in Nat, from \in Nat : lag <= MaxLag /\ from >= Oldest =>
           Since(x, lag, from) = Since(req, lag, from)
  BY <1>3, SweepKeeps DEF RingsHold
<1>5. Volume(Values(x)) <= Rpm - 1
  <2>1. Sum(req, s) = Volume(Values(x))
    BY DEF Sum, Values
  <2>2. Volume(Values(x)) \in Nat /\ Rpm \in Nat
    BY <1>4, RingSums, IndicesFinite, VolumeNat, LimiterAssumption
  <2> QED BY <1>1, <2>1, <2>2 DEF Full
<1> HIDE DEF x
<1>6. /\ req' \in Ring /\ Placed(req')
      /\ \A u \in Recent : Counted(req', u) = Counted(x, u) + IF u = s THEN 1 ELSE 0
      /\ \A lag \in Nat, from \in Nat : lag <= MaxLag /\ from >= Oldest /\ from <= s + lag =>
           Volume(Since(req', lag, from)) = Volume(Since(x, lag, from)) + 1
      /\ Volume(Values(req')) <= Volume(Values(x)) + 1
  BY <1>1, <1>3, <1>4, AddCounts
<1>7. clock \in Nat /\ MaxLag \in Nat /\ 0 \in Seconds /\ clock \in Seconds /\ Oldest \in Nat
      /\ \A u \in Recent : u \in Nat /\ u >= Oldest /\ u <= clock
  BY Times
<1>8. LimiterTypes'
  BY <1>1, <1>2, <1>3, <1>6, <1>7 DEF LimiterTypes
<1>9. Stamped' /\ Past' \subseteq Past
  BY <1>1, <1>2, <1>7 DEF LimiterTypes, Stamped, Past
<1>10. Recent' = Recent
  BY <1>2 DEF Recent
<1>11. RingsHold'
  <2>1. Placed(req)' /\ Placed(tok)'
    BY <1>1, <1>2, <1>6 DEF Placed, RingsHold
  <2>2. NoFuture'
    BY <1>2, <1>3, <1>7 DEF NoFuture, RingsHold, LimiterTypes, Seconds
  <2>3. RingExact'
    <3>1. \A u \in Recent : u \in Seconds
      BY <1>7, Times
    <3>2. \A u \in Recent : Counted(req', u) = served'[u]
      BY <1>2, <1>4, <1>6, <3>1 DEF RingsHold, RingExact, LimiterTypes
    <3>3. \A u \in Recent : Counted(tok', u) = used'[u]
      BY <1>1, <1>2 DEF RingsHold, RingExact
    <3>4. \A u \in Recent : Counted(req, u)' = Counted(req', u) /\ Counted(tok, u)' = Counted(tok', u)
      BY DEF Counted
    <3> QED BY <1>10, <3>2, <3>3, <3>4 DEF RingExact
  <2>4. Volume(Values(req))' <= Rpm
    <3>1. Volume(Values(x)) \in Nat /\ Volume(Values(req')) \in Nat /\ Rpm \in Nat
      BY <1>4, <1>6, RingSums, IndicesFinite, VolumeNat, LimiterAssumption
    <3>2. Volume(Values(req))' = Volume(Values(req'))
      BY DEF Values, Volume
    <3> QED BY <1>5, <1>6, <3>1, <3>2
  <2>5. Behind(entered, req, MaxLag)'
    <3>1. ASSUME NEW from \in Recent
          PROVE  Total(entered', from, clock) <= Volume(Since(req', MaxLag, from))
      <4>1. from \in Nat /\ from >= Oldest /\ from <= clock /\ from <= s + MaxLag
        BY <1>3, <1>7 DEF Seconds
      <4>2. Volume(Since(req', MaxLag, from)) = Volume(Since(req, MaxLag, from)) + 1
        BY <1>4, <1>6, <1>7, <4>1
      <4>3. Total(entered', from, clock) = Total(entered, from, clock) + 1
        <5>1. /\ entered \in [Seconds -> Nat] /\ entered' \in [Seconds -> Nat]
              /\ entered'[clock] = entered[clock] + 1
              /\ \A t \in Seconds : t # clock => entered'[t] = entered[t]
          BY <1>2, <1>7, <1>8 DEF LimiterTypes
        <5> QED BY <1>7, <4>1, <5>1, TotalGain
      <4>4. Total(entered, from, clock) <= Volume(Since(req, MaxLag, from))
        BY DEF RingsHold, Behind
      <4>5. Total(entered, from, clock) \in Nat /\ Volume(Since(req, MaxLag, from)) \in Nat
        BY RingSums, IndicesFinite, VolumeNat, TotalNat DEF LimiterTypes
      <4> QED BY <4>2, <4>3, <4>4, <4>5
    <3> QED BY <1>2, <1>10, <3>1 DEF Behind, Total, Volume, Since
  <2>6. Behind(used, tok, 0)'
    BY <1>1, <1>2, <1>10 DEF RingsHold, Behind, Total, Volume, Since
  <2> QED BY <1>6, <1>8, <2>1, <2>2, <2>3, <2>4, <2>5, <2>6 DEF RingsHold, LimiterTypes
<1>12. Overshoot'
  <2>1. Total(used, Oldest, clock)' = Total(used, Oldest, clock)
    BY <1>2 DEF Total, Volume, Oldest
  <2>2. Total(used, Oldest, clock) \in Nat
    BY TotalNat DEF LimiterTypes
  <2> QED BY <1>9, <2>1, <2>2, FewerPast
<1> QED
  BY <1>8, <1>9, <1>11, <1>12

\* What a request used is counted as it stops to be one that may report.
LEMMA ObserveStep ==
  ASSUME LimiterInv, NEW r \in Reqs, ObserveTPM(r)
  PROVE  LimiterInv'
<1> USE DEF LimiterInv
<1>1. PICK n \in 1 .. MaxTokens : tok' = add(tok, clock, n) /\ used' = [used EXCEPT ![clock] = @ + n]
  BY DEF ObserveTPM
<1>2. /\ UNCHANGED <<clock, req, check, stamp, served, entered>>
      /\ pc[r] = "serving" /\ pc' = [pc EXCEPT ![r] = "idle"]
  BY DEF ObserveTPM, Goto
<1>3. /\ clock \in Nat /\ MaxLag \in Nat /\ clock \in Seconds /\ Oldest \in Nat /\ Oldest <= clock
      /\ \A u \in Recent : u \in Nat /\ u >= Oldest /\ u <= clock
  BY Times
<1>4. n \in Nat /\ n <= MaxTokens /\ MaxTokens \in Nat
  BY LimiterAssumption
<1>5. /\ tok' \in Ring /\ Placed(tok')
      /\ \A u \in Recent : Counted(tok', u) = Counted(tok, u) + IF u = clock THEN n ELSE 0
      /\ \A lag \in Nat, from \in Nat : lag <= MaxLag /\ from >= Oldest /\ from <= clock + lag =>
           Volume(Since(tok', lag, from)) = Volume(Since(tok, lag, from)) + n
  <2>1. clock <= clock + MaxLag /\ clock <= clock
    BY <1>3
  <2> QED BY <1>1, <1>3, <1>4, <2>1, AddCounts DEF RingsHold
<1>6. LimiterTypes'
  BY <1>1, <1>2, <1>3, <1>4, <1>5 DEF LimiterTypes
<1>7. /\ used \in [Seconds -> Nat] /\ used' \in [Seconds -> Nat] /\ used'[clock] = used[clock] + n
      /\ \A t \in Seconds : t # clock => used'[t] = used[t]
  BY <1>1, <1>3, <1>4, <1>6 DEF LimiterTypes
<1>8. Stamped' /\ Past' = Past \ {r} /\ r \in Past
  BY <1>2 DEF LimiterTypes, Stamped, Past
<1>9. Recent' = Recent
  BY <1>2 DEF Recent
<1>10. RingsHold'
  <2>1. Placed(req)' /\ Placed(tok)'
    BY <1>2, <1>5 DEF Placed, RingsHold
  <2>2. NoFuture'
    BY <1>1, <1>2, <1>3 DEF NoFuture, RingsHold, LimiterTypes, Seconds
  <2>3. RingExact'
    <3>1. \A u \in Recent : u \in Seconds
      BY <1>3, Times
    <3>2. \A u \in Recent : Counted(tok', u) = used'[u]
      BY <1>1, <1>3, <1>4, <1>5, <3>1 DEF RingsHold, RingExact, LimiterTypes
    <3>3. \A u \in Recent : Counted(req', u) = served'[u]
      BY <1>2 DEF RingsHold, RingExact
    <3>4. \A u \in Recent : Counted(req, u)' = Counted(req', u) /\ Counted(tok, u)' = Counted(tok', u)
      BY DEF Counted
    <3> QED BY <1>9, <3>2, <3>3, <3>4 DEF RingExact
  <2>4. Volume(Values(req))' <= Rpm
    BY <1>2 DEF Values, Volume, RingsHold
  <2>5. Behind(entered, req, MaxLag)'
    BY <1>2, <1>9 DEF RingsHold, Behind, Total, Volume, Since
  <2>6. Behind(used, tok, 0)'
    <3>1. ASSUME NEW from \in Recent
          PROVE  Total(used', from, clock) <= Volume(Since(tok', 0, from))
      <4>1. from \in Nat /\ from >= Oldest /\ from <= clock /\ from <= clock + 0 /\ 0 <= MaxLag
        BY <1>3
      <4>2. Volume(Since(tok', 0, from)) = Volume(Since(tok, 0, from)) + n
        BY <1>5, <4>1
      <4>3. Total(used', from, clock) = Total(used, from, clock) + n
        BY <1>3, <1>4, <1>7, <4>1, TotalGain
      <4>4. Total(used, from, clock) <= Volume(Since(tok, 0, from))
        BY DEF RingsHold, Behind
      <4>5. Total(used, from, clock) \in Nat /\ Volume(Since(tok, 0, from)) \in Nat
        BY RingSums, IndicesFinite, VolumeNat, TotalNat DEF LimiterTypes
      <4> QED BY <1>4, <4>2, <4>3, <4>4, <4>5
    <3> QED BY <1>2, <1>9, <3>1 DEF Behind, Total, Volume, Since
  <2> QED BY <1>2, <1>5, <2>1, <2>2, <2>3, <2>4, <2>5, <2>6 DEF RingsHold
<1>11. Overshoot'
  <2>1. Total(used', Oldest, clock) = Total(used, Oldest, clock) + n
    BY <1>3, <1>4, <1>7, TotalGain
  <2>2. Total(used, Oldest, clock)' = Total(used', Oldest, clock)
    BY <1>2 DEF Total, Volume, Oldest
  <2>3. Cardinality(Past') \in Nat /\ Cardinality(Past) = Cardinality(Past') + 1
    BY <1>8, PastFinite, FS_RemoveElement, FS_CardinalityType, FS_Subset
  <2>4. Cardinality(Past) * MaxTokens = Cardinality(Past') * MaxTokens + MaxTokens
    BY <1>4, <2>3
  <2>5. Cardinality(Past') * MaxTokens \in Nat /\ Cardinality(Reqs) * MaxTokens \in Nat /\ Tpm \in Nat
        /\ Total(used, Oldest, clock) \in Nat
    BY <1>4, <2>3, PastFinite, Scaled, LimiterAssumption, TotalNat DEF LimiterTypes
  <2>6. Total(used, Oldest, clock)' + Cardinality(Past') * MaxTokens <= Tpm - 1 + Cardinality(Reqs) * MaxTokens
    BY <1>4, <2>1, <2>2, <2>4, <2>5 DEF Overshoot
  <2> QED BY <2>6 DEF Overshoot
<1> QED
  BY <1>6, <1>8, <1>10, <1>11

\* The windows move on: the oldest second leaves them, the new one is empty.
LEMMA TickStep == ASSUME LimiterInv, LimiterTick PROVE LimiterInv'
<1> USE DEF LimiterInv
<1>1. /\ clock < MaxClock /\ clock' = clock + 1
      /\ \A r \in Reqs : pc[r] = "locking" => clock < stamp[r] + MaxLag
      /\ served' = Remembered(served) /\ entered' = Remembered(entered) /\ used' = Remembered(used)
      /\ UNCHANGED <<req, tok, pc, check, stamp>>
  BY DEF LimiterTick, rings
<1>2. /\ clock \in Nat /\ MaxLag \in Nat /\ Window \in Nat \ {0} /\ MaxClock \in Nat
      /\ Oldest \in Nat /\ Oldest <= clock
      /\ \A t : t \in Recent <=> t \in Nat /\ Oldest <= t /\ t <= clock
      /\ \A t \in Nat : t <= clock => t \in Seconds
  BY Times
<1>3. Oldest' = Oldest + 1
  BY <1>1, <1>2 DEF Oldest
<1>4. \A h \in [Seconds -> Nat] :
        /\ Remembered(h) \in [Seconds -> Nat]
        /\ \A t \in Seconds : Remembered(h)[t] = IF t >= Oldest + 1 THEN h[t] ELSE 0
  <2>1. \A t \in Seconds : t + Window > clock + 1 + MaxLag <=> t >= Oldest + 1
    BY <1>2 DEF Oldest, Seconds
  <2> QED BY <2>1 DEF Remembered
<1>5. LimiterTypes'
  <2>1. clock' \in Seconds /\ Window <= clock'
    BY <1>1, <1>2 DEF LimiterTypes, Seconds
  <2>2. served' \in [Seconds -> Nat] /\ entered' \in [Seconds -> Nat] /\ used' \in [Seconds -> Nat]
    BY <1>1, <1>4 DEF LimiterTypes
  <2> QED BY <1>1, <2>1, <2>2 DEF LimiterTypes
<1>6. /\ \A t : (t \in Recent)' <=> t \in Nat /\ Oldest + 1 <= t /\ t <= clock + 1
  <2>1. \A t : (t \in Recent)' <=> t \in Nat /\ Oldest' <= t /\ t <= clock'
    BY <1>1, <1>2, <1>3 DEF Recent, Oldest
  <2> QED BY <1>1, <1>3, <2>1
<1>7. Stamped'
  <2>1. \A r \in Reqs : stamp[r] \in Nat
    BY DEF LimiterTypes, Seconds
  <2> QED BY <1>1, <1>2, <2>1 DEF Stamped
<1>8. NoFuture'
  <2>1. ASSUME NEW h \in [Seconds -> Nat], \A t \in Seconds : t > clock => h[t] = 0,
               NEW t \in Seconds, t > clock + 1
        PROVE  Remembered(h)[t] = 0
    <3>1. h[t] = 0
      BY <1>2, <2>1 DEF Seconds
    <3> QED BY <1>4, <3>1
  <2>2. \A t \in Seconds : t > clock + 1 => /\ Remembered(served)[t] = 0
                                          /\ Remembered(entered)[t] = 0 /\ Remembered(used)[t] = 0
    BY <2>1 DEF NoFuture, RingsHold, LimiterTypes
  <2> QED BY <1>1, <2>2 DEF NoFuture
<1>9. Past' = Past
  BY <1>1 DEF Past
<1>10. ASSUME NEW h \in [Seconds -> Nat], \A t \in Seconds : t > clock => h[t] = 0, NEW from \in Nat
       PROVE  /\ Total(Remembered(h), from, clock + 1) \in Nat
              /\ Total(Remembered(h), from, clock + 1) <= Total(h, from, clock)
              /\ from <= Oldest + 1 => Total(Remembered(h), from, clock + 1) <= Total(h, Oldest, clock)
  <2>1. Remembered(h) \in [Seconds -> Nat]
    BY <1>4, <1>10
  <2>2. \A t \in Seconds : from <= t /\ t <= clock + 1 /\ Remembered(h)[t] # 0 =>
          t >= Oldest + 1 /\ Remembered(h)[t] = h[t] /\ t <= clock
    BY <1>2, <1>4, <1>10 DEF Seconds
  <2>3. \A t \in Seconds : from <= t /\ t <= clock + 1 /\ Remembered(h)[t] # 0 =>
          from <= t /\ t <= clock /\ Remembered(h)[t] <= h[t]
    BY <1>10, <2>1, <2>2
  <2>4. \A t \in Seconds : from <= t /\ t <= clock + 1 /\ Remembered(h)[t] # 0 =>
          Oldest <= t /\ t <= clock /\ Remembered(h)[t] <= h[t]
    BY <1>2, <1>10, <2>1, <2>2 DEF Seconds
  <2> QED BY <1>10, <2>1, <2>3, <2>4, TotalNat, TotalLess
<1>11. RingsHold'
  <2>1. Placed(req)' /\ Placed(tok)'
    <3>1. ASSUME NEW w \in Ring, NEW i \in Indices, w[i].sec <= clock PROVE w[i].sec <= clock'
      <4>1. w[i].sec \in Nat
        BY DEF Ring, Seconds
      <4> QED BY <1>1, <1>2, <3>1, <4>1
    <3> QED BY <1>1, <3>1 DEF Placed, RingsHold
  <2>2. RingExact'
    <3>1. ASSUME NEW t \in Nat, Oldest + 1 <= t, t <= clock + 1
          PROVE  Counted(req, t) = served'[t] /\ Counted(tok, t) = used'[t]
      <4>1. t \in Seconds
        BY <1>1, <1>2, <3>1 DEF Seconds
      <4>2. served'[t] = served[t] /\ used'[t] = used[t]
        BY <1>1, <1>4, <3>1, <4>1 DEF LimiterTypes
      <4>3. CASE t <= clock
        BY <1>2, <3>1, <4>2, <4>3 DEF RingsHold, RingExact
      <4>4. CASE t = clock + 1
        <5>1. served[t] = 0 /\ used[t] = 0
          BY <1>2, <4>1, <4>4 DEF RingsHold, NoFuture
        <5>2. t % Window \in Indices
          BY <1>2 DEF Indices
        <5>3. ASSUME NEW w \in Ring, Placed(w) PROVE Counted(w, t) = 0
          <6>1. w[t % Window].v # 0 => w[t % Window].sec <= clock
            BY <5>2, <5>3 DEF Placed
          <6>2. w[t % Window].v # 0 => w[t % Window].sec # t
            BY <1>2, <4>4, <6>1
          <6> QED BY <6>2 DEF Counted
        <5> QED BY <4>2, <5>1, <5>3 DEF RingsHold
      <4> QED BY <1>2, <3>1, <4>3, <4>4
    <3>2. \A t : Counted(req, t)' = Counted(req, t) /\ Counted(tok, t)' = Counted(tok, t)
      BY <1>1 DEF Counted
    <3> QED BY <1>6, <3>1, <3>2 DEF RingExact
  <2>3. Volume(Values(req))' <= Rpm
    BY <1>1 DEF Values, Volume, RingsHold
  <2>4. \A t \in Seconds : t > clock => entered[t] = 0 /\ used[t] = 0
    BY DEF RingsHold, NoFuture
  <2>5. ASSUME NEW h \in [Seconds -> Nat], NEW w \in Ring, NEW lag \in Nat, Behind(h, w, lag),
               \A t \in Seconds : t > clock => h[t] = 0,
               NEW from \in Nat, Oldest + 1 <= from, from <= clock + 1
        PROVE  Total(Remembered(h), from, clock + 1) <= Volume(Since(w, lag, from))
    <3>1. /\ Total(Remembered(h), from, clock + 1) \in Nat
          /\ Total(Remembered(h), from, clock + 1) <= Total(h, from, clock)
      BY <1>10, <2>5
    <3>2. Volume(Since(w, lag, from)) \in Nat /\ Total(h, from, clock) \in Nat
      BY RingSums, IndicesFinite, VolumeNat, TotalNat
    <3>3. CASE from <= clock
      <4>1. from \in Recent
        BY <1>2, <2>5, <3>3
      <4> QED BY <2>5, <3>1, <3>2, <4>1 DEF Behind
    <3>4. CASE from = clock + 1
      <4>1. \A t \in Seconds : from <= t /\ t <= clock /\ h[t] # 0 => FALSE
        BY <1>2, <3>4 DEF Seconds
      <4>2. Span(from, clock) = {}
        BY <1>2, <3>4 DEF Span, Seconds
      <4>3. Part(h, from, clock) = [t \in {} |-> h[t]] /\ DOMAIN Part(h, from, clock) = {}
        BY <4>2 DEF Part
      <4>4. Total(h, from, clock) = 0
        <5>1. Cells(Part(h, from, clock)) = {}
          BY <4>3 DEF Cells
        <5>2. Volume(Part(h, from, clock)) = 0
          BY <5>1, FS_EmptySet DEF Volume, Cells
        <5> QED BY <5>2, TotalNat
      <4> QED BY <3>1, <3>2, <4>4
    <3> QED BY <1>2, <2>5, <3>3, <3>4
  <2>6. Behind(entered, req, MaxLag)'
    <3>1. \A from \in Nat : Oldest + 1 <= from /\ from <= clock + 1 =>
            Total(entered', from, clock') <= Volume(Since(req, MaxLag, from))
      BY <1>1, <1>2, <2>4, <2>5 DEF RingsHold, LimiterTypes
    <3> QED BY <1>1, <1>6, <3>1 DEF Behind, Total, Volume, Since
  <2>7. Behind(used, tok, 0)'
    <3>1. \A from \in Nat : Oldest + 1 <= from /\ from <= clock + 1 =>
            Total(used', from, clock') <= Volume(Since(tok, 0, from))
      BY <1>1, <1>2, <2>4, <2>5 DEF RingsHold, LimiterTypes
    <3> QED BY <1>1, <1>6, <3>1 DEF Behind, Total, Volume, Since
  <2> QED BY <1>1, <1>8, <2>1, <2>2, <2>3, <2>6, <2>7 DEF RingsHold
<1>12. Overshoot'
  <2>1. \A t \in Seconds : t > clock => used[t] = 0
    BY DEF RingsHold, NoFuture
  <2>2. Oldest + 1 \in Nat /\ Oldest + 1 <= Oldest + 1 /\ used \in [Seconds -> Nat]
    BY <1>2 DEF LimiterTypes
  <2>3. /\ Total(Remembered(used), Oldest + 1, clock + 1) \in Nat
        /\ Total(Remembered(used), Oldest + 1, clock + 1) <= Total(used, Oldest, clock)
    BY <1>10, <2>1, <2>2
  <2>4. Total(used, Oldest, clock)' = Total(Remembered(used), Oldest + 1, clock + 1)
    <3>1. Total(used, Oldest, clock)' = Total(used', Oldest', clock')
      BY DEF Total, Volume
    <3> QED BY <1>1, <1>3, <3>1
  <2> QED BY <1>9, <2>3, <2>4, FewerPast
<1> QED
  BY <1>5, <1>7, <1>11, <1>12

\* Nothing anywhere is nothing in all.
LEMMA VolumeNone ==
  ASSUME NEW f, \A i \in DOMAIN f : f[i] = 0
  PROVE  Volume(f) = 0
<1>1. 1 .. 0 = {}
  OBVIOUS
<1>2. Cells(f) = {}
  BY <1>1 DEF Cells
<1> QED
  BY <1>2, FS_EmptySet DEF Volume, Cells

LEMMA InitLimiter == ASSUME LimiterInit PROVE LimiterInv
<1> USE DEF LimiterInit
<1>1. /\ Window \in Nat \ {0} /\ MaxClock \in Nat /\ Window <= MaxClock /\ 0 \in Seconds /\ Rpm \in Nat
      /\ Tpm \in Nat \ {0} /\ MaxTokens \in Nat
  BY LimiterAssumption DEF Seconds
<1>2. LimiterTypes
  <2>1. clock \in Seconds /\ Window <= clock
    BY <1>1 DEF Seconds
  <2>2. req \in Ring /\ tok \in Ring
    BY <1>1 DEF Ring
  <2> QED BY <1>1, <2>1, <2>2 DEF LimiterTypes
<1>3. Stamped
  BY DEF Stamped
<1>4. \A i \in Indices : req[i].v = 0 /\ tok[i].v = 0
  OBVIOUS
<1>5. Placed(req) /\ Placed(tok) /\ NoFuture
  BY <1>4 DEF Placed, NoFuture
<1>6. RingExact
  <2>1. \A t \in Recent : t \in Seconds /\ t % Window \in Indices
    BY <1>2, Times
  <2> QED BY <1>4, <2>1 DEF RingExact, Counted
<1>7. Volume(Values(req)) <= Rpm
  <2>1. Volume(Values(req)) = 0
    BY <1>4, VolumeNone DEF Values
  <2> QED BY <1>1, <2>1
<1>8. \A from : Total(entered, from, clock) = 0 /\ Total(used, from, clock) = 0
  <2>1. \A h, from : (\A t \in Seconds : h[t] = 0) => Total(h, from, clock) = 0
    BY VolumeNone DEF Total
  <2> QED BY <2>1
<1>9. Behind(entered, req, MaxLag) /\ Behind(used, tok, 0)
  <2>1. \A lag, from : Volume(Since(req, lag, from)) \in Nat /\ Volume(Since(tok, lag, from)) \in Nat
    BY <1>2, RingSums, IndicesFinite, VolumeNat DEF LimiterTypes
  <2>2. \A v \in Nat : 0 <= v
    OBVIOUS
  <2> QED BY <1>8, <2>1, <2>2 DEF Behind
<1>10. Overshoot
  <2>1. Past = {}
    BY DEF Past
  <2>2. Cardinality(Past) = 0
    BY <2>1, FS_EmptySet
  <2>3. Cardinality(Reqs) * MaxTokens \in Nat
    BY <1>1, PastFinite, Scaled
  <2>4. Total(used, Oldest, clock) + Cardinality(Past) * MaxTokens = 0
    BY <1>1, <1>8, <2>2
  <2> QED BY <1>1, <2>3, <2>4 DEF Overshoot
<1> QED
  BY <1>2, <1>3, <1>5, <1>6, <1>7, <1>9, <1>10 DEF LimiterInv, RingsHold, LimiterTypes

LEMMA StepLimiter == ASSUME LimiterInv, [LimiterNext]_limiterVars PROVE LimiterInv'
<1>1. CASE UNCHANGED limiterVars
  <2>1. UNCHANGED <<clock, req, tok, pc, check, stamp, served, entered, used>>
    BY <1>1 DEF limiterVars, rings, booked
  <2>2. LimiterTypes' /\ Stamped'
    BY <2>1 DEF LimiterInv, LimiterTypes, Stamped
  <2>3. RingsHold'
    BY <2>1, SameRings DEF LimiterInv, booked
  <2>4. Overshoot'
    BY <2>1 DEF LimiterInv, Overshoot, Total, Volume, Oldest, Past
  <2> QED BY <2>2, <2>3, <2>4 DEF LimiterInv
<1>2. CASE LimiterTick
  BY <1>2, TickStep
<1>3. ASSUME NEW r \in Reqs,
             \/ Arrive(r) \/ ReadClock(r)
             \/ TPMBlocked(r) \/ TPMClear(r) \/ DenyRPM(r) \/ AllowRPM(r)
             \/ ObserveTPM(r) \/ Unobserved(r)
      PROVE  LimiterInv'
  BY <1>3, AloneStep, RefuseStep, ClearStep, AllowStep, ObserveStep
<1> QED
  BY <1>1, <1>2, <1>3 DEF LimiterNext

\* A set of numbers that is not empty has a least one.
LEMMA LeastSecond ==
  ASSUME NEW S \in SUBSET Nat, S # {}
  PROVE  Min(S) \in S /\ \A y \in S : Min(S) <= y
<1>1. PICK x \in S : \A y \in S : ~(<<y, x>> \in OpToRel(<, Nat))
  BY NatLessThanWellFounded, WFMin
<1>2. ASSUME NEW y \in Nat, y < x PROVE <<y, x>> \in OpToRel(<, Nat)
  <2>1. <<y, x>> \in Nat \X Nat /\ <<y, x>>[1] < <<y, x>>[2]
    BY <1>2
  <2> QED BY <2>1, Zenon DEF OpToRel
<1>3. ASSUME NEW y \in S PROVE x <= y
  <2>1. ~(y < x)
    BY <1>1, <1>2
  <2> QED BY <2>1
<1> QED
  BY <1>3 DEF Min

\* The wait that a refusal names brings the oldest slot out of the window.
LEMMA RetryIsEnough ==
  ASSUME LimiterInv, NEW t \in Seconds, Full(req, t, Rpm)
  PROVE  ~Full(req, t + Retry(req, t), Rpm)
<1> DEFINE x == Swept(req, t)
           C == Contributing(req, t)
           u == t + Retry(req, t)
           y == Swept(req, u)
<1>1. t \in Nat /\ Window \in Nat /\ Rpm \in Nat \ {0} /\ req \in Ring
  BY LimiterAssumption DEF Seconds, LimiterInv, LimiterTypes
<1>2. /\ \A i \in Indices : req[i].sec \in Nat /\ req[i].v \in Nat
      /\ \A i \in Indices : x[i].v = IF t >= req[i].sec + Window THEN 0 ELSE req[i].v
      /\ \A i \in Indices : y[i].v = IF u >= req[i].sec + Window THEN 0 ELSE req[i].v
  <2>1. \A i \in Indices : req[i] \in [sec : Seconds, v : Nat]
    BY <1>1 DEF Ring
  <2>2. \A i \in Indices : req[i].sec \in Nat /\ req[i].v \in Nat
    BY <2>1 DEF Seconds
  <2>3. ASSUME NEW c, NEW i \in Indices
        PROVE  Swept(req, c)[i].v = IF c >= req[i].sec + Window THEN 0 ELSE req[i].v
    BY <2>1 DEF Swept, Expired
  <2>4. \A i \in Indices : x[i].v = IF t >= req[i].sec + Window THEN 0 ELSE req[i].v
    BY <2>3
  <2>5. \A i \in Indices : y[i].v = IF u >= req[i].sec + Window THEN 0 ELSE req[i].v
    BY <2>3, Zenon
  <2> QED BY <2>2, <2>4, <2>5
<1>3. Sum(req, t) = Volume(Values(x)) /\ Sum(req, u) = Volume(Values(y))
  BY DEF Sum, Values
<1>4. C \in SUBSET Nat /\ C = {req[i].sec : i \in {j \in Indices : x[j].v # 0}}
  BY <1>2 DEF Contributing
<1> HIDE DEF x, y, C
<1>5. C # {}
  <2> SUFFICES ASSUME C = {} PROVE FALSE
    OBVIOUS
  <2>1. \A i \in Indices : x[i].v = 0
    BY <1>4
  <2>2. Volume(Values(x)) = 0
    BY <2>1, VolumeNone DEF Values
  <2> QED BY <1>1, <1>3, <2>2 DEF Full
<1>6. Min(C) \in C /\ Min(C) \in Nat
  BY <1>4, <1>5, LeastSecond
<1>7. PICK j \in Indices : x[j].v # 0 /\ req[j].sec = Min(C)
  BY <1>4, <1>6
<1>8. Retry(req, t) \in Int /\ Retry(req, t) >= Min(C) + Window - t
  <2>1. ASSUME NEW k \in Int PROVE Max({1, k}) \in Int /\ Max({1, k}) >= k
    <3>1. \E z \in {1, k} : \A v \in {1, k} : z >= v
      OBVIOUS
    <3>2. Max({1, k}) \in {1, k} /\ \A v \in {1, k} : Max({1, k}) >= v
      BY <3>1 DEF Max
    <3> QED BY <3>2
  <2>2. Min(C) + Window - t \in Int
    BY <1>1, <1>6
  <2>3. Retry(req, t) = Max({1, Min(C) + Window - t})
    BY <1>5 DEF Retry, C
  <2> QED BY <2>1, <2>2, <2>3
<1>9. u \in Int /\ u >= req[j].sec + Window
  BY <1>1, <1>6, <1>7, <1>8
<1> HIDE DEF u
<1>10. y[j].v = 0 /\ req[j].v # 0 /\ \A i \in Indices : y[i].v \in Nat /\ y[i].v <= req[i].v
  <2>1. \A i \in Indices : y[i].v = 0 \/ y[i].v = req[i].v
    BY <1>2
  <2>2. y[j].v = 0
    BY <1>2, <1>9
  <2>3. req[j].v # 0
    BY <1>2, <1>7
  <2>4. \A i \in Indices : req[i].v \in Nat
    BY <1>2
  <2> QED BY <2>1, <2>2, <2>3, <2>4
<1>11. Volume(Values(y)) < Volume(Values(req))
  <2>1. Values(y) \in [Indices -> Nat] /\ Values(req) \in [Indices -> Nat]
    BY <1>2, <1>10 DEF Values
  <2>2. \A i \in Indices : Values(y)[i] # 0 => i \in Indices /\ Values(y)[i] <= Values(req)[i]
    BY <1>10 DEF Values
  <2>3. Values(req)[j] # 0 /\ Values(y)[j] < Values(req)[j]
    BY <1>2, <1>10 DEF Values
  <2> QED BY <2>1, <2>2, <2>3, IndicesFinite, VolumeLess
<1>12. Volume(Values(y)) \in Nat /\ Volume(Values(req)) \in Nat
  <2>1. Values(y) \in [Indices -> Nat] /\ Values(req) \in [Indices -> Nat]
    BY <1>2, <1>10 DEF Values
  <2> QED BY <2>1, IndicesFinite, VolumeNat
<1>13. Volume(Values(req)) <= Rpm
  BY DEF LimiterInv, RingsHold
<1>14. ~(Sum(req, u) >= Rpm)
  BY <1>1, <1>3, <1>11, <1>12, <1>13
<1> QED
  BY <1>14 DEF Full, u

\* The invariant holds the limits.
LEMMA InvHoldsLimits == ASSUME LimiterInv PROVE LimitHeld
<1> USE DEF LimiterInv
<1>1. LimiterTypeOK
  BY DEF LimiterTypes, LimiterTypeOK, RingsHold, Placed
<1>2. Oldest \in Recent /\ Oldest \in Nat
  BY Times
<1>3. WindowHeld
  <2>1. Total(entered, Oldest, clock) <= Volume(Since(req, MaxLag, Oldest))
    BY <1>2 DEF RingsHold, Behind
  <2>2. Since(req, MaxLag, Oldest) \in [Indices -> Nat] /\ Values(req) \in [Indices -> Nat]
    BY RingSums DEF RingsHold
  <2>3. \A i \in Indices : Since(req, MaxLag, Oldest)[i] # 0 =>
          i \in Indices /\ Since(req, MaxLag, Oldest)[i] <= Values(req)[i]
    <3>1. \A i \in Indices : Since(req, MaxLag, Oldest)[i] # 0 =>
            Since(req, MaxLag, Oldest)[i] = Values(req)[i]
      BY DEF Since, Values
    <3> QED BY <2>2, <3>1
  <2>4. Volume(Since(req, MaxLag, Oldest)) <= Volume(Values(req))
    BY <2>2, <2>3, IndicesFinite, VolumeLess
  <2>5. /\ Volume(Since(req, MaxLag, Oldest)) \in Nat /\ Volume(Values(req)) \in Nat
        /\ Total(entered, Oldest, clock) \in Nat /\ Rpm \in Nat
    BY <2>2, IndicesFinite, VolumeNat, TotalNat, LimiterAssumption DEF LimiterTypes
  <2>6. Volume(Values(req)) <= Rpm
    BY DEF RingsHold
  <2>7. Total(entered, Oldest, clock) <= Rpm
    BY <2>1, <2>4, <2>5, <2>6
  <2> QED BY <2>7 DEF WindowHeld, Oldest
<1>4. TokenOvershoot
  <2>1. MaxTokens \in Nat /\ Tpm \in Nat
    BY LimiterAssumption
  <2>2. Cardinality(Past) * MaxTokens \in Nat /\ Cardinality(Reqs) * MaxTokens \in Nat
    BY <2>1, PastFinite, Scaled
  <2>3. Total(used, Oldest, clock) \in Nat
    BY TotalNat DEF LimiterTypes
  <2>4. Total(used, Oldest, clock) <= Tpm - 1 + Cardinality(Reqs) * MaxTokens
    BY <2>1, <2>2, <2>3 DEF Overshoot
  <2> QED BY <2>4 DEF TokenOvershoot, Oldest
<1>5. RetrySuffices
  BY RetryIsEnough DEF RetrySuffices, LimiterTypes
<1> QED
  BY <1>1, <1>3, <1>4, <1>5 DEF LimitHeld, RingsHold

(* A key's limits hold over any stretch of a window, however its requests  *)
(* interleave and however late their checks get the lock, and a refusal    *)
(* names a wait that is long enough (AllowRPM, TPMBlocked, ObserveTPM).    *)
THEOREM LimitsHold == LimiterSpec => []LimitHeld
<1>1. LimiterInit => LimiterInv
  BY InitLimiter
<1>2. LimiterInv /\ [LimiterNext]_limiterVars => LimiterInv'
  BY StepLimiter
<1>3. LimiterInv => LimitHeld
  BY InvHoldsLimits
<1> QED
  BY <1>1, <1>2, <1>3, PTL DEF LimiterSpec

-----------------------------------------------------------------------------
(* The meters of the subscriptions.  First, what a number becomes in the   *)
(* hands of a dialect.                                                     *)

LEMMA RoundedEnds ==
  ASSUME NEW f \in Int
  PROVE  asPercent(f) \in Int /\ (asPercent(f) >= 100 <=> f >= 995)
<1> DEFINE g == Clamp(f)
<1>1. g \in Int /\ g <= 1000 /\ (g >= 995 <=> f >= 995)
  BY DEF Clamp, Whole
<1> HIDE DEF g
<1>2. (g + 5) \div 10 \in Int /\ ((g + 5) \div 10 >= 100 <=> g >= 995)
  BY <1>1
<1> QED
  BY <1>1, <1>2 DEF asPercent, g

LEMMA FlooredEnds ==
  ASSUME NEW f \in Int
  PROVE  /\ Clamp(f) \div 10 \in 0 .. 100
         /\ Clamp(f) \div 10 >= 100 <=> f >= 1000
         /\ Clamp(f) \div 10 > 0 <=> f >= 10
<1> DEFINE g == Clamp(f)
<1>1. g \in 0 .. 1000 /\ (g >= 1000 <=> f >= 1000) /\ (g >= 10 <=> f >= 10)
  BY DEF Clamp, Whole
<1> HIDE DEF g
<1>2. g \div 10 \in 0 .. 100 /\ (g \div 10 >= 100 <=> g >= 1000) /\ (g \div 10 > 0 <=> g >= 10)
  BY <1>1
<1> QED
  BY <1>1, <1>2 DEF g

LEMMA FloorGrows ==
  ASSUME NEW f \in Int, NEW g \in Int, f <= g
  PROVE  Clamp(f) \div 10 <= Clamp(g) \div 10
<1> DEFINE x == Clamp(f)
           y == Clamp(g)
<1>1. x \in Int /\ y \in Int /\ x <= y
  BY DEF Clamp, Whole
<1> HIDE DEF x, y
<1>2. x \div 10 <= y \div 10
  BY <1>1
<1> QED
  BY <1>2 DEF x, y

\* A quotient that is floored.
LEMMA Quotient ==
  ASSUME NEW x \in Int, NEW c \in Nat \ {0}, NEW k \in Int
  PROVE  x \div c \in Int /\ (x \div c >= k <=> x >= k * c)
<1> DEFINE q == x \div c
           r == x % c
<1>1. q \in Int /\ r \in 0 .. (c - 1) /\ x = c * q + r
  OBVIOUS
<1> HIDE DEF q, r
<1>2. ASSUME q >= k PROVE x >= k * c
  <2> DEFINE d == q - k
  <2>1. d \in Nat /\ q = k + d
    BY <1>1, <1>2
  <2> HIDE DEF d
  <2>2. d * c \in Nat
    BY <2>1
  <2>3. c * q = k * c + d * c
    BY <1>1, <2>1
  <2>4. k * c \in Int
    OBVIOUS
  <2> QED BY <1>1, <2>2, <2>3, <2>4
<1>3. ASSUME q < k PROVE x < k * c
  <2> DEFINE d == k - q - 1
  <2>1. d \in Nat /\ k = q + d + 1
    BY <1>1, <1>3
  <2> HIDE DEF d
  <2>2. d * c \in Nat /\ c * q \in Int
    BY <1>1, <2>1
  <2>3. k * c = c * q + d * c + c
    BY <1>1, <2>1
  <2> QED BY <1>1, <2>2, <2>3
<1>4. k * c \in Int
  OBVIOUS
<1>5. q >= k <=> x >= k * c
  BY <1>1, <1>2, <1>3, <1>4
<1> QED
  BY <1>1, <1>5 DEF q

LEMMA RatioEnds ==
  ASSUME NEW u \in Int, NEW c \in Int, c > 0
  PROVE  Ratio(u, c) \in Int /\ (Ratio(u, c) >= 100 <=> u >= c)
<1> DEFINE q == (u * Whole) \div c
<1>1. u * Whole \in Int /\ c \in Nat \ {0}
  BY DEF Whole
<1>2. q \in Int /\ (q >= 1000 <=> u * Whole >= 1000 * c)
  BY <1>1, Quotient
<1>3. q >= 1000 <=> u >= c
  BY <1>2 DEF Whole
<1> HIDE DEF q
<1>4. Clamp(q) \div 10 \in 0 .. 100 /\ (Clamp(q) \div 10 >= 100 <=> q >= 1000)
  BY <1>2, FlooredEnds
<1> QED
  BY <1>3, <1>4 DEF Ratio, q

\* A pool with something left is never full.
LEMMA PoolSpendable ==
  ASSUME NEW spend \in Nat, NEW left \in Int, left > 0
  PROVE  (spend * 100) \div (spend + left) \in Int /\ ~((spend * 100) \div (spend + left) >= 100)
<1>1. spend * 100 \in Int /\ spend + left \in Nat \ {0} /\ ~(spend * 100 >= 100 * (spend + left))
  OBVIOUS
<1> QED
  BY <1>1, Quotient

LEMMA OfType ==
  ASSUME NEW S, NEW seq \in Seq(S)
  PROVE  Of(seq) \subseteq S
BY DEF Of

LEMMA OfOptional ==
  ASSUME NEW seq, Optional(seq)
  PROVE  Of(seq) \subseteq Int /\ (seq # <<>> => Of(seq) = {seq[1]} /\ seq[1] \in Int) /\ (seq = <<>> => Of(seq) = {})
<1>1. seq \in Seq(Int) /\ Len(seq) \in Nat /\ Len(seq) <= 1 /\ DOMAIN seq = 1 .. Len(seq)
  BY DEF Optional
<1>2. CASE seq = <<>>
  BY <1>1, <1>2 DEF Of
<1>3. CASE seq # <<>>
  <2>1. Len(seq) # 0
    BY <1>1, <1>3, EmptySeq
  <2>2. DOMAIN seq = {1}
    BY <1>1, <2>1
  <2> QED BY <1>1, <1>3, <2>2 DEF Of
<1> QED
  BY <1>2, <1>3

LEMMA ReadEnds ==
  ASSUME NEW S
  PROVE  exhaustedWindow(Read(S)) <=> \E u \in S : u >= 100
BY DEF exhaustedWindow, Read, Failed

LEMMA SharesDrained ==
  ASSUME NEW S, S \subseteq Int
  PROVE  (\E m \in Shares(S) : Drained(m)) <=> \E p \in S : p >= 1000
<1>1. \A p \in S : Drained(Meter(p, Whole)) <=> p >= 1000
  BY DEF Drained, Meter, Whole
<1>2. (\E m \in Shares(S) : Drained(m)) <=> \E p \in S : Drained(Meter(p, Whole))
  BY Zenon DEF Shares
<1> QED
  BY <1>1, <1>2

LEMMA SharesNearlyDrained ==
  ASSUME NEW S, S \subseteq Int
  PROVE  (\E m \in Shares(S) : NearlyDrained(m)) <=> \E p \in S : p >= 995
<1>1. \A p \in S : NearlyDrained(Meter(p, Whole)) <=> p >= 995
  BY DEF NearlyDrained, Meter, Whole
<1>2. (\E m \in Shares(S) : NearlyDrained(m)) <=> \E p \in S : NearlyDrained(Meter(p, Whole))
  BY Zenon DEF Shares
<1> QED
  BY <1>1, <1>2

\* Percentages that are rounded: used up from 99.5 % on.
LEMMA SharesRounded ==
  ASSUME NEW S, S \subseteq Int
  PROVE  /\ (\E m \in Shares(S) : Drained(m)) => \E u \in {asPercent(p) : p \in S} : u >= 100
         /\ (\E u \in {asPercent(p) : p \in S} : u >= 100) => \E m \in Shares(S) : NearlyDrained(m)
<1>1. \A p \in S : asPercent(p) >= 100 <=> p >= 995
  BY RoundedEnds
<1>2. \A p \in S : p >= 1000 => p >= 995
  OBVIOUS
<1>3. (\E u \in {asPercent(p) : p \in S} : u >= 100) <=> \E p \in S : p >= 995
  BY <1>1
<1>4. (\E m \in Shares(S) : Drained(m)) <=> \E p \in S : p >= 1000
  BY SharesDrained, Zenon
<1>5. (\E m \in Shares(S) : NearlyDrained(m)) <=> \E p \in S : p >= 995
  BY SharesNearlyDrained, Zenon
<1> QED
  BY <1>2, <1>3, <1>4, <1>5

\* Amounts against a cap are used up at the cap.
LEMMA AmountsEnd ==
  ASSUME NEW ws \in Seq(Allowances)
  PROVE  (\E m \in Amounts(ws) : Drained(m)) <=> \E u \in {Ratio(w.used, w.cap) : w \in Capped(ws)} : u >= 100
<1>1. \A w \in Capped(ws) : w.used \in Int /\ w.cap \in Int /\ w.cap > 0
  BY OfType DEF Capped, Allowances
<1>2. \A w \in Capped(ws) : Drained(Meter(w.used, w.cap)) <=> Ratio(w.used, w.cap) >= 100
  BY <1>1, RatioEnds DEF Drained, Meter
<1> QED
  BY <1>2, Zenon DEF Amounts

-----------------------------------------------------------------------------
\* DrainRead of one reading.
Right(a, s) ==
  ~s.err =>
    /\ (\E m \in Meters(a) : Drained(m)) => exhaustedWindow(s)
    /\ exhaustedWindow(s) =>
         \/ \E m \in Meters(a) : Drained(m)
         \/ a.dialect \in Rounding /\ \E m \in Meters(a) : NearlyDrained(m)
         \/ GrokAmounts(a)

LEMMA FailedRight == ASSUME NEW a PROVE Right(a, Failed)
BY DEF Right, Failed

LEMMA OpenCodeGoRight ==
  ASSUME NEW a, a.dialect = "opencode-go", Readable(a.dialect, a.fields)
  PROVE  Right(a, parseOpenCodeGo(a.fields))
<1> DEFINE f == a.fields
           S == Of(f.rolling) \cup Of(f.weekly) \cup Of(f.monthly)
<1>1. S \subseteq Int
  BY OfOptional DEF Readable
<1>2. Meters(a) = Shares(S) /\ a.dialect \in Rounding
  BY DEF Meters, Rounding
<1>3. parseOpenCodeGo(a.fields) = Read({asPercent(p) : p \in S})
  BY DEF parseOpenCodeGo
<1> HIDE DEF S
<1> QED
  BY <1>1, <1>2, <1>3, SharesRounded, ReadEnds DEF Right

LEMMA ZaiRight ==
  ASSUME NEW a, a.dialect = "zai", Readable(a.dialect, a.fields)
  PROVE  Right(a, parseZai(a.fields))
<1> DEFINE f == a.fields
           counted == {l \in Of(f.limits) : l.type \in {"tokens", "credit"}}
           S == {l.pct : l \in counted}
<1>1. Of(f.limits) \subseteq [type : {"tokens", "credit", "time"}, pct : Int]
  BY OfType DEF Readable
<1>2. S \subseteq Int
  BY <1>1
<1>3. {l \in Of(f.limits) : l.type # "time"} = counted
  BY <1>1
<1>4. Meters(a) = Shares(S) /\ a.dialect \in Rounding
  BY <1>3 DEF Meters, Rounding
<1>5. {asPercent(l.pct) : l \in counted} = {asPercent(p) : p \in S}
  BY Zenon
<1>6. parseZai(a.fields) = Failed \/ parseZai(a.fields) = Read({asPercent(p) : p \in S})
  BY <1>5 DEF parseZai
<1> HIDE DEF S
<1> QED
  BY <1>2, <1>4, <1>6, SharesRounded, ReadEnds, FailedRight DEF Right

LEMMA CommandCodeRight ==
  ASSUME NEW a, a.dialect = "commandcode", Readable(a.dialect, a.fields)
  PROVE  Right(a, parseCommandCode(a.fields))
<1> DEFINE f == a.fields
           spend == AtLeastZero(f.spend)
           pool(left) == IF left <= 0 THEN 100 ELSE (spend * 100) \div (spend + left)
           W == {Ratio(w.used, w.cap) : w \in Capped(f.windows)}
           C == Of(f.credits)
<1>1. f.windows \in Seq(Allowances) /\ f.spend \in Int /\ Optional(f.credits)
  BY DEF Readable
<1>2. C \subseteq Int /\ spend \in Nat
  BY <1>1, OfOptional DEF AtLeastZero
<1>3. \A left \in C : pool(left) >= 100 <=> left <= 0
  BY <1>2, PoolSpendable
<1>4. \A left \in C : Drained(Meter(f.spend, f.spend + left)) <=> left <= 0
  BY <1>1, <1>2 DEF Drained, Meter
<1>5. Meters(a) = Amounts(f.windows) \cup {Meter(f.spend, f.spend + left) : left \in C}
  BY DEF Meters
<1>6. parseCommandCode(a.fields) = Read(W \cup {pool(left) : left \in C})
  BY DEF parseCommandCode
<1>7. (\E m \in Amounts(f.windows) : Drained(m)) <=> \E u \in W : u >= 100
  BY <1>1, AmountsEnd
<1> HIDE DEF spend, pool, W, C
<1>8. (\E m \in Meters(a) : Drained(m)) <=> \E u \in W \cup {pool(left) : left \in C} : u >= 100
  BY <1>3, <1>4, <1>5, <1>7
<1> QED
  BY <1>6, <1>8, ReadEnds DEF Right

LEMMA GrokMonotone ==
  ASSUME NEW limit \in Int, NEW spent \in Int, spent >= limit
  PROVE  grokLegacyPercent(limit, spent) >= 100
<1> DEFINE c == grokPercent(limit)
           u == grokPercent(spent)
<1>1. c \in 0 .. 100 /\ u \in 0 .. 100 /\ c <= u
  BY FlooredEnds, FloorGrows DEF grokPercent
<1> HIDE DEF c, u
<1>2. grokLegacyPercent(limit, spent) = IF c = 0 THEN 100 ELSE ((IF u > c THEN c ELSE u) * 100) \div c
  BY DEF grokLegacyPercent, c, u
<1>3. CASE c # 0
  <2>1. (IF u > c THEN c ELSE u) = c
    BY <1>1
  <2>2. c \in Nat \ {0} /\ c * 100 \in Int /\ c * 100 >= 100 * c
    BY <1>1, <1>3
  <2>3. (c * 100) \div c >= 100
    BY <2>2, Quotient
  <2> QED BY <1>2, <1>3, <2>1, <2>3
<1> QED
  BY <1>2, <1>3

LEMMA GrokRight ==
  ASSUME NEW a, a.dialect = "grok-cli", Readable(a.dialect, a.fields)
  PROVE  Right(a, parseGrokCli(a.fields))
<1> DEFINE f == a.fields
<1>1. /\ Optional(f.percent) /\ Optional(f.limit) /\ Optional(f.used)
      /\ Optional(f.demandCap) /\ Optional(f.demandUsed)
  BY DEF Readable
<1>2. Meters(a) = GrokMeters(f)
  BY DEF Meters
<1>3. CASE f.percent # <<>>
  <2> DEFINE p == f.percent[1]
  <2>1. Of(f.percent) = {p} /\ p \in Int
    BY <1>1, <1>3, OfOptional
  <2>2. Meters(a) = Shares({p})
    BY <1>2, <1>3, <2>1 DEF GrokMeters
  <2>3. parseGrokCli(a.fields) = Read({grokPercent(p)})
    BY <1>3 DEF parseGrokCli
  <2> HIDE DEF p
  <2>4. grokPercent(p) >= 100 <=> p >= 1000
    BY <2>1, FlooredEnds DEF grokPercent
  <2>5. (\E m \in Meters(a) : Drained(m)) <=> p >= 1000
    BY <2>1, <2>2, SharesDrained
  <2> QED BY <2>3, <2>4, <2>5, ReadEnds DEF Right
<1>4. CASE f.percent = <<>>
  <2>1. GrokAmounts(a)
    BY <1>4 DEF GrokAmounts
  <2> SUFFICES ASSUME ~parseGrokCli(f).err, NEW m \in Meters(a), Drained(m)
               PROVE  exhaustedWindow(parseGrokCli(f))
    BY <2>1 DEF Right
  <2>2. CASE f.limit # <<>>
    <3> DEFINE spent == IF f.used = <<>> THEN 0 ELSE f.used[1]
               limit == f.limit[1]
    <3>1. spent \in Int /\ limit \in Int
      BY <1>1, <2>2, OfOptional
    <3>2. m = Meter(spent, limit)
      BY <1>2, <1>4, <2>2 DEF GrokMeters
    <3>3. spent >= limit
      BY <3>2 DEF Drained, Meter
    <3>4. grokPercent(limit) = 0 \/ f.used # <<>>
      <4>1. SUFFICES ASSUME f.used = <<>> PROVE grokPercent(limit) = 0
        OBVIOUS
      <4>2. limit <= 0
        BY <3>3, <4>1
      <4> HIDE DEF limit
      <4>3. Clamp(limit) \div 10 \in 0 .. 100 /\ ~(Clamp(limit) \div 10 > 0)
        BY <3>1, <4>2, FlooredEnds
      <4> QED BY <4>3 DEF grokPercent
    <3>5. parseGrokCli(f) = Read({grokLegacyPercent(limit, spent)})
      BY <1>4, <2>2, <3>4 DEF parseGrokCli
    <3> HIDE DEF spent, limit
    <3>6. grokLegacyPercent(limit, spent) >= 100
      BY <3>1, <3>3, GrokMonotone
    <3> QED BY <3>5, <3>6, ReadEnds
  <2>3. CASE f.limit = <<>>
    <3>1. PICK c \in Of(f.demandCap), u \in Of(f.demandUsed) : c >= 10 /\ m = Meter(u, c)
      BY <1>2, <1>4, <2>3 DEF GrokMeters
    <3>2. c \in Int /\ u \in Int /\ u >= c
      BY <1>1, <3>1, OfOptional DEF Drained, Meter
    <3>3. grokPercent(c) > 0 /\ grokPercent(u) >= grokPercent(c)
      BY <3>1, <3>2, FlooredEnds, FloorGrows DEF grokPercent
    <3>4. f.demandCap # <<>>
      BY <1>1, <3>1, OfOptional
    <3>5. parseGrokCli(f) = Read({grokUnmetered(f)})
      BY <1>4, <2>3, <3>4 DEF parseGrokCli
    <3>6. grokUnmetered(f) = 100
      BY <3>1, <3>3 DEF grokUnmetered
    <3> QED BY <3>5, <3>6, ReadEnds
  <2> QED BY <2>2, <2>3
<1> QED
  BY <1>3, <1>4

LEMMA XiaomiRight ==
  ASSUME NEW a, a.dialect = "xiaomi", Readable(a.dialect, a.fields)
  PROVE  Right(a, parseXiaomiTokenPlan(a.fields))
<1> DEFINE f == a.fields
           S == Of(f.items)
<1>1. S \subseteq Int
  BY OfType DEF Readable
<1>2. Meters(a) = Shares(S) /\ a.dialect \in Rounding
  BY DEF Meters, Rounding
<1>3. parseXiaomiTokenPlan(a.fields) = Failed \/ parseXiaomiTokenPlan(a.fields) = Read({asPercent(p) : p \in S})
  BY DEF parseXiaomiTokenPlan
<1> HIDE DEF S
<1> QED
  BY <1>1, <1>2, <1>3, SharesRounded, ReadEnds, FailedRight DEF Right

LEMMA FreebuffRight ==
  ASSUME NEW a, a.dialect = "freebuff", Readable(a.dialect, a.fields)
  PROVE  Right(a, parseFreebuff(a.fields))
<1> DEFINE f == a.fields
           W == {Ratio(w.used, w.cap) : w \in Capped(f.windows)}
<1>1. f.windows \in Seq(Allowances)
  BY DEF Readable
<1>2. Meters(a) = Amounts(f.windows)
  BY DEF Meters
<1>3. parseFreebuff(a.fields) = Read(W)
  BY DEF parseFreebuff
<1>4. (\E m \in Amounts(f.windows) : Drained(m)) <=> \E u \in W : u >= 100
  BY <1>1, AmountsEnd
<1> HIDE DEF W
<1> QED
  BY <1>2, <1>3, <1>4, ReadEnds DEF Right

LEMMA CursorRight ==
  ASSUME NEW a, a.dialect = "cursor", Readable(a.dialect, a.fields)
  PROVE  Right(a, parseCursor(a.fields))
<1> DEFINE f == a.fields
           S == {f.total, f.api}
<1>1. S \subseteq Int
  BY DEF Readable
<1>2. CASE ~f.summary
  BY <1>2, FailedRight DEF parseCursor
<1>3. CASE f.summary /\ f.unlimited
  <2>1. Meters(a) = {}
    BY <1>3 DEF Meters
  <2>2. parseCursor(f) = Read({0})
    BY <1>3 DEF parseCursor
  <2>3. ~exhaustedWindow(parseCursor(f))
    BY <2>2, ReadEnds
  <2> QED BY <2>1, <2>3 DEF Right
<1>4. CASE f.summary /\ ~f.unlimited
  <2>1. Meters(a) = Shares(S) /\ a.dialect \in Rounding
    BY <1>4 DEF Meters, Rounding
  <2>2. {asPercent(f.total), asPercent(f.api)} = {asPercent(p) : p \in S}
    OBVIOUS
  <2>3. parseCursor(f) = Read({asPercent(p) : p \in S})
    BY <1>4, <2>2 DEF parseCursor
  <2> HIDE DEF S
  <2> QED BY <1>1, <2>1, <2>3, SharesRounded, ReadEnds DEF Right
<1> QED
  BY <1>2, <1>3, <1>4

\* What the windows of one spelling say of their percentages.
LEMMA WindowsEnd ==
  ASSUME NEW ws, CodexWindows(ws)
  PROVE  /\ UNION {Of(w.pct) : w \in Of(ws)} \subseteq Int
         /\ (\E m \in CodexShares(ws) : Drained(m)) => \E u \in codexWindows(ws) : u >= 100
         /\ (\E u \in codexWindows(ws) : u >= 100) => \E m \in CodexShares(ws) : NearlyDrained(m)
<1> DEFINE S == UNION {Of(w.pct) : w \in Of(ws)}
<1>1. \A w \in Of(ws) : Optional(w.pct)
  BY DEF Of, CodexWindows
<1>2. S \subseteq Int
  BY <1>1, OfOptional
<1>3. ASSUME NEW p \in S, p >= 1000 PROVE \E u \in codexWindows(ws) : u >= 100
  <2>1. PICK w \in Of(ws) : p \in Of(w.pct)
    OBVIOUS
  <2>2. w.pct # <<>> /\ w.pct[1] = p
    BY <1>1, <2>1, OfOptional
  <2>3. p \in Int /\ p # 0
    BY <1>2, <1>3
  <2>4. asPercent(p) \in codexWindows(ws)
    BY <2>1, <2>2, <2>3 DEF codexWindows
  <2>5. asPercent(p) >= 100
    BY <1>3, <2>3, RoundedEnds
  <2> QED BY <2>4, <2>5
<1>4. ASSUME NEW u \in codexWindows(ws), u >= 100 PROVE \E p \in S : p >= 995
  <2>1. PICK w \in Of(ws) : w.pct # <<>> /\ u = asPercent(w.pct[1])
    BY DEF codexWindows
  <2>2. w.pct[1] \in Of(w.pct) /\ w.pct[1] \in Int
    BY <1>1, <2>1, OfOptional
  <2>3. w.pct[1] \in S
    BY <2>1, <2>2
  <2>4. w.pct[1] >= 995
    BY <1>4, <2>1, <2>2, RoundedEnds
  <2> QED BY <2>3, <2>4
<1>5. CodexShares(ws) = Shares(S)
  BY DEF CodexShares
<1> HIDE DEF S
<1>6. /\ (\E m \in Shares(S) : Drained(m)) => \E u \in codexWindows(ws) : u >= 100
      /\ (\E u \in codexWindows(ws) : u >= 100) => \E m \in Shares(S) : NearlyDrained(m)
  <2>1. (\E m \in Shares(S) : Drained(m)) <=> \E p \in S : p >= 1000
    BY <1>2, SharesDrained, Zenon
  <2>2. (\E m \in Shares(S) : NearlyDrained(m)) <=> \E p \in S : p >= 995
    BY <1>2, SharesNearlyDrained, Zenon
  <2> QED BY <1>3, <1>4, <2>1, <2>2
<1> QED
  BY <1>2, <1>5, <1>6 DEF S

LEMMA BucketEnds ==
  ASSUME NEW b, CodexBucket(b)
  PROVE  /\ (\E m \in CodexMeters(b) : Drained(m)) => \E u \in codexBucket(b) : u >= 100
         /\ (\E u \in codexBucket(b) : u >= 100) => \E m \in CodexMeters(b) : NearlyDrained(m)
<1>1. CodexWindows(b.snake) /\ CodexWindows(b.camel)
  BY DEF CodexBucket
<1>2. CASE codexWindows(b.snake) = {}
  <2>1. codexBucket(b) = codexWindows(b.camel) /\ CodexMeters(b) = CodexShares(b.snake) \cup CodexShares(b.camel)
    BY <1>2 DEF codexBucket, CodexMeters
  <2>2. ~\E m \in CodexShares(b.snake) : Drained(m)
    BY <1>1, <1>2, WindowsEnd
  <2> QED BY <1>1, <2>1, <2>2, WindowsEnd
<1>3. CASE codexWindows(b.snake) # {}
  <2>1. codexBucket(b) = codexWindows(b.snake) /\ CodexMeters(b) = CodexShares(b.snake)
    BY <1>3 DEF codexBucket, CodexMeters
  <2> QED BY <1>1, <2>1, WindowsEnd
<1> QED
  BY <1>2, <1>3

LEMMA CodexRight ==
  ASSUME NEW a, a.dialect = "codex", Readable(a.dialect, a.fields)
  PROVE  Right(a, parseCodex(a.fields))
<1> DEFINE f == a.fields
           B == Of(f.additional)
           S == Of(f.spendLimit)
           R == {asPercent(p) : p \in S}
           P == UNION {codexBucket(b) : b \in B}
           M == UNION {CodexMeters(b) : b \in B}
           U == codexBucket(f.plan) \cup P \cup R
<1>1. CodexBucket(f.plan) /\ Optional(f.spendLimit) /\ \A b \in B : CodexBucket(b)
  BY DEF Readable, Of
<1>2. S \subseteq Int
  BY <1>1, OfOptional
<1>3. Meters(a) = CodexMeters(f.plan) \cup M \cup Shares(S)
  BY DEF Meters
<1>4. parseCodex(a.fields) = Read(U)
  BY DEF parseCodex
<1> HIDE DEF B, S
<1>5. U = codexBucket(f.plan) \cup P \cup R
  OBVIOUS
<1>6. /\ (\E m \in Shares(S) : Drained(m)) => \E u \in R : u >= 100
      /\ (\E u \in R : u >= 100) => \E m \in Shares(S) : NearlyDrained(m)
  BY <1>2, SharesRounded, Zenon
<1>7. /\ \A b \in B : codexBucket(b) \subseteq P /\ CodexMeters(b) \subseteq M
      /\ \A u \in P : \E b \in B : u \in codexBucket(b)
      /\ \A m \in M : \E b \in B : m \in CodexMeters(b)
  OBVIOUS
<1> HIDE DEF U, R, P, M
<1>8. ASSUME NEW m \in Meters(a), Drained(m) PROVE \E u \in U : u >= 100
  <2>1. CASE m \in CodexMeters(f.plan)
    BY <1>1, <1>8, <1>5, <2>1, BucketEnds
  <2>2. CASE m \in M
    <3>1. PICK b \in B : m \in CodexMeters(b)
      BY <1>7, <2>2
    <3>2. \E u \in codexBucket(b) : u >= 100
      BY <1>1, <1>8, <3>1, BucketEnds
    <3> QED BY <1>5, <1>7, <3>2
  <2>3. CASE m \in Shares(S)
    BY <1>8, <1>5, <1>6, <2>3
  <2> QED BY <1>3, <2>1, <2>2, <2>3
<1>9. ASSUME NEW u \in U, u >= 100 PROVE \E m \in Meters(a) : NearlyDrained(m)
  <2>1. CASE u \in codexBucket(f.plan)
    BY <1>1, <1>9, <1>3, <2>1, BucketEnds
  <2>2. CASE u \in P
    <3>1. PICK b \in B : u \in codexBucket(b)
      BY <1>7, <2>2
    <3>2. \E m \in CodexMeters(b) : NearlyDrained(m)
      BY <1>1, <1>9, <3>1, BucketEnds
    <3> QED BY <1>3, <1>7, <3>2
  <2>3. CASE u \in R
    BY <1>9, <1>3, <1>6, <2>3
  <2> QED BY <1>9, <1>5, <2>1, <2>2, <2>3
<1>10. a.dialect \in Rounding
  BY DEF Rounding
<1> QED
  BY <1>4, <1>8, <1>9, <1>10, ReadEnds DEF Right

LEMMA ProbeRight ==
  ASSUME NEW a \in Answers
  PROVE  Right(a, Probe(a))
<1>1. a.dialect \in Dialects /\ Readable(a.dialect, a.fields)
  BY AnswersAssumption
<1>2. CASE ~a.reached \/ ~Usable(a) \/ ~a.json
  BY <1>2, FailedRight DEF Probe
<1>3. CASE ~(~a.reached \/ ~Usable(a) \/ ~a.json)
  <2>1. CASE a.dialect = "opencode-go"
    BY <1>1, <1>3, <2>1, OpenCodeGoRight DEF Probe
  <2>2. CASE a.dialect = "zai"
    BY <1>1, <1>3, <2>2, ZaiRight DEF Probe
  <2>3. CASE a.dialect = "commandcode"
    BY <1>1, <1>3, <2>3, CommandCodeRight DEF Probe
  <2>4. CASE a.dialect = "grok-cli"
    BY <1>1, <1>3, <2>4, GrokRight DEF Probe
  <2>5. CASE a.dialect = "xiaomi"
    BY <1>1, <1>3, <2>5, XiaomiRight DEF Probe
  <2>6. CASE a.dialect = "freebuff"
    BY <1>1, <1>3, <2>6, FreebuffRight DEF Probe
  <2>7. CASE a.dialect = "cursor"
    BY <1>1, <1>3, <2>7, CursorRight DEF Probe
  <2>8. CASE a.dialect = "codex"
    BY <1>1, <1>3, <2>8, CodexRight DEF Probe
  <2> QED BY <1>1, <2>1, <2>2, <2>3, <2>4, <2>5, <2>6, <2>7, <2>8 DEF Dialects
<1> QED
  BY <1>2, <1>3

\* What is read is what the answer of this vendor says.
MeterInv == answer \in Answers /\ (snap = NotRead \/ snap = Probe(answer))

(* Whatever a vendor's dialect carries, the reading parks the account when *)
(* one of its meters has run out and, but for a rounding and the amounts   *)
(* of grok, only then; and an answer that is refused or cannot be read     *)
(* parks nobody (probeHTTP and the parsers of subquota.go).                *)
THEOREM MetersReadRight == MeterSpec => []ReadRight
<1>1. MeterInit => MeterInv
  BY DEF MeterInit, MeterInv
<1>2. MeterInv /\ [MeterNext]_meterVars => MeterInv'
  BY DEF MeterInv, MeterNext, meterVars
<1>3. MeterInv => ReadRight
  <2> SUFFICES ASSUME MeterInv, snap # NotRead PROVE ReadRight
    BY DEF ReadRight, DrainRead, FailOpen
  <2>1. answer \in Answers /\ snap = Probe(answer)
    BY DEF MeterInv
  <2>2. DrainRead
    BY <2>1, ProbeRight DEF DrainRead, Right
  <2>3. FailOpen
    BY <2>1 DEF FailOpen, Probe, Failed, exhaustedWindow
  <2> QED BY <2>2, <2>3 DEF ReadRight
<1> QED
  BY <1>1, <1>2, <1>3, PTL DEF MeterSpec
=============================================================================
