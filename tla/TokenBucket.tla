---------------------------- MODULE TokenBucket ----------------------------
(***************************************************************************)
(* One RPM bucket over time: the clock advances, and a pick that finds the *)
(* gate open (accountPool.next calls available, then grant, in one         *)
(* critical section) takes what is there.                                  *)
(***************************************************************************)
EXTENDS TokenBucketOps

CONSTANTS Rate,      \* units gained per tick (rpm/60 in the code)
          MaxTime    \* bound of the model: the clock stops here

ASSUME TokenBucketAssumption == Rate \in Nat \ {0} /\ MaxTime \in Nat \ {0}

VARIABLES now,      \* the pool's clock
          bucket,   \* the bucket
          granted,  \* how many requests took a token of it
          first     \* when the first of them passed (0: none yet)

vars == <<now, bucket, granted, first>>

Init == /\ now = 1
        /\ bucket = newTokenBucket
        /\ granted = 0
        /\ first = 0

Tick == /\ now < MaxTime
        /\ now' = now + 1
        /\ UNCHANGED <<bucket, granted, first>>

\* A pick: the bucket's gate is open, and grant takes a token, or passes
\* without one when the wait for it was truncated to nothing.
Grant == /\ refillAt(bucket, Rate, now) <= now
         /\ bucket' = take(bucket, Rate, now)
         /\ granted' = IF Credit(bucket, Rate, now) >= TokenUnit THEN granted + 1 ELSE granted
         /\ first' = IF first = 0 THEN now ELSE first
         /\ UNCHANGED now

Next == Tick \/ Grant

Spec == Init /\ [][Next]_vars

-----------------------------------------------------------------------------
\* The types of the variables; the bucket is never used in the future.
TypeOK == /\ now \in Nat \ {0}
          /\ bucket \in Bucket
          /\ granted \in Nat
          /\ first \in Nat
          /\ bucket.last <= now
          /\ first <= bucket.last

(* Conservation: every unit a request drained was either in the bucket at  *)
(* the start (two tokens) or was earned, at Rate per tick, between the     *)
(* first take and the last one.                                            *)
Conserved == /\ (first = 0) <=> (bucket.last = 0)
             /\ (first = 0) => granted = 0 /\ bucket.tokens = 2 * TokenUnit
             /\ granted * TokenUnit + bucket.tokens
                  = 2 * TokenUnit + Rate * (bucket.last - first)

(* The rate promise of the RPM governor over a whole run: between the      *)
(* first request and now, no more than two requests plus the refill of     *)
(* the elapsed time have taken a token (tokenBucket.take, newTokenBucket), *)
(* and one can pass without taking any only in the very tick of the one    *)
(* before it, when less than a tick's refill was missing.                  *)
RateHeld ==
  /\ granted * TokenUnit <= 2 * TokenUnit + Rate * (now - first)
  /\ (refillAt(bucket, Rate, now) <= now /\ Credit(bucket, Rate, now) < TokenUnit)
       => bucket.last = now /\ TokenUnit - bucket.tokens < Rate

(* An announced refill instant is less than a tick early: a client that    *)
(* comes after refillAt finds a token, if nobody else took one meanwhile.  *)
(* And it is late by no more than the time since the bucket was last used, *)
(* which refillAt does not take off.                                       *)
RefillSuffices ==
  LET at == refillAt(bucket, Rate, now)
  IN  /\ Credit(bucket, Rate, at + 1) >= TokenUnit
      /\ at > now => Credit(bucket, Rate, at - (now - bucket.last) - 1) < TokenUnit
=============================================================================
