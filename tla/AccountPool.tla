---------------------------- MODULE AccountPool ----------------------------
(***************************************************************************)
(* The account pool of one provider (internal/provider/provider.go,        *)
(* accountPool) and the life of a request in it: pick an account, send,    *)
(* learn from the answer.  Requests overlap, so a verdict about an account *)
(* may arrive long after the pick, and after newer verdicts.               *)
(*                                                                         *)
(* Every critical section of the pool's mutex is one action.  Time is a    *)
(* counter; 0 is Go's zero time.Time.  A configured account may own        *)
(* several slots (its weight); the per-slot fields of accountState are     *)
(* functions on Slots.  The choice among the least busy open slots         *)
(* (pickSlot's strategies: speed, p2c, random, ...) depends on measured    *)
(* data and is left open.                                                  *)
(***************************************************************************)
EXTENDS TokenBucketOps, FiniteSets

CONSTANTS
  Accounts,      \* configured credentials (name and key)
  NoAcct,        \* no account
  Slots,         \* pool slots: Weight many of each account
  Owner,         \* the account of each slot
  Lead,          \* the first slot of each account, in pool order
  Reqs,          \* requests being handled (a finished one may come again)
  Ids,           \* caller identities for sticky pins
  Identity,      \* the identity of each request
  PinTTL,        \* affinity window of each identity; 0: never pinned
  MaxPins,       \* maxStickyPins
  Rpm, PoolRpm,  \* refill per tick of each account's bucket, of the shared
                 \* one; 0: no bucket
  CoolBase, CoolCap, FlapThreshold, FlapOpen, BillingParole, \* RotationPolicy
  MaxConc,       \* capacity of Def.inflight; 0: no semaphore
  Answers,       \* what the upstream may answer
  RetryAfters,   \* window a 429 states (header or body); 0: none
  Parks,         \* durations cool() is called with
  MaxTime, MaxStrikes, MaxFlap   \* bounds of the model

AnswerKinds == {"ok", "rate_limited", "shared_wall", "region_locked", "gated",
                "edge_fault", "payment", "quota_payment", "unauthorized", "other"}

ASSUME PoolAssumption ==
  /\ NoAcct \notin Accounts
  /\ IsFiniteSet(Reqs)
  /\ Owner \in [Slots -> Accounts]
  /\ Lead \in [Accounts -> Slots]
  /\ \A a \in Accounts : Owner[Lead[a]] = a
  /\ Identity \in [Reqs -> Ids]
  /\ PinTTL \in [Ids -> Nat]
  /\ Rpm \in [Accounts -> Nat] /\ PoolRpm \in Nat
  /\ CoolBase \in Nat \ {0} /\ CoolCap \in Nat \ {0}
  /\ FlapThreshold \in Nat \ {0} /\ FlapOpen \in Nat \ {0}
  /\ BillingParole \in Nat \ {0}
  /\ MaxConc \in Nat /\ MaxPins \in Nat \ {0}
  /\ Answers \subseteq AnswerKinds
  /\ RetryAfters \subseteq Nat /\ Parks \subseteq Nat
  /\ MaxTime \in Nat /\ MaxStrikes \in Nat /\ MaxFlap \in Nat

NoPin  == [acct |-> NoAcct, expires |-> 0]

VARIABLES
  now,            \* the pool's clock
  cooldown,       \* slot -> until when it is skipped (0: not cooling)
  benchedAt,      \* slot -> when the active cooldown was stamped
  strikes,        \* slot -> consecutive 429s
  invalidatedAt,  \* slot -> latest billing refusal (0: not invalidated)
  live,           \* slot -> upstream calls in flight
  bucket,         \* account -> its RPM bucket, shared by its slots
  shared,         \* the provider-wide RPM bucket
  sticky,         \* identity -> pinned account and expiry, or NoPin
  flapStrikes, flapOpenUntil,   \* the edge-fault breaker
  pc,             \* request -> where its goroutine is
  acct,           \* request -> account it holds
  since,          \* request -> when its upstream call began (reqStart)
  learned         \* request -> what its caller still has to note

slotVars   == <<cooldown, benchedAt, strikes, invalidatedAt>>
gateVars   == <<bucket, shared>>
flapVars   == <<flapStrikes, flapOpenUntil>>
reqVars    == <<pc, acct, since, learned>>
vars == <<now, slotVars, live, gateVars, sticky, flapVars, reqVars>>

SlotsOf(a) == {s \in Slots : Owner[s] = a}
-----------------------------------------------------------------------------
(* The gates a pick passes.                                                *)

\* paroleOpen: an invalidated slot waits a full window after the refusal.
Paroled(s, t) == invalidatedAt[s] # 0 /\ t < invalidatedAt[s] + BillingParole

Cooling(s, t) == cooldown[s] # 0 /\ t <= cooldown[s]

BucketReady(a, t) == IF Rpm[a] = 0 THEN t ELSE refillAt(bucket[a], Rpm[a], t)
SharedReady(t)    == IF PoolRpm = 0 THEN t ELSE refillAt(shared, PoolRpm, t)

Later(x, y) == IF x < y THEN y ELSE x

available(s, t) == /\ ~Paroled(s, t)
                   /\ ~Cooling(s, t)
                   /\ BucketReady(Owner[s], t) <= t

\* The instant a blocked slot announces.
ReadyAt(s, t) ==
  IF Paroled(s, t) THEN invalidatedAt[s] + BillingParole
  ELSE IF Cooling(s, t) THEN Later(cooldown[s], BucketReady(Owner[s], t))
  ELSE BucketReady(Owner[s], t)

SharedOpen == SharedReady(now) <= now
OpenSlots  == IF SharedOpen THEN {s \in Slots : available(s, now)} ELSE {}

\* A plausible bug: the strategy chooses among all open slots.
Mut_LeastBusy_Any(S) == S

\* pickSlot narrows to the least busy open slots before any strategy runs.
LeastBusy(S) == {s \in S : \A u \in S : live[s] <= live[u]}

BreakerOpen == flapOpenUntil # 0 /\ now < flapOpenUntil

\* A plausible bug: the pool announces its last slot to recover.
Mut_Soonest_Latest(S) == CHOOSE x \in S : \A y \in S : y <= x

Soonest(S) == CHOOSE x \in S : \A y \in S : x <= y

\* The instant next() announces when it hands out nothing.
PoolReady ==
  IF BreakerOpen THEN flapOpenUntil
  ELSE LET own == Soonest({ReadyAt(s, now) : s \in Slots})
       IN  IF SharedOpen THEN own
           ELSE IF \E s \in Slots : available(s, now)
                THEN SharedReady(now)
                ELSE Later(own, SharedReady(now))
-----------------------------------------------------------------------------
Init ==
  /\ now = 1
  /\ cooldown = [s \in Slots |-> 0]
  /\ benchedAt = [s \in Slots |-> 0]
  /\ strikes = [s \in Slots |-> 0]
  /\ invalidatedAt = [s \in Slots |-> 0]
  /\ live = [s \in Slots |-> 0]
  /\ bucket = [a \in Accounts |-> newTokenBucket]
  /\ shared = newTokenBucket
  /\ sticky = [i \in Ids |-> NoPin]
  /\ flapStrikes = 0 /\ flapOpenUntil = 0
  /\ pc = [r \in Reqs |-> "idle"]
  /\ acct = [r \in Reqs |-> NoAcct]
  /\ since = [r \in Reqs |-> 0]
  /\ learned = [r \in Reqs |-> "nothing"]

Tick == /\ now < MaxTime
        /\ now' = now + 1
        /\ UNCHANGED <<slotVars, live, gateVars, sticky, flapVars, reqVars>>
-----------------------------------------------------------------------------
(* next(id): hand out an account, or nothing.                              *)

PinnedTo(i) == sticky[i].acct
PinHolds(i) == PinTTL[i] > 0 /\ sticky[i] # NoPin /\ now < sticky[i].expires

\* The pinned account passes every gate (its first slot is looked at).
PinOpen(i) == /\ PinHolds(i)
              /\ available(Lead[PinnedTo(i)], now)
              /\ SharedOpen

\* pin(): at the cap, expired pins go first, then all of them.
Kept(pinned) ==
  LET fresh == {j \in pinned : now <= sticky[j].expires}
  IN  IF Cardinality(pinned) < MaxPins THEN pinned
      ELSE IF Cardinality(fresh) < MaxPins THEN fresh ELSE {}

pin(i, a) ==
  LET kept == Kept({j \in Ids \ {i} : sticky[j] # NoPin})
  IN  IF PinTTL[i] = 0 THEN sticky
      ELSE [j \in Ids |-> IF j = i THEN [acct |-> a, expires |-> now + PinTTL[i]]
                          ELSE IF j \in kept THEN sticky[j] ELSE NoPin]

\* grant spends a token of each bucket in force.
grant(a) ==
  /\ bucket' = IF Rpm[a] = 0 THEN bucket
               ELSE [bucket EXCEPT ![a] = take(@, Rpm[a], now)]
  /\ shared' = IF PoolRpm = 0 THEN shared ELSE take(shared, PoolRpm, now)

HandOut(r, a) == /\ grant(a)
                 /\ pc' = [pc EXCEPT ![r] = "picked"]
                 /\ acct' = [acct EXCEPT ![r] = a]
                 /\ UNCHANGED <<now, slotVars, live, flapVars, since, learned>>

\* The warm pin is idle: it wins without a scan.
NextPinned(r) ==
  LET i == Identity[r]
  IN  /\ pc[r] = "idle" /\ ~BreakerOpen
      /\ PinOpen(i) /\ live[Lead[PinnedTo(i)]] = 0
      /\ HandOut(r, PinnedTo(i))
      /\ UNCHANGED sticky

\* A plausible bug: every scan re-pins the identity.
Mut_NextScan_Repins(r) ==
  LET i == Identity[r]
  IN  /\ pc[r] = "idle" /\ ~BreakerOpen
      /\ ~(PinOpen(i) /\ live[Lead[PinnedTo(i)]] = 0)
      /\ \E s \in LeastBusy(OpenSlots) :
           /\ HandOut(r, Owner[s])
           /\ sticky' = pin(i, Owner[s])

\* Otherwise scan; a pin that is merely busy survives, any other is replaced.
NextScan(r) ==
  LET i == Identity[r]
  IN  /\ pc[r] = "idle" /\ ~BreakerOpen
      /\ ~(PinOpen(i) /\ live[Lead[PinnedTo(i)]] = 0)
      /\ \E s \in LeastBusy(OpenSlots) :
           /\ HandOut(r, Owner[s])
           /\ sticky' = IF PinOpen(i) THEN sticky ELSE pin(i, Owner[s])

\* Nothing to hand out: the caller gets PoolReady and gives up this target.
NextRefused(r) ==
  LET i == Identity[r]
  IN  /\ pc[r] = "idle"
      /\ BreakerOpen \/ OpenSlots = {}
      /\ sticky' = IF BreakerOpen THEN sticky ELSE [sticky EXCEPT ![i] = NoPin]
      /\ UNCHANGED <<now, slotVars, live, gateVars, flapVars, reqVars>>
-----------------------------------------------------------------------------
(* Verdicts about an account.  They reach every slot of it.                *)

Smaller(x, y) == IF x < y THEN x ELSE y

\* The 429 ladder: CoolBase doubled per strike, three times at most, capped.
Ladder(n) == Smaller(CoolBase * <<1, 2, 4, 8>>[Smaller(n, 3) + 1], CoolCap)

\* A plausible bug: only the first slot is benched.
Mut_Bench_FirstSlotOnly(a, d) ==
  /\ cooldown' = [cooldown EXCEPT ![Lead[a]] = Later(@, now + d)]
  /\ benchedAt' = [benchedAt EXCEPT ![Lead[a]] = now]

\* Bench the slots of a for d ticks; an active bench is only ever extended.
Bench(a, d) ==
  LET floor(s)   == Later(cooldown[s], now)
      extends(s) == Owner[s] = a /\ now + d > floor(s)
  IN  /\ cooldown' = [s \in Slots |-> IF extends(s) THEN now + d
                                      ELSE IF Owner[s] = a THEN floor(s) ELSE cooldown[s]]
      /\ benchedAt' = [s \in Slots |-> IF extends(s) THEN now ELSE benchedAt[s]]

cool(a, d) == Bench(a, d) /\ UNCHANGED <<strikes, invalidatedAt>>

rateLimited(a, retryAfter) ==
  LET cur == strikes[Lead[a]]
  IN  /\ cur < MaxStrikes
      /\ Bench(a, IF retryAfter > 0 THEN retryAfter ELSE Ladder(cur))
      /\ strikes' = [s \in Slots |-> IF Owner[s] = a THEN cur + 1 ELSE strikes[s]]
      /\ UNCHANGED invalidatedAt

\* A success clears the marks that are older than the request's start.
ok(a, start) ==
  LET heals(s)   == Owner[s] = a /\ invalidatedAt[s] < start
      unbench(s) == Owner[s] = a /\ cooldown[s] # 0 /\ benchedAt[s] < start
  IN  /\ strikes' = [s \in Slots |-> IF Owner[s] = a THEN 0 ELSE strikes[s]]
      /\ invalidatedAt' = [s \in Slots |-> IF heals(s) THEN 0 ELSE invalidatedAt[s]]
      /\ cooldown' = [s \in Slots |-> IF unbench(s) THEN 0 ELSE cooldown[s]]
      /\ benchedAt' = [s \in Slots |-> IF unbench(s) THEN 0 ELSE benchedAt[s]]

\* A plausible bug: only the first refusal starts a window.
Mut_invalidate_FirstRefusal(a) ==
  /\ invalidatedAt' = [s \in Slots |-> IF Owner[s] = a /\ invalidatedAt[s] = 0 THEN now
                                       ELSE invalidatedAt[s]]
  /\ UNCHANGED <<cooldown, benchedAt, strikes>>

\* A billing refusal: every refusal restarts the window.
invalidate(a) ==
  /\ invalidatedAt' = [s \in Slots |-> IF Owner[s] = a THEN now ELSE invalidatedAt[s]]
  /\ UNCHANGED <<cooldown, benchedAt, strikes>>

\* The operator re-enables an account; nothing happens to one not terminal.
revalidate(a) ==
  LET clears(s) == Owner[s] = a /\ invalidatedAt[s] # 0
      Zeroed(f) == [s \in Slots |-> IF clears(s) THEN 0 ELSE f[s]]
  IN  /\ invalidatedAt' = Zeroed(invalidatedAt) /\ strikes' = Zeroed(strikes)
      /\ cooldown' = Zeroed(cooldown) /\ benchedAt' = Zeroed(benchedAt)

flapStrike ==
  /\ flapStrikes < MaxFlap
  /\ flapStrikes' = flapStrikes + 1
  /\ flapOpenUntil' = IF flapStrikes + 1 >= FlapThreshold
                      THEN Later(flapOpenUntil, now + FlapOpen)
                      ELSE flapOpenUntil

flapHeal == flapStrikes' = 0 /\ flapOpenUntil' = 0
-----------------------------------------------------------------------------
(* The request: quota gate, queue, upstream call, answer.                  *)

Goto(r, label) == pc' = [pc EXCEPT ![r] = label]

\* The provider's own quota window is spent: every account is parked and the
\* attempt fails before any upstream work.
QuotaGate(r) ==
  /\ pc[r] = "picked"
  /\ \E d \in Parks :
       LET floor(s) == Later(cooldown[s], now)
       IN  /\ cooldown' = [s \in Slots |-> Later(floor(s), now + d)]
           /\ benchedAt' = [s \in Slots |-> IF now + d > floor(s) THEN now ELSE benchedAt[s]]
  /\ Goto(r, "failed")
  /\ UNCHANGED <<now, strikes, invalidatedAt, live, gateVars, sticky, flapVars,
                 acct, since, learned>>

\* do() starts: the recency stamp is taken before the queue for a free call.
Dispatch(r) ==
  /\ pc[r] = "picked"
  /\ Goto(r, "queued")
  /\ since' = [since EXCEPT ![r] = now]
  /\ UNCHANGED <<now, slotVars, live, gateVars, sticky, flapVars, acct, learned>>

InFlight == {r \in Reqs : pc[r] \in {"flying", "answered"}}

begin(r) ==
  /\ pc[r] = "queued"
  /\ MaxConc = 0 \/ Cardinality(InFlight) < MaxConc
  /\ Goto(r, "flying")
  /\ live' = [live EXCEPT ![Lead[acct[r]]] = @ + 1]
  /\ UNCHANGED <<now, slotVars, gateVars, sticky, flapVars, acct, since, learned>>

\* The client left while the call waited for a free place.
GiveUp(r) ==
  /\ pc[r] = "queued"
  /\ Goto(r, "failed")
  /\ UNCHANGED <<now, slotVars, live, gateVars, sticky, flapVars, acct, since, learned>>

\* The verdict do() itself draws from the upstream's answer.
Verdict(r, kind) ==
  LET a == acct[r]
  IN  \/ kind = "ok" /\ ok(a, since[r]) /\ flapHeal
      \/ /\ kind \in {"rate_limited", "quota_payment"} /\ UNCHANGED flapVars
         /\ \E w \in RetryAfters : rateLimited(a, w)
      \/ kind = "gated" /\ rateLimited(a, 0) /\ UNCHANGED flapVars
      \/ kind = "region_locked" /\ UNCHANGED flapVars /\ \E d \in Parks : cool(a, d)
      \/ kind = "edge_fault" /\ flapStrike /\ UNCHANGED slotVars
      \/ /\ kind \in {"shared_wall", "payment", "unauthorized", "other"}
         /\ UNCHANGED <<slotVars, flapVars>>

Answer(r, kind) ==
  /\ pc[r] = "flying"
  /\ Verdict(r, kind)
  /\ learned' = [learned EXCEPT ![r] = kind]
  /\ Goto(r, "answered")
  /\ UNCHANGED <<now, live, gateVars, sticky, acct, since>>

\* A plausible bug: end is called from the success path only.
Mut_end_SuccessOnly(r) ==
  /\ pc[r] = "answered"
  /\ live' = IF learned[r] = "ok" THEN [live EXCEPT ![Lead[acct[r]]] = IF @ > 0 THEN @ - 1 ELSE @]
             ELSE live
  /\ Goto(r, IF learned[r] = "ok" THEN "relaying" ELSE "failed")
  /\ UNCHANGED <<now, slotVars, gateVars, sticky, flapVars, acct, since, learned>>

\* The deferred end of do(): the slot is released, whatever the answer.
end(r) ==
  /\ pc[r] = "answered"
  /\ live' = [live EXCEPT ![Lead[acct[r]]] = IF @ > 0 THEN @ - 1 ELSE @]
  /\ Goto(r, IF learned[r] = "ok" THEN "relaying" ELSE "failed")
  /\ UNCHANGED <<now, slotVars, gateVars, sticky, flapVars, acct, since, learned>>

\* The goroutine is done with this attempt.
Leave(r) == /\ Goto(r, "idle")
            /\ acct' = [acct EXCEPT ![r] = NoAcct]
            /\ since' = [since EXCEPT ![r] = 0]
            /\ learned' = [learned EXCEPT ![r] = "nothing"]

\* The caller of do() notes what the error says of the account, then the
\* router drops the pin of the failed attempt.
Fail(r) ==
  /\ pc[r] = "failed"
  /\ CASE learned[r] \in {"payment", "quota_payment"} -> invalidate(acct[r])
       [] learned[r] = "unauthorized" -> \E d \in Parks : cool(acct[r], d)
       [] OTHER -> UNCHANGED slotVars
  /\ sticky' = [sticky EXCEPT ![Identity[r]] = NoPin]
  /\ Leave(r)
  /\ UNCHANGED <<now, live, gateVars, flapVars>>

\* The answer has been relayed to its end.
Relayed(r) ==
  /\ pc[r] = "relaying"
  /\ Leave(r)
  /\ UNCHANGED <<now, slotVars, live, gateVars, sticky, flapVars>>

\* The answer breaks off with a 429 or a region refusal inside the stream.
RelayBroken(r) ==
  /\ pc[r] = "relaying"
  /\ \/ "rate_limited" \in Answers /\ \E w \in RetryAfters : rateLimited(acct[r], w)
     \/ "region_locked" \in Answers /\ \E d \in Parks : cool(acct[r], d)
  /\ Goto(r, "failed")
  /\ learned' = [learned EXCEPT ![r] = "other"]
  /\ UNCHANGED <<now, live, gateVars, sticky, flapVars, acct, since>>

\* Outside a request: the operator's reset; the subscription and OAuth parks.
Reset(a) == /\ revalidate(a)
            /\ UNCHANGED <<now, live, gateVars, sticky, flapVars, reqVars>>

Park(a) == /\ \E d \in Parks : cool(a, d)
           /\ UNCHANGED <<now, live, gateVars, sticky, flapVars, reqVars>>

RequestStep(r) == \/ NextPinned(r) \/ NextScan(r) \/ NextRefused(r)
                  \/ QuotaGate(r) \/ Dispatch(r) \/ begin(r) \/ GiveUp(r)
                  \/ \E kind \in Answers : Answer(r, kind)
                  \/ end(r) \/ Fail(r) \/ Relayed(r) \/ RelayBroken(r)

Next == \/ Tick
        \/ \E r \in Reqs : RequestStep(r)
        \/ \E a \in Accounts : Reset(a) \/ Park(a)

Spec == Init /\ [][Next]_vars
-----------------------------------------------------------------------------
Labels == {"idle", "picked", "queued", "flying", "answered", "relaying", "failed"}

Pin == {NoPin} \cup [acct : Accounts, expires : Nat]

\* Types.
TypeOK ==
  /\ now \in Nat
  /\ cooldown \in [Slots -> Nat] /\ benchedAt \in [Slots -> Nat]
  /\ strikes \in [Slots -> Nat] /\ invalidatedAt \in [Slots -> Nat]
  /\ live \in [Slots -> Nat]
  /\ bucket \in [Accounts -> [tokens : Int, last : Nat]]
  /\ shared \in [tokens : Int, last : Nat]
  /\ sticky \in [Ids -> Pin]
  /\ flapStrikes \in Nat /\ flapOpenUntil \in Nat
  /\ pc \in [Reqs -> Labels]
  /\ acct \in [Reqs -> Accounts \cup {NoAcct}]
  /\ since \in [Reqs -> Nat]
  /\ learned \in [Reqs -> AnswerKinds \cup {"nothing"}]

\* A request holds an account from the pick to the end of the attempt.
HoldsAccount == \A r \in Reqs : (pc[r] = "idle") <=> (acct[r] = NoAcct)

(* A weighted account is parked, struck and revived as one: whatever mix   *)
(* of verdicts arrives, its slots never disagree (rateLimited: "slots stay *)
(* in sync", cool, ok, invalidate, revalidate).                            *)
SlotsAgree ==
  \A s, u \in Slots : Owner[s] = Owner[u] =>
     /\ cooldown[s] = cooldown[u] /\ benchedAt[s] = benchedAt[u]
     /\ strikes[s] = strikes[u] /\ invalidatedAt[s] = invalidatedAt[u]

(* Occupancy does not leak: on every path (answers of every kind, a client *)
(* gone in the queue, a quota refusal) the busy mark of an account equals  *)
(* the calls really in flight on it (begin, end, the defer in do).         *)
LiveMatches ==
  \A s \in Slots :
     live[s] = IF s = Lead[Owner[s]]
               THEN Cardinality({r \in InFlight : acct[r] = Owner[s]}) ELSE 0

Refuses == BreakerOpen \/ OpenSlots = {}

(* The announced wait is not longer than it must be: when next() hands out *)
(* nothing, no slot passes its gates at any instant before the one it      *)
(* announces (available, next; for pools without RPM buckets).             *)
ReadyNotLate ==
  Refuses => \A t \in now .. (PoolReady - 1) :
               \/ t < flapOpenUntil
               \/ \A s \in Slots : ~available(s, t)

Picks(r, a) == pc[r] = "idle" /\ pc'[r] = "picked" /\ acct'[r] = a

CallsOn(a) == {r \in InFlight : acct[r] = a}
OpenAccounts == {Owner[s] : s \in OpenSlots}

(* A request is never stacked on an account that is serving a call while   *)
(* another account is open and serves none (pickSlot's occupancy gate, the *)
(* live test of the warm pin).                                             *)
NoStacking ==
  [][\A r \in Reqs, a \in Accounts :
        Picks(r, a) /\ CallsOn(a) # {}
           => \A b \in OpenAccounts : CallsOn(b) # {}]_vars

\* The identities whose attempt fails in this step.
FailedIds == {Identity[r] : r \in {q \in Reqs : pc[q] = "failed" /\ pc'[q] = "idle"}}

(* A warm pin whose account is merely busy survives the requests that      *)
(* spread to other accounts (keepPin in next); only a failed attempt of    *)
(* the same identity, or the map's cap, takes it away.                     *)
WarmPinSurvives ==
  [][\A i \in Ids :
        PinOpen(i) /\ sticky'[i] # sticky[i]
           => i \in FailedIds \/ Cardinality({j \in Ids : sticky[j] # NoPin}) >= MaxPins]_vars
=============================================================================
