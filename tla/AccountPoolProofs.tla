------------------------- MODULE AccountPoolProofs -------------------------
(***************************************************************************)
(* Proofs about AccountPool for any accounts, weights, requests, answers   *)
(* and policy.  The inductive invariant is                                 *)
(*                                                                         *)
(*    IInv == TypeOK /\ HoldsAccount /\ SlotsAgree /\ LiveMatches          *)
(*                                                                         *)
(* HoldsAccount is the strengthening: without it begin and end could mark  *)
(* the slot of no account.  The verdicts touch only the slot fields        *)
(* (SlotsOK), the request's progress only occupancy, so the two halves are *)
(* proved apart.                                                           *)
(***************************************************************************)
EXTENDS AccountPoolAudit, FiniteSetTheorems, WellFoundedInduction, TLAPS

SlotTypes ==
  /\ cooldown \in [Slots -> Nat] /\ benchedAt \in [Slots -> Nat]
  /\ strikes \in [Slots -> Nat] /\ invalidatedAt \in [Slots -> Nat]

SlotsOK == SlotTypes /\ SlotsAgree

Occupancy == HoldsAccount /\ LiveMatches

IInv == TypeOK /\ HoldsAccount /\ SlotsAgree /\ LiveMatches

-----------------------------------------------------------------------------
(* Lemmas about the verdicts: each keeps the slots of an account in step.  *)

LEMMA LadderNat == ASSUME NEW n \in Nat PROVE Ladder(n) \in Nat
<1>1. Smaller(n, 3) + 1 \in 1 .. 4
  BY DEF Smaller
<1>2. <<1, 2, 4, 8>>[Smaller(n, 3) + 1] \in Nat
  BY <1>1
<1> DEFINE k == <<1, 2, 4, 8>>[Smaller(n, 3) + 1]
<1>3. CoolBase * k \in Nat
  BY <1>2, PoolAssumption
<1> HIDE DEF k
<1> QED
  BY <1>3, PoolAssumption DEF Ladder, Smaller, k

LEMMA BenchKeeps ==
  ASSUME NEW a \in Accounts, NEW d \in Nat, now \in Nat, SlotsOK, Bench(a, d)
  PROVE  /\ cooldown' \in [Slots -> Nat] /\ benchedAt' \in [Slots -> Nat]
         /\ \A s, u \in Slots : Owner[s] = Owner[u] =>
               cooldown'[s] = cooldown'[u] /\ benchedAt'[s] = benchedAt'[u]
<1>1. now + d \in Nat
  OBVIOUS
<1>2. \A s \in Slots : Later(cooldown[s], now) \in Nat
  BY DEF SlotsOK, SlotTypes, Later
<1>3. cooldown' \in [Slots -> Nat] /\ benchedAt' \in [Slots -> Nat]
  BY <1>1, <1>2 DEF Bench, SlotsOK, SlotTypes
<1>4. \A s, u \in Slots : Owner[s] = Owner[u] =>
               cooldown'[s] = cooldown'[u] /\ benchedAt'[s] = benchedAt'[u]
  BY DEF Bench, SlotsOK, SlotsAgree
<1> QED
  BY <1>3, <1>4

LEMMA CoolKeeps ==
  ASSUME NEW a \in Accounts, NEW d \in Nat, now \in Nat, SlotsOK, cool(a, d)
  PROVE  SlotsOK'
<1>1. Bench(a, d) /\ strikes' = strikes /\ invalidatedAt' = invalidatedAt
  BY DEF cool
<1> QED
  BY <1>1, BenchKeeps DEF SlotsOK, SlotTypes, SlotsAgree

LEMMA RateLimitedKeeps ==
  ASSUME NEW a \in Accounts, NEW w \in Nat, now \in Nat, SlotsOK, rateLimited(a, w)
  PROVE  SlotsOK'
<1> DEFINE cur == strikes[Lead[a]]
           d   == IF w > 0 THEN w ELSE Ladder(cur)
<1>1. cur \in Nat
  BY PoolAssumption DEF SlotsOK, SlotTypes
<1>2. d \in Nat
  BY <1>1, LadderNat
<1>3. /\ Bench(a, d)
      /\ strikes' = [s \in Slots |-> IF Owner[s] = a THEN cur + 1 ELSE strikes[s]]
      /\ invalidatedAt' = invalidatedAt
  BY DEF rateLimited
<1> HIDE DEF cur, d
<1>4. strikes' \in [Slots -> Nat]
  BY <1>1, <1>3 DEF SlotsOK, SlotTypes
<1>5. \A s, u \in Slots : Owner[s] = Owner[u] => strikes'[s] = strikes'[u]
  BY <1>3 DEF SlotsOK, SlotsAgree
<1> QED
  BY <1>2, <1>3, <1>4, <1>5, BenchKeeps DEF SlotsOK, SlotTypes, SlotsAgree

LEMMA OkKeeps ==
  ASSUME NEW a \in Accounts, NEW t \in Nat, SlotsOK, ok(a, t)
  PROVE  SlotsOK'
<1>1. SlotTypes'
  BY DEF ok, SlotsOK, SlotTypes
<1>2. SlotsAgree'
  BY DEF ok, SlotsOK, SlotsAgree
<1> QED
  BY <1>1, <1>2 DEF SlotsOK

LEMMA InvalidateKeeps ==
  ASSUME NEW a \in Accounts, now \in Nat, SlotsOK, invalidate(a)
  PROVE  SlotsOK'
  BY DEF invalidate, SlotsOK, SlotTypes, SlotsAgree

LEMMA RevalidateKeeps ==
  ASSUME NEW a \in Accounts, SlotsOK, revalidate(a)
  PROVE  SlotsOK'
<1>1. SlotTypes'
  BY DEF revalidate, SlotsOK, SlotTypes
<1>2. SlotsAgree'
  BY DEF revalidate, SlotsOK, SlotsAgree
<1> QED
  BY <1>1, <1>2 DEF SlotsOK

-----------------------------------------------------------------------------
(* Lemmas about occupancy.                                                 *)

LEMMA CallsFinite == ASSUME NEW a PROVE IsFiniteSet(CallsOn(a))
<1>1. CallsOn(a) \subseteq Reqs
  BY DEF CallsOn, InFlight
<1> QED
  BY <1>1, FS_Subset, PoolAssumption

\* As long as the same calls are in flight, nothing has to be marked.
LEMMA SameCalls ==
  ASSUME LiveMatches, live' = live, \A a \in Accounts : CallsOn(a)' = CallsOn(a)
  PROVE  LiveMatches'
<1>1. \A s \in Slots : Owner[s] \in Accounts
  BY PoolAssumption
<1> QED
  BY <1>1 DEF LiveMatches, CallsOn

-----------------------------------------------------------------------------
LEMMA InitIInv == Init => IInv
<1> SUFFICES ASSUME Init PROVE IInv
  OBVIOUS
<1>1. TypeOK
  BY PoolAssumption, TokenUnitAssumption
     DEF Init, TypeOK, Pin, NoPin, Labels, newTokenBucket
<1>2. HoldsAccount /\ SlotsAgree
  BY DEF Init, HoldsAccount, SlotsAgree
<1>3. LiveMatches
  <2>1. InFlight = {}
    BY DEF Init, InFlight
  <2>2. \A a : {r \in InFlight : acct[r] = a} = {}
    BY <2>1
  <2> QED
    BY <2>2, FS_EmptySet DEF Init, LiveMatches
<1> QED
  BY <1>1, <1>2, <1>3 DEF IInv
-----------------------------------------------------------------------------
(* Steps of a request that is not in flight before or after.               *)

LEMMA OutsideCalls ==
  ASSUME TypeOK, NEW r \in Reqs, NEW l \in Labels, NEW x,
         pc[r] \notin {"flying", "answered"}, l \notin {"flying", "answered"},
         pc' = [pc EXCEPT ![r] = l],
         acct' = [acct EXCEPT ![r] = x]
  PROVE  \A a \in Accounts : CallsOn(a)' = CallsOn(a)
  BY DEF TypeOK, CallsOn, InFlight

LEMMA GrantTypes ==
  ASSUME TypeOK, NEW a \in Accounts, grant(a)
  PROVE  /\ bucket' \in [Accounts -> [tokens : Int, last : Nat]]
         /\ shared' \in [tokens : Int, last : Nat]
<1>1. ASSUME NEW b \in [tokens : Int, last : Nat], NEW k \in Nat
      PROVE  take(b, k, now) \in [tokens : Int, last : Nat]
  <2>1. Credit(b, k, now) \in Int
    <3>1. (now - b.last) * k \in Int
      BY DEF TypeOK
    <3> QED
      BY <3>1 DEF Credit
  <2> QED
    BY <2>1, TokenUnitAssumption DEF take, TypeOK
<1>2. Rpm[a] \in Nat /\ PoolRpm \in Nat
  BY PoolAssumption
<1>3. bucket[a] \in [tokens : Int, last : Nat] /\ shared \in [tokens : Int, last : Nat]
  BY DEF TypeOK
<1>4. /\ take(bucket[a], Rpm[a], now) \in [tokens : Int, last : Nat]
      /\ take(shared, PoolRpm, now) \in [tokens : Int, last : Nat]
  BY <1>1, <1>2, <1>3
<1> QED
  BY <1>4 DEF grant, TypeOK

LEMMA HandOutKeeps ==
  ASSUME IInv, NEW r \in Reqs, NEW a \in Accounts, pc[r] = "idle", HandOut(r, a),
         sticky' \in [Ids -> Pin]
  PROVE  IInv'
<1> USE DEF IInv
<1>1. /\ now' = now /\ live' = live /\ since' = since /\ learned' = learned
      /\ UNCHANGED slotVars /\ UNCHANGED flapVars
      /\ pc' = [pc EXCEPT ![r] = "picked"] /\ acct' = [acct EXCEPT ![r] = a] /\ grant(a)
  BY DEF HandOut
<1>2. TypeOK'
  BY <1>1, GrantTypes DEF TypeOK, slotVars, flapVars, Labels
<1>3. HoldsAccount'
  BY <1>1, PoolAssumption DEF HoldsAccount, TypeOK
<1>4. SlotsAgree'
  BY <1>1 DEF SlotsAgree, slotVars
<1>5. LiveMatches'
  <2>1. \A c \in Accounts : CallsOn(c)' = CallsOn(c)
    BY <1>1, OutsideCalls DEF Labels
  <2> QED
    BY <1>1, <2>1, SameCalls
<1> QED
  BY <1>2, <1>3, <1>4, <1>5

\* Only a free pin or one of an account is ever stored.
LEMMA PinTypes ==
  ASSUME TypeOK, NEW i \in Ids, NEW a \in Accounts
  PROVE  pin(i, a) \in [Ids -> Pin]
<1>1. now + PinTTL[i] \in Nat
  BY PoolAssumption DEF TypeOK
<1> QED
  BY <1>1 DEF pin, TypeOK, Pin

LEMMA NextPinnedKeeps ==
  ASSUME IInv, NEW r \in Reqs, NextPinned(r) PROVE IInv'
<1> DEFINE i == Identity[r]
<1>1. i \in Ids
  BY PoolAssumption
<1>2. PinnedTo(i) \in Accounts
  BY <1>1 DEF NextPinned, PinOpen, PinHolds, PinnedTo, IInv, TypeOK, Pin
<1>3. sticky' \in [Ids -> Pin]
  BY DEF NextPinned, IInv, TypeOK
<1>4. pc[r] = "idle" /\ HandOut(r, PinnedTo(i))
  BY DEF NextPinned
<1> QED
  BY <1>2, <1>3, <1>4, HandOutKeeps

LEMMA NextScanKeeps ==
  ASSUME IInv, NEW r \in Reqs, NextScan(r) PROVE IInv'
<1> DEFINE i == Identity[r]
<1>1. i \in Ids
  BY PoolAssumption
<1>2. PICK s \in Slots : /\ pc[r] = "idle" /\ HandOut(r, Owner[s])
                         /\ sticky' = IF PinOpen(i) THEN sticky ELSE pin(i, Owner[s])
  BY DEF NextScan, LeastBusy, OpenSlots
<1>3. Owner[s] \in Accounts
  BY PoolAssumption
<1>4. sticky' \in [Ids -> Pin]
  BY <1>1, <1>2, <1>3, PinTypes DEF IInv, TypeOK
<1> QED
  BY <1>2, <1>3, <1>4, HandOutKeeps

LEMMA NextRefusedKeeps ==
  ASSUME IInv, NEW r \in Reqs, NextRefused(r) PROVE IInv'
<1>1. /\ now' = now /\ live' = live /\ UNCHANGED slotVars /\ UNCHANGED gateVars
      /\ UNCHANGED flapVars /\ UNCHANGED reqVars
      /\ sticky' \in [Ids -> Pin]
  BY DEF NextRefused, IInv, TypeOK, Pin
<1>2. TypeOK' /\ HoldsAccount' /\ SlotsAgree'
  BY <1>1 DEF IInv, TypeOK, HoldsAccount, SlotsAgree, slotVars, gateVars, flapVars, reqVars
<1>3. LiveMatches'
  BY <1>1 DEF IInv, LiveMatches, InFlight, reqVars
<1> QED
  BY <1>2, <1>3 DEF IInv

\* A step that only rewrites slot fields and moves r outside the calls.
LEMMA OutsideKeeps ==
  ASSUME IInv, NEW r \in Reqs, NEW l \in Labels \ {"flying", "answered", "idle"},
         pc[r] \notin {"flying", "answered", "idle"},
         pc' = [pc EXCEPT ![r] = l], acct' = acct, live' = live, now' = now,
         SlotsOK',
         UNCHANGED gateVars, UNCHANGED sticky, UNCHANGED flapVars,
         since' \in [Reqs -> Nat], learned' \in [Reqs -> AnswerKinds \cup {"nothing"}]
  PROVE  IInv'
<1>1. TypeOK'
  BY DEF IInv, TypeOK, SlotsOK, SlotTypes, gateVars, flapVars
<1>2. HoldsAccount'
  BY DEF IInv, TypeOK, HoldsAccount
<1>3. \A a \in Accounts : CallsOn(a)' = CallsOn(a)
  <2>1. acct' = [acct EXCEPT ![r] = acct[r]]
    BY DEF IInv, TypeOK
  <2> QED
    BY <2>1, OutsideCalls DEF IInv
<1>4. LiveMatches'
  BY <1>3, SameCalls DEF IInv
<1> QED
  BY <1>1, <1>2, <1>4 DEF IInv, SlotsOK

LEMMA SlotsOKHere == IInv => SlotsOK
  BY DEF IInv, TypeOK, SlotsOK, SlotTypes

LEMMA QuotaGateKeeps ==
  ASSUME IInv, NEW r \in Reqs, QuotaGate(r) PROVE IInv'
<1>1. PICK d \in Parks :
       /\ cooldown' = [s \in Slots |-> Later(Later(cooldown[s], now), now + d)]
       /\ benchedAt' = [s \in Slots |-> IF now + d > Later(cooldown[s], now) THEN now
                                        ELSE benchedAt[s]]
  BY DEF QuotaGate
<1>2. now + d \in Nat /\ now \in Nat
  BY PoolAssumption DEF IInv, TypeOK
<1>3. /\ pc[r] = "picked" /\ pc' = [pc EXCEPT ![r] = "failed"] /\ acct' = acct
      /\ live' = live /\ now' = now /\ since' = since /\ learned' = learned
      /\ strikes' = strikes /\ invalidatedAt' = invalidatedAt
      /\ UNCHANGED gateVars /\ UNCHANGED sticky /\ UNCHANGED flapVars
  BY DEF QuotaGate, Goto
<1>4. SlotTypes'
  BY <1>1, <1>2, <1>3 DEF IInv, TypeOK, SlotTypes, Later
<1>5. SlotsAgree'
  BY <1>1, <1>3 DEF IInv, SlotsAgree
<1> QED
  BY <1>3, <1>4, <1>5, OutsideKeeps DEF SlotsOK, Labels, IInv, TypeOK

LEMMA DispatchKeeps ==
  ASSUME IInv, NEW r \in Reqs, Dispatch(r) PROVE IInv'
<1>1. /\ pc[r] = "picked" /\ pc' = [pc EXCEPT ![r] = "queued"] /\ acct' = acct
      /\ live' = live /\ now' = now /\ learned' = learned /\ UNCHANGED slotVars
      /\ UNCHANGED gateVars /\ UNCHANGED sticky /\ UNCHANGED flapVars
      /\ since' \in [Reqs -> Nat]
  BY DEF Dispatch, Goto, IInv, TypeOK
<1>2. SlotsOK'
  BY <1>1, SlotsOKHere DEF SlotsOK, SlotTypes, SlotsAgree, slotVars
<1> QED
  BY <1>1, <1>2, OutsideKeeps DEF Labels, IInv, TypeOK

LEMMA GiveUpKeeps ==
  ASSUME IInv, NEW r \in Reqs, GiveUp(r) PROVE IInv'
<1>1. /\ pc[r] = "queued" /\ pc' = [pc EXCEPT ![r] = "failed"] /\ acct' = acct
      /\ live' = live /\ now' = now /\ learned' = learned /\ UNCHANGED slotVars
      /\ UNCHANGED gateVars /\ UNCHANGED sticky /\ UNCHANGED flapVars /\ since' = since
  BY DEF GiveUp, Goto
<1>2. SlotsOK'
  BY <1>1, SlotsOKHere DEF SlotsOK, SlotTypes, SlotsAgree, slotVars
<1> QED
  BY <1>1, <1>2, OutsideKeeps DEF Labels, IInv, TypeOK

LEMMA RelayBrokenKeeps ==
  ASSUME IInv, NEW r \in Reqs, RelayBroken(r) PROVE IInv'
<1>1. /\ pc[r] = "relaying" /\ pc' = [pc EXCEPT ![r] = "failed"] /\ acct' = acct
      /\ live' = live /\ now' = now /\ since' = since
      /\ UNCHANGED gateVars /\ UNCHANGED sticky /\ UNCHANGED flapVars
      /\ learned' \in [Reqs -> AnswerKinds \cup {"nothing"}]
  BY DEF RelayBroken, Goto, IInv, TypeOK, AnswerKinds
<1>2. acct[r] \in Accounts
  BY <1>1 DEF IInv, TypeOK, HoldsAccount
<1>3. SlotsOK'
  BY <1>2, SlotsOKHere, CoolKeeps, RateLimitedKeeps, PoolAssumption
     DEF RelayBroken, IInv, TypeOK
<1> QED
  BY <1>1, <1>3, OutsideKeeps DEF Labels, IInv, TypeOK
-----------------------------------------------------------------------------
(* Steps that begin, answer and end a call.                                *)

\* The part of TypeOK that says how many calls each slot carries.
LEMMA LiveShape ==
  ASSUME IInv, NEW s \in Slots
  PROVE  /\ Owner[s] \in Accounts /\ live[s] \in Nat
         /\ live[s] = IF s = Lead[Owner[s]] THEN Cardinality(CallsOn(Owner[s])) ELSE 0
  BY PoolAssumption DEF IInv, TypeOK, LiveMatches, CallsOn

LEMMA BeginKeeps ==
  ASSUME IInv, NEW r \in Reqs, begin(r) PROVE IInv'
<1> DEFINE a == acct[r]
<1>1. /\ pc[r] = "queued" /\ pc' = [pc EXCEPT ![r] = "flying"] /\ acct' = acct
      /\ live' = [live EXCEPT ![Lead[a]] = @ + 1]
      /\ now' = now /\ UNCHANGED slotVars /\ UNCHANGED gateVars /\ sticky' = sticky
      /\ UNCHANGED flapVars /\ since' = since /\ learned' = learned
  BY DEF begin, Goto
<1>2. a \in Accounts /\ Lead[a] \in Slots /\ Owner[Lead[a]] = a
  BY <1>1, PoolAssumption DEF IInv, TypeOK, HoldsAccount
<1>3. TypeOK'
  BY <1>1, <1>2 DEF IInv, TypeOK, Labels, slotVars, gateVars, flapVars
<1>4. HoldsAccount' /\ SlotsAgree'
  BY <1>1 DEF IInv, TypeOK, HoldsAccount, SlotsAgree, slotVars
<1>5. /\ r \notin CallsOn(a) /\ CallsOn(a)' = CallsOn(a) \cup {r}
      /\ \A c \in Accounts \ {a} : CallsOn(c)' = CallsOn(c)
  BY <1>1 DEF IInv, TypeOK, CallsOn, InFlight
<1>6. Cardinality(CallsOn(a)') = Cardinality(CallsOn(a)) + 1
  BY <1>5, CallsFinite, FS_AddElement
<1>7. ASSUME NEW s \in Slots
      PROVE  live'[s] = IF s = Lead[Owner[s]] THEN Cardinality(CallsOn(Owner[s])') ELSE 0
  <2>1. CASE s = Lead[a]
    BY <1>1, <1>2, <1>6, <2>1, LiveShape DEF IInv, TypeOK
  <2>2. CASE s # Lead[a]
    <3>1. live'[s] = live[s]
      BY <1>1, <2>2 DEF IInv, TypeOK
    <3>2. s = Lead[Owner[s]] => Owner[s] # a
      BY <2>2
    <3> QED
      BY <1>5, <3>1, <3>2, LiveShape
  <2> QED
    BY <2>1, <2>2
<1>8. LiveMatches'
  BY <1>7 DEF LiveMatches, CallsOn
<1> QED
  BY <1>3, <1>4, <1>8 DEF IInv

LEMMA EndKeeps ==
  ASSUME IInv, NEW r \in Reqs, end(r) PROVE IInv'
<1> DEFINE a == acct[r]
           l == IF learned[r] = "ok" THEN "relaying" ELSE "failed"
<1>1. /\ pc[r] = "answered" /\ pc' = [pc EXCEPT ![r] = l] /\ acct' = acct
      /\ live' = [live EXCEPT ![Lead[a]] = IF @ > 0 THEN @ - 1 ELSE @]
      /\ now' = now /\ UNCHANGED slotVars /\ UNCHANGED gateVars /\ sticky' = sticky
      /\ UNCHANGED flapVars /\ since' = since /\ learned' = learned
  BY DEF end, Goto
<1>2. a \in Accounts /\ Lead[a] \in Slots /\ Owner[Lead[a]] = a
  BY <1>1, PoolAssumption DEF IInv, TypeOK, HoldsAccount
<1>3. TypeOK'
  <2>1. live' \in [Slots -> Nat]
    BY <1>1, <1>2 DEF IInv, TypeOK
  <2> QED
    BY <1>1, <2>1 DEF IInv, TypeOK, Labels, slotVars, gateVars, flapVars
<1>4. HoldsAccount' /\ SlotsAgree'
  BY <1>1 DEF IInv, TypeOK, HoldsAccount, SlotsAgree, slotVars
<1>5. /\ r \in CallsOn(a) /\ CallsOn(a)' = CallsOn(a) \ {r}
      /\ \A c \in Accounts \ {a} : CallsOn(c)' = CallsOn(c)
  BY <1>1 DEF IInv, TypeOK, CallsOn, InFlight
<1>6. /\ Cardinality(CallsOn(a)') = Cardinality(CallsOn(a)) - 1
      /\ Cardinality(CallsOn(a)) \in Nat /\ Cardinality(CallsOn(a)) # 0
  BY <1>5, CallsFinite, FS_RemoveElement, FS_CardinalityType, FS_EmptySet
<1>7. ASSUME NEW s \in Slots
      PROVE  live'[s] = IF s = Lead[Owner[s]] THEN Cardinality(CallsOn(Owner[s])') ELSE 0
  <2>1. CASE s = Lead[a]
    <3>1. live[s] = Cardinality(CallsOn(a))
      BY <1>2, <2>1, LiveShape
    <3>2. live[s] > 0
      BY <1>6, <3>1
    <3>3. live'[s] = live[s] - 1
      BY <1>1, <2>1, <3>2 DEF IInv, TypeOK
    <3>4. Owner[s] = a /\ s = Lead[Owner[s]]
      BY <1>2, <2>1
    <3>5. live'[s] = Cardinality(CallsOn(a)')
      BY <1>6, <3>1, <3>3
    <3> QED
      BY <1>1, <3>4, <3>5
  <2>2. CASE s # Lead[a]
    <3>1. live'[s] = live[s]
      BY <1>1, <2>2 DEF IInv, TypeOK
    <3>2. s = Lead[Owner[s]] => Owner[s] # a
      BY <2>2
    <3>3. Owner[s] \in Accounts
      BY LiveShape
    <3>4. s = Lead[Owner[s]] => CallsOn(Owner[s])' = CallsOn(Owner[s])
      BY <1>5, <3>2, <3>3
    <3> QED
      BY <3>1, <3>4, LiveShape
  <2> QED
    BY <2>1, <2>2
<1>8. LiveMatches'
  BY <1>7 DEF LiveMatches, CallsOn
<1> QED
  BY <1>3, <1>4, <1>8 DEF IInv

LEMMA AnswerKeeps ==
  ASSUME IInv, NEW r \in Reqs, NEW kind \in Answers, Answer(r, kind) PROVE IInv'
<1>1. /\ pc[r] = "flying" /\ pc' = [pc EXCEPT ![r] = "answered"] /\ acct' = acct
      /\ live' = live /\ now' = now /\ since' = since
      /\ UNCHANGED gateVars /\ sticky' = sticky
      /\ learned' = [learned EXCEPT ![r] = kind]
  BY DEF Answer, Goto
<1>2. acct[r] \in Accounts /\ since[r] \in Nat /\ now \in Nat /\ kind \in AnswerKinds
  BY <1>1, PoolAssumption DEF IInv, TypeOK, HoldsAccount
<1>3. SlotsOK' /\ flapStrikes' \in Nat /\ flapOpenUntil' \in Nat
  <2>1. Verdict(r, kind)
    BY DEF Answer
  <2>2. CASE kind = "ok" /\ ok(acct[r], since[r]) /\ flapHeal
    BY <1>2, <2>2, SlotsOKHere, OkKeeps DEF flapHeal
  <2>3. CASE UNCHANGED flapVars /\ \E w \in RetryAfters : rateLimited(acct[r], w)
    BY <1>2, <2>3, SlotsOKHere, RateLimitedKeeps, PoolAssumption
       DEF flapVars, IInv, TypeOK
  <2>4. CASE rateLimited(acct[r], 0) /\ UNCHANGED flapVars
    BY <1>2, <2>4, SlotsOKHere, RateLimitedKeeps DEF flapVars, IInv, TypeOK
  <2>5. CASE UNCHANGED flapVars /\ \E d \in Parks : cool(acct[r], d)
    BY <1>2, <2>5, SlotsOKHere, CoolKeeps, PoolAssumption DEF flapVars, IInv, TypeOK
  <2>6. CASE flapStrike /\ UNCHANGED slotVars
    <3>1. SlotsOK'
      BY <2>6, SlotsOKHere DEF SlotsOK, SlotTypes, SlotsAgree, slotVars
    <3>2. flapStrikes' \in Nat /\ flapOpenUntil' \in Nat
      BY <2>6, PoolAssumption DEF flapStrike, Later, IInv, TypeOK
    <3> QED
      BY <3>1, <3>2
  <2>7. CASE UNCHANGED <<slotVars, flapVars>>
    BY <2>7, SlotsOKHere DEF SlotsOK, SlotTypes, SlotsAgree, slotVars, flapVars, IInv, TypeOK
  <2> QED
    BY <2>1, <2>2, <2>3, <2>4, <2>5, <2>6, <2>7 DEF Verdict
<1>4. TypeOK'
  BY <1>1, <1>2, <1>3 DEF IInv, TypeOK, SlotsOK, SlotTypes, Labels, gateVars
<1>5. HoldsAccount'
  BY <1>1 DEF IInv, TypeOK, HoldsAccount
<1>6. LiveMatches'
  <2>1. \A a \in Accounts : CallsOn(a)' = CallsOn(a)
    BY <1>1 DEF IInv, TypeOK, CallsOn, InFlight
  <2> QED
    BY <1>1, <2>1, SameCalls DEF IInv
<1> QED
  BY <1>3, <1>4, <1>5, <1>6 DEF IInv, SlotsOK

-----------------------------------------------------------------------------
(* Steps that end an attempt, and those outside a request.                 *)

LEMMA LeaveKeeps ==
  ASSUME IInv, NEW r \in Reqs, Leave(r), pc[r] \in {"failed", "relaying"}, SlotsOK',
         live' = live, now' = now, UNCHANGED gateVars, UNCHANGED flapVars,
         sticky' \in [Ids -> Pin]
  PROVE  IInv'
<1>1. /\ pc' = [pc EXCEPT ![r] = "idle"] /\ acct' = [acct EXCEPT ![r] = NoAcct]
      /\ since' \in [Reqs -> Nat] /\ learned' \in [Reqs -> AnswerKinds \cup {"nothing"}]
  BY DEF Leave, Goto, IInv, TypeOK
<1>2. TypeOK'
  BY <1>1 DEF IInv, TypeOK, SlotsOK, SlotTypes, Labels, gateVars, flapVars
<1>3. HoldsAccount'
  BY <1>1 DEF IInv, TypeOK, HoldsAccount
<1>4. LiveMatches'
  <2>1. \A a \in Accounts : CallsOn(a)' = CallsOn(a)
    BY <1>1, OutsideCalls DEF Labels, IInv
  <2> QED
    BY <2>1, SameCalls DEF IInv
<1> QED
  BY <1>2, <1>3, <1>4 DEF IInv, SlotsOK

LEMMA FailKeeps ==
  ASSUME IInv, NEW r \in Reqs, Fail(r) PROVE IInv'
<1>1. acct[r] \in Accounts /\ now \in Nat
  BY DEF Fail, IInv, TypeOK, HoldsAccount
<1>2. SlotsOK'
  <2>1. CASE invalidate(acct[r])
    BY <1>1, <2>1, SlotsOKHere, InvalidateKeeps
  <2>2. CASE \E d \in Parks : cool(acct[r], d)
    BY <1>1, <2>2, SlotsOKHere, CoolKeeps, PoolAssumption
  <2>3. CASE UNCHANGED slotVars
    BY <2>3, SlotsOKHere DEF SlotsOK, SlotTypes, SlotsAgree, slotVars
  <2> QED
    BY <2>1, <2>2, <2>3 DEF Fail
<1>3. sticky' \in [Ids -> Pin]
  BY DEF Fail, IInv, TypeOK, Pin
<1> QED
  BY <1>2, <1>3, LeaveKeeps DEF Fail

LEMMA RelayedKeeps ==
  ASSUME IInv, NEW r \in Reqs, Relayed(r) PROVE IInv'
<1>1. SlotsOK' /\ sticky' \in [Ids -> Pin]
  BY SlotsOKHere DEF Relayed, SlotsOK, SlotTypes, SlotsAgree, slotVars, IInv, TypeOK
<1> QED
  BY <1>1, LeaveKeeps DEF Relayed

\* A step that only rewrites slot fields.
LEMMA VerdictOnlyKeeps ==
  ASSUME IInv, SlotsOK', now' \in Nat,
         UNCHANGED <<live, gateVars, sticky, flapVars, reqVars>>
  PROVE  IInv'
<1>1. TypeOK'
  BY DEF IInv, TypeOK, SlotsOK, SlotTypes, gateVars, flapVars, reqVars
<1>2. HoldsAccount' /\ LiveMatches'
  BY DEF IInv, HoldsAccount, LiveMatches, InFlight, reqVars
<1> QED
  BY <1>1, <1>2 DEF IInv, SlotsOK

LEMMA IInvStep == IInv /\ [Next]_vars => IInv'
<1> SUFFICES ASSUME IInv, [Next]_vars PROVE IInv'
  OBVIOUS
<1>1. CASE Tick
  <2>1. SlotsOK' /\ now' \in Nat
    BY <1>1, SlotsOKHere DEF Tick, SlotsOK, SlotTypes, SlotsAgree, slotVars, IInv, TypeOK
  <2> QED
    BY <1>1, <2>1, VerdictOnlyKeeps DEF Tick
<1>2. ASSUME NEW r \in Reqs, RequestStep(r) PROVE IInv'
  BY <1>2, NextPinnedKeeps, NextScanKeeps, NextRefusedKeeps, QuotaGateKeeps, DispatchKeeps,
     BeginKeeps, GiveUpKeeps, AnswerKeeps, EndKeeps, FailKeeps, RelayedKeeps, RelayBrokenKeeps
     DEF RequestStep
<1>3. ASSUME NEW a \in Accounts, Reset(a) PROVE IInv'
  <2>1. SlotsOK' /\ now' \in Nat
    BY <1>3, SlotsOKHere, RevalidateKeeps DEF Reset, IInv, TypeOK
  <2> QED
    BY <1>3, <2>1, VerdictOnlyKeeps DEF Reset
<1>4. ASSUME NEW a \in Accounts, Park(a) PROVE IInv'
  <2>1. SlotsOK' /\ now' \in Nat
    BY <1>4, SlotsOKHere, CoolKeeps, PoolAssumption DEF Park, IInv, TypeOK
  <2> QED
    BY <1>4, <2>1, VerdictOnlyKeeps DEF Park
<1>5. CASE UNCHANGED vars
  <2>1. SlotsOK' /\ now' \in Nat
    BY <1>5, SlotsOKHere DEF vars, SlotsOK, SlotTypes, SlotsAgree, slotVars, IInv, TypeOK
  <2> QED
    BY <1>5, <2>1, VerdictOnlyKeeps DEF vars
<1> QED
  BY <1>1, <1>2, <1>3, <1>4, <1>5 DEF Next

(* Types, for any pool.                                                    *)
THEOREM PoolTypes == Spec => []TypeOK
<1>1. IInv => TypeOK
  BY DEF IInv
<1> QED
  BY <1>1, InitIInv, IInvStep, PTL DEF Spec

(* A weighted account is parked, struck and revived as one, whatever       *)
(* answers arrive and in whatever order (rateLimited, cool, ok,            *)
(* invalidate, revalidate, quotaGate).                                     *)
THEOREM SlotsStayInStep == Spec => []SlotsAgree
<1>1. IInv => SlotsAgree
  BY DEF IInv
<1> QED
  BY <1>1, InitIInv, IInvStep, PTL DEF Spec

(* Occupancy never leaks: the busy mark of every account is the number of  *)
(* calls really in flight on it, on every path out of do().                *)
THEOREM OccupancyExact == Spec => []LiveMatches
<1>1. IInv => LiveMatches
  BY DEF IInv
<1> QED
  BY <1>1, InitIInv, IInvStep, PTL DEF Spec
-----------------------------------------------------------------------------
(* What a pick may do, for any pool.                                       *)

\* Both picks hand out the account of an open slot.
LEMMA PickIsOpen ==
  ASSUME IInv, [Next]_vars, NEW r \in Reqs, NEW a \in Accounts, Picks(r, a)
  PROVE  \E s \in OpenSlots :
           Owner[s] = a /\ (live[s] = 0 \/ s \in LeastBusy(OpenSlots))
<1> DEFINE Goal == \E s \in OpenSlots :
                     Owner[s] = a /\ (live[s] = 0 \/ s \in LeastBusy(OpenSlots))
<1>1. pc[r] = "idle" /\ pc'[r] = "picked" /\ acct'[r] = a
  BY DEF Picks
<1>2. ASSUME NEW q \in Reqs, NEW b \in Accounts, pc[q] = "idle", HandOut(q, b)
      PROVE  b = a
  BY <1>1, <1>2 DEF HandOut, IInv, TypeOK
<1>3. ASSUME NEW q \in Reqs, NextPinned(q) PROVE Goal
  <2> DEFINE i == Identity[q]
             b == PinnedTo(i)
  <2>1. i \in Ids /\ b \in Accounts
    BY <1>3, PoolAssumption DEF NextPinned, PinOpen, PinHolds, PinnedTo, IInv, TypeOK, Pin
  <2>2. Lead[b] \in Slots /\ Owner[Lead[b]] = b
    BY <2>1, PoolAssumption
  <2>3. Lead[b] \in OpenSlots /\ live[Lead[b]] = 0
    BY <1>3, <2>2 DEF NextPinned, PinOpen, OpenSlots
  <2>4. b = a
    BY <1>2, <1>3, <2>1 DEF NextPinned
  <2> QED
    BY <2>2, <2>3, <2>4
<1>4. ASSUME NEW q \in Reqs, NextScan(q) PROVE Goal
  <2>1. PICK s \in LeastBusy(OpenSlots) : pc[q] = "idle" /\ HandOut(q, Owner[s])
    BY <1>4 DEF NextScan
  <2>2. s \in OpenSlots /\ Owner[s] \in Accounts
    BY PoolAssumption DEF LeastBusy, OpenSlots
  <2> QED
    BY <1>2, <2>1, <2>2
<1>5. ASSUME NEW q \in Reqs, RequestStep(q), ~NextPinned(q), ~NextScan(q)
      PROVE  pc'[r] # "picked"
  <2>1. NextRefused(q) => pc' = pc
    BY DEF NextRefused, reqVars
  <2>2. ~NextRefused(q) => \E l \in Labels \ {"picked"} : pc' = [pc EXCEPT ![q] = l]
    BY <1>5 DEF RequestStep, QuotaGate, Dispatch, begin, GiveUp, Answer, end, Fail, Relayed,
                RelayBroken, Leave, Goto, Labels
  <2> QED
    BY <1>1, <2>1, <2>2 DEF IInv, TypeOK
<1>6. ASSUME Tick \/ (\E b \in Accounts : Reset(b) \/ Park(b)) \/ UNCHANGED vars
      PROVE  pc' = pc
  BY <1>6 DEF Tick, Reset, Park, vars, reqVars
<1> QED
  BY <1>1, <1>3, <1>4, <1>5, <1>6 DEF Next

\* A pool in which no account has a second slot.
OneSlotEach == \A s \in Slots : s = Lead[Owner[s]]

(* A request is never stacked on a busy account while an open one is idle. *)
(* It is proved for accounts of weight one: begin marks the first slot of  *)
(* an account, so that a second slot looks idle whatever is in flight.     *)
THEOREM NeverStacked == ASSUME OneSlotEach PROVE Spec => NoStacking
<1> DEFINE Stack == \A r \in Reqs, a \in Accounts :
                      Picks(r, a) /\ CallsOn(a) # {}
                        => \A b \in OpenAccounts : CallsOn(b) # {}
<1>1. IInv /\ [Next]_vars => Stack
  <2> SUFFICES ASSUME IInv, [Next]_vars, NEW r \in Reqs, NEW a \in Accounts, Picks(r, a),
                      CallsOn(a) # {}, NEW u \in OpenSlots
               PROVE  CallsOn(Owner[u]) # {}
    BY DEF OpenAccounts
  <2>1. PICK s \in OpenSlots : /\ Owner[s] = a
                               /\ live[s] = 0 \/ s \in LeastBusy(OpenSlots)
    BY PickIsOpen
  <2>2. s \in Slots /\ u \in Slots
    BY DEF OpenSlots
  <2>3. /\ live[s] = Cardinality(CallsOn(a)) /\ live[s] \in Nat
        /\ live[u] = Cardinality(CallsOn(Owner[u])) /\ live[u] \in Nat
    BY <2>1, <2>2, LiveShape, OneSlotEach DEF OneSlotEach
  <2>4. live[s] # 0
    BY <2>3, CallsFinite, FS_EmptySet
  <2>5. live[s] <= live[u]
    BY <2>1, <2>4 DEF LeastBusy
  <2>6. Cardinality(CallsOn(Owner[u])) # 0
    BY <2>3, <2>4, <2>5
  <2> QED
    BY <2>6, FS_EmptySet
<1> QED
  BY <1>1, InitIInv, IInvStep, PTL DEF Spec, NoStacking
-----------------------------------------------------------------------------
(* What next announces when it hands out nothing.                          *)

\* A set of instants that is not empty has a soonest one.
LEMMA SoonestLeast ==
  ASSUME NEW S, S \subseteq Nat, S # {}
  PROVE  Soonest(S) \in S /\ \A y \in S : Soonest(S) <= y
<1> DEFINE Before == OpToRel(<, Nat)
<1>1. IsWellFoundedOn(Before, Nat)
  BY NatLessThanWellFounded
<1>2. \A x, y \in Nat : y < x => <<y, x>> \in Before
  BY DEF OpToRel
<1> HIDE DEF Before
<1>3. PICK x \in S : \A y \in S : ~(<<y, x>> \in Before)
  BY <1>1, WFMin
<1>4. \A y \in S : x <= y
  <2> SUFFICES ASSUME NEW y \in S PROVE x <= y
    OBVIOUS
  <2>1. x \in Nat /\ y \in Nat
    OBVIOUS
  <2>2. ~(y < x)
    BY <1>2, <1>3, <2>1
  <2> QED
    BY <2>1, <2>2
<1> QED
  BY <1>4 DEF Soonest

\* A pool without RPM governors, the default.
Ungoverned == PoolRpm = 0 /\ \A a \in Accounts : Rpm[a] = 0

\* The gates of a slot stay shut until the instant it announces.
LEMMA ReadyAtHonest ==
  ASSUME Ungoverned, TypeOK, NEW s \in Slots, ~available(s, now),
         NEW t \in Nat, now <= t, t < ReadyAt(s, now)
  PROVE  ~available(s, t)
<1>1. \A x : BucketReady(Owner[s], x) = x
  BY PoolAssumption, Ungoverned DEF Ungoverned, BucketReady
<1>2. /\ now \in Nat /\ cooldown[s] \in Nat /\ invalidatedAt[s] + BillingParole \in Nat
  BY PoolAssumption DEF TypeOK
<1>3. CASE Paroled(s, now)
  BY <1>2, <1>3 DEF ReadyAt, Paroled, available
<1>4. CASE ~Paroled(s, now)
  <2>1. Cooling(s, now)
    BY <1>1, <1>2, <1>4 DEF available
  <2>2. t < Later(cooldown[s], now)
    BY <1>1, <1>4, <2>1 DEF ReadyAt
  <2>3. Cooling(s, t)
    BY <1>2, <2>1, <2>2 DEF Cooling, Later
  <2> QED
    BY <2>3 DEF available
<1> QED
  BY <1>3, <1>4

(* The announced wait is never longer than it must be: no slot passes its  *)
(* gates before the instant next announces, in a pool without governors    *)
(* (with one, refillAt divides the stored shortfall and may announce late).*)
THEOREM AnnouncedWaitNeeded == ASSUME Ungoverned PROVE Spec => []ReadyNotLate
<1>1. IInv => ReadyNotLate
  <2> SUFFICES ASSUME IInv, Refuses, NEW t \in now .. (PoolReady - 1), ~(t < flapOpenUntil),
                      NEW s \in Slots
               PROVE  ~available(s, t)
    BY DEF ReadyNotLate
  <2>1. now \in Nat /\ flapOpenUntil \in Nat
    BY DEF IInv, TypeOK
  <2> DEFINE R == {ReadyAt(u, now) : u \in Slots}
  <2>2. \A u \in Slots : ReadyAt(u, now) \in Nat
    BY <2>1, PoolAssumption, Ungoverned
       DEF IInv, TypeOK, ReadyAt, Ungoverned, BucketReady, Later
  <2>3. Soonest(R) <= ReadyAt(s, now) /\ Soonest(R) \in Nat
    BY <2>2, SoonestLeast
  <2>4. SharedOpen
    BY <2>1, Ungoverned DEF Ungoverned, SharedOpen, SharedReady
  <2>5. CASE BreakerOpen
    <3>1. PoolReady = flapOpenUntil
      BY <2>5 DEF PoolReady
    <3> QED
      BY <2>1, <3>1
  <2>6. CASE ~BreakerOpen
    <3>1. PoolReady = Soonest(R)
      BY <2>4, <2>6 DEF PoolReady
    <3>2. ~available(s, now)
      BY <2>4, <2>6 DEF Refuses, OpenSlots
    <3>3. t \in Nat /\ now <= t /\ t < ReadyAt(s, now)
      BY <2>1, <2>2, <2>3, <3>1
    <3> QED
      BY <3>2, <3>3, ReadyAtHonest, Ungoverned DEF IInv
  <2> QED
    BY <2>5, <2>6
<1> QED
  BY <1>1, InitIInv, IInvStep, PTL DEF Spec
-----------------------------------------------------------------------------
(* Pins: who may take one away.                                            *)

Pinned == {j \in Ids : sticky[j] # NoPin}

\* Only finitely many identities are ever pinned, whatever Ids is.
FinitelyPinned == IsFiniteSet(Pinned)

LEMMA StickyStep ==
  ASSUME IInv, [Next]_vars
  PROVE  \/ sticky' = sticky
         \/ \E r \in Reqs : \/ NextScan(r) \/ NextRefused(r)
                            \/ /\ pc[r] = "failed" /\ pc'[r] = "idle"
                               /\ sticky' = [sticky EXCEPT ![Identity[r]] = NoPin]
<1>1. ASSUME NEW r \in Reqs, RequestStep(r), ~NextScan(r), ~NextRefused(r)
      PROVE  \/ sticky' = sticky
             \/ /\ pc[r] = "failed" /\ pc'[r] = "idle"
                /\ sticky' = [sticky EXCEPT ![Identity[r]] = NoPin]
  <2>1. CASE Fail(r)
    BY <2>1 DEF Fail, Leave, Goto, IInv, TypeOK
  <2>2. CASE ~Fail(r)
    BY <1>1, <2>2 DEF RequestStep, NextPinned, QuotaGate, Dispatch, begin, GiveUp, Answer, end,
                      Relayed, RelayBroken
  <2> QED
    BY <2>1, <2>2
<1>2. ASSUME Tick \/ (\E b \in Accounts : Reset(b) \/ Park(b)) \/ UNCHANGED vars
      PROVE  sticky' = sticky
  BY <1>2 DEF Tick, Reset, Park, vars
<1> QED
  BY <1>1, <1>2 DEF Next

LEMMA ScanPins ==
  ASSUME IInv, NEW r \in Reqs, NextScan(r)
  PROVE  \/ sticky' = sticky
         \/ /\ ~PinOpen(Identity[r])
            /\ \E a \in Accounts : sticky' = pin(Identity[r], a)
<1>1. PICK s \in Slots : sticky' = IF PinOpen(Identity[r]) THEN sticky
                                   ELSE pin(Identity[r], Owner[s])
  BY DEF NextScan, LeastBusy, OpenSlots
<1>2. Owner[s] \in Accounts
  BY PoolAssumption
<1> QED
  BY <1>1, <1>2

LEMMA PinsStayFinite == IInv /\ FinitelyPinned /\ [Next]_vars => FinitelyPinned'
<1> SUFFICES ASSUME IInv, FinitelyPinned, [Next]_vars PROVE FinitelyPinned'
  OBVIOUS
<1>1. ASSUME NEW r \in Reqs, NEW a \in Accounts, sticky' = pin(Identity[r], a)
      PROVE  Pinned' \subseteq Pinned \cup {Identity[r]}
  BY <1>1 DEF pin, Pinned
<1>2. ASSUME NEW i, sticky' = [sticky EXCEPT ![i] = NoPin]
      PROVE  Pinned' \subseteq Pinned
  BY <1>2 DEF Pinned, IInv, TypeOK
<1>3. ASSUME NEW r \in Reqs, NextRefused(r) PROVE Pinned' \subseteq Pinned
  <2>1. CASE BreakerOpen
    BY <1>3, <2>1 DEF NextRefused, Pinned
  <2>2. CASE ~BreakerOpen
    BY <1>2, <1>3, <2>2 DEF NextRefused
  <2> QED
    BY <2>1, <2>2
<1>4. Pinned' \subseteq Pinned \/ \E i : Pinned' \subseteq Pinned \cup {i}
  <2>1. CASE sticky' = sticky
    BY <2>1 DEF Pinned
  <2>2. ASSUME NEW r \in Reqs, NextScan(r), sticky' # sticky
        PROVE  Pinned' \subseteq Pinned \cup {Identity[r]}
    BY <1>1, <2>2, ScanPins
  <2> QED
    BY <1>2, <1>3, <2>1, <2>2, StickyStep
<1> QED
  BY <1>4, FS_Subset, FS_AddElement DEF FinitelyPinned

(* A warm pin whose account is merely busy survives every request but a    *)
(* failed attempt of its own identity, unless the map of pins is full.     *)
THEOREM WarmPinsSurvive == Spec => WarmPinSurvives
<1> DEFINE Survive == \A i \in Ids :
              PinOpen(i) /\ sticky'[i] # sticky[i]
                 => i \in FailedIds \/ Cardinality({j \in Ids : sticky[j] # NoPin}) >= MaxPins
<1>1. IInv /\ FinitelyPinned /\ [Next]_vars => Survive
  <2> SUFFICES ASSUME IInv, FinitelyPinned, [Next]_vars, NEW i \in Ids, PinOpen(i),
                      sticky'[i] # sticky[i], i \notin FailedIds
               PROVE  Cardinality(Pinned) >= MaxPins
    BY DEF Pinned
  <2>1. ~(\E r \in Reqs : /\ pc[r] = "failed" /\ pc'[r] = "idle"
                          /\ sticky' = [sticky EXCEPT ![Identity[r]] = NoPin])
    BY DEF FailedIds, IInv, TypeOK
  <2>2. ASSUME NEW r \in Reqs, NextRefused(r) PROVE FALSE
    <3>1. ~BreakerOpen /\ sticky' = [sticky EXCEPT ![Identity[r]] = NoPin]
      BY <2>2 DEF NextRefused
    <3>2. i = Identity[r]
      BY <3>1 DEF IInv, TypeOK
    <3>3. sticky[i].acct \in Accounts
      BY DEF PinOpen, PinHolds, IInv, TypeOK, Pin
    <3>4. Lead[PinnedTo(i)] \in OpenSlots
      BY <3>3, PoolAssumption DEF PinOpen, OpenSlots, PinnedTo
    <3> QED
      BY <2>2, <3>1, <3>4 DEF NextRefused
  <2>3. PICK r \in Reqs : NextScan(r)
    BY <2>1, <2>2, StickyStep
  <2>4. PICK a \in Accounts : ~PinOpen(Identity[r]) /\ sticky' = pin(Identity[r], a)
    BY <2>3, ScanPins
  <2> DEFINE others == {j \in Ids \ {Identity[r]} : sticky[j] # NoPin}
  <2>5. i # Identity[r] /\ i \in others
    BY <2>4 DEF PinOpen, PinHolds
  <2>6. others \subseteq Pinned /\ IsFiniteSet(Pinned)
    BY DEF Pinned, FinitelyPinned
  <2>7. ~(Cardinality(others) < MaxPins)
    BY <2>4, <2>5 DEF pin, Kept
  <2>8. /\ Cardinality(others) \in Nat /\ Cardinality(Pinned) \in Nat
        /\ Cardinality(others) <= Cardinality(Pinned)
    BY <2>6, FS_Subset, FS_CardinalityType
  <2> HIDE DEF others
  <2> QED
    BY <2>7, <2>8, PoolAssumption
<1>2. Init => FinitelyPinned
  <2> SUFFICES ASSUME Init PROVE Pinned = {}
    BY FS_EmptySet DEF FinitelyPinned
  <2> QED
    BY DEF Init, Pinned
<1> QED
  BY <1>1, <1>2, InitIInv, IInvStep, PinsStayFinite, PTL DEF Spec, WarmPinSurvives
-----------------------------------------------------------------------------
(* Under the auditor: a credential refused for billing stays parked.       *)

\* The auditor only watches.
LEMMA AuditStep == [AuditNext]_<<vars, audit>> => [Next]_vars
  BY DEF AuditNext, Next, RequestStep, AuditFail, AuditQuotaGate, AuditRelayBroken, AuditAnswer,
         AuditReset, AuditPark, audit

\* No slot's stamp is older than the refusal it stands for.
Restamped ==
  /\ refused \in [Accounts -> Nat]
  /\ \A s \in Slots : refused[Owner[s]] <= invalidatedAt[s]

LEMMA RestampedKept == IInv /\ Restamped /\ [AuditNext]_<<vars, audit>> => Restamped'
<1> SUFFICES ASSUME IInv, Restamped, [AuditNext]_<<vars, audit>> PROVE Restamped'
  OBVIOUS
<1>0. /\ now \in Nat /\ invalidatedAt \in [Slots -> Nat]
      /\ \A s \in Slots : Owner[s] \in Accounts
  BY PoolAssumption DEF IInv, TypeOK
<1>1. ASSUME refused' = refused, invalidatedAt' = invalidatedAt PROVE Restamped'
  BY <1>1 DEF Restamped
<1>2. ASSUME NEW r \in Reqs, NEW kind \in Answers, AuditAnswer(r, kind) PROVE Restamped'
  <2> DEFINE a == acct[r]
  <2>1. a \in Accounts /\ since[r] \in Nat /\ refused[a] \in Nat
    BY <1>2 DEF AuditAnswer, Answer, IInv, TypeOK, HoldsAccount, Restamped
  <2>2. Verdict(r, kind)
    BY <1>2 DEF AuditAnswer, Answer
  <2>3. CASE kind = "ok"
    <3>1. invalidatedAt' = [s \in Slots |-> IF Owner[s] = a /\ invalidatedAt[s] < since[r] THEN 0
                                            ELSE invalidatedAt[s]]
      BY <2>2, <2>3 DEF Verdict, ok
    <3>2. refused' = IF refused[a] < since[r] THEN [refused EXCEPT ![a] = 0] ELSE refused
      BY <1>2, <2>3 DEF AuditAnswer
    <3>3. refused' \in [Accounts -> Nat]
      BY <2>1, <3>2 DEF Restamped
    <3>4. ASSUME NEW s \in Slots PROVE refused'[Owner[s]] <= invalidatedAt'[s]
      <4>1. refused[Owner[s]] <= invalidatedAt[s] /\ invalidatedAt[s] \in Nat
            /\ refused[Owner[s]] \in Nat
        BY <1>0 DEF Restamped
      <4>2. CASE Owner[s] = a
        <5>1. refused'[a] = IF refused[a] < since[r] THEN 0 ELSE refused[a]
          BY <2>1, <3>2 DEF Restamped
        <5>2. invalidatedAt'[s] = IF invalidatedAt[s] < since[r] THEN 0 ELSE invalidatedAt[s]
          BY <3>1, <4>2
        <5> QED
          BY <2>1, <4>1, <4>2, <5>1, <5>2
      <4>3. CASE Owner[s] # a
        <5>1. refused'[Owner[s]] = refused[Owner[s]] /\ invalidatedAt'[s] = invalidatedAt[s]
          BY <1>0, <3>1, <3>2, <4>3 DEF Restamped
        <5> QED
          BY <4>1, <5>1
      <4> QED
        BY <4>2, <4>3
    <3> QED
      BY <3>3, <3>4 DEF Restamped
  <2>4. CASE kind # "ok"
    <3>1. invalidatedAt' = invalidatedAt
      BY <2>2, <2>4 DEF Verdict, rateLimited, cool, slotVars
    <3>2. refused' = refused
      BY <1>2, <2>4 DEF AuditAnswer
    <3> QED
      BY <1>1, <3>1, <3>2
  <2> QED
    BY <2>3, <2>4
<1>3. ASSUME NEW r \in Reqs, AuditFail(r) PROVE Restamped'
  <2> DEFINE a == acct[r]
             billed == learned[r] \in {"payment", "quota_payment"}
  <2>1. a \in Accounts
    BY <1>3 DEF AuditFail, Fail, IInv, TypeOK, HoldsAccount
  <2>2. CASE billed
    <3>1. invalidate(a) /\ refused' = [refused EXCEPT ![a] = now]
      BY <1>3, <2>2 DEF AuditFail, Fail
    <3> QED
      BY <1>0, <2>1, <3>1 DEF invalidate, Restamped
  <2>3. CASE ~billed
    <3>1. (\E d \in Parks : cool(a, d)) \/ UNCHANGED slotVars
      BY <1>3, <2>3 DEF AuditFail, Fail
    <3>2. refused' = refused /\ invalidatedAt' = invalidatedAt
      BY <1>3, <2>3, <3>1 DEF AuditFail, cool, slotVars
    <3> QED
      BY <1>1, <3>2
  <2> QED
    BY <2>2, <2>3
<1>4. ASSUME NEW a \in Accounts, AuditReset(a) PROVE Restamped'
  BY <1>0, <1>4 DEF AuditReset, Reset, revalidate, Restamped
<1>5. ASSUME \/ Tick /\ Silent
             \/ UNCHANGED <<vars, audit>>
             \/ \E a \in Accounts : AuditPark(a)
             \/ \E r \in Reqs : \/ AuditQuotaGate(r) \/ AuditRelayBroken(r)
                                \/ Silent /\ (NextPinned(r) \/ NextScan(r) \/ NextRefused(r)
                                              \/ Dispatch(r) \/ begin(r) \/ GiveUp(r)
                                              \/ end(r) \/ Relayed(r))
      PROVE  Restamped'
  <2>1. refused' = refused
    BY <1>5 DEF Silent, audit, AuditPark, AuditQuotaGate, AuditRelayBroken
  <2>2. invalidatedAt' = invalidatedAt
    BY <1>5 DEF vars, slotVars, AuditPark, AuditQuotaGate, AuditRelayBroken, Tick, Park, QuotaGate,
       RelayBroken, cool, rateLimited, NextPinned, NextScan, HandOut, NextRefused, Dispatch, begin,
       GiveUp, end, Relayed
  <2> QED
    BY <1>1, <2>1, <2>2
<1> QED
  BY <1>2, <1>3, <1>4, <1>5 DEF AuditNext

(* Whatever answers overlap, and through whichever slot or pin, a refused  *)
(* credential is not handed out before its parole, unless a younger        *)
(* success or the operator overruled the refusal.                          *)
THEOREM RefusedStaysParked == AuditSpec => TerminalParked
<1> DEFINE Parked == \A r \in Reqs, a \in Accounts :
              Picks(r, a) /\ refused[a] # 0 => now >= refused[a] + BillingParole
<1>1. IInv /\ Restamped /\ [Next]_vars => Parked
  <2> SUFFICES ASSUME IInv, Restamped, [Next]_vars, NEW r \in Reqs, NEW a \in Accounts,
                      Picks(r, a), refused[a] # 0
               PROVE  now >= refused[a] + BillingParole
    OBVIOUS
  <2>1. PICK s \in OpenSlots : Owner[s] = a
    BY PickIsOpen
  <2>2. s \in Slots /\ ~Paroled(s, now)
    BY <2>1 DEF OpenSlots, available
  <2>3. /\ refused[a] <= invalidatedAt[s] /\ refused[a] \in Nat /\ invalidatedAt[s] \in Nat
        /\ now \in Nat /\ BillingParole \in Nat
    BY <2>1, <2>2, PoolAssumption DEF Restamped, IInv, TypeOK
  <2> QED
    BY <2>2, <2>3 DEF Paroled
<1>2. AuditInit => Init /\ Restamped
  BY PoolAssumption DEF AuditInit, Init, Restamped
<1> QED
  BY <1>1, <1>2, InitIInv, IInvStep, AuditStep, RestampedKept, PTL
     DEF AuditSpec, TerminalParked
=============================================================================
