---------------------------- MODULE Idempotency ----------------------------
(***************************************************************************)
(* Deduplication of retried requests: the bounded LRU cache of settled     *)
(* results (internal/idempotency) and the middleware that claims, waits,   *)
(* replays and settles (internal/server/idempotency.go).                   *)
(*                                                                         *)
(* Each cache operation runs under one mutex and is one action.  A key     *)
(* stands for a (scope, key, body hash); a handler's run is its start and  *)
(* its end.  Only non-stream requests with a key take part.                *)
(***************************************************************************)
EXTENDS Integers, FiniteSets, Sequences

CONSTANTS
  Callers, Keys,
  Cap,             \* entries the LRU may hold
  RecordSizes,     \* sizes of recordable bodies
  TotalBodyBudget,
  Ttl,
  MaxTime          \* bound of the model

ASSUME CacheAssumption ==
  /\ IsFiniteSet(Callers) /\ IsFiniteSet(Keys)
  /\ Cap \in Nat \ {0} /\ Ttl \in Nat \ {0} /\ MaxTime \in Nat \ {0}
  /\ TotalBodyBudget \in Nat /\ RecordSizes \subseteq 0 .. TotalBodyBudget

VARIABLES
  now,
  ll,       \* the LRU list: <<k, l>> when k is in front of l
  items,    \* key -> its entry
  bytes,    \* sum of the recorded bodies
  claim,    \* request -> where its middleware is
  key,      \* request -> the key it carries
  round,    \* request -> claims made so far
  ch,       \* waiter -> results sent into its channel
  answer,   \* request -> the result its client got
  began,    \* history: request -> when it claimed as origin
  intruded  \* history: an origin has settled the entry of another

cacheVars == <<now, ll, items, bytes, claim, key, round, ch, answer, began, intruded>>

Waiters == Callers \X (1 .. 2)

Gone      == [kind |-> "gone"]
Body(r, s) == [kind |-> "body", by |-> r, size |-> s]
Stream(r) == [kind |-> "stream", by |-> r]
None      == [kind |-> "none"]

Vacant == [st |-> "none", created |-> 0, origin |-> None, res |-> None, waiters |-> {}]

CacheInit ==
  /\ now = 1 /\ ll = {} /\ bytes = 0
  /\ items = [k \in Keys |-> Vacant]
  /\ claim = [r \in Callers |-> "new"]
  /\ key \in [Callers -> Keys]
  /\ round = [r \in Callers |-> 1]
  /\ ch = [w \in Waiters |-> <<>>]
  /\ answer = [r \in Callers |-> None]
  /\ began = [r \in Callers |-> 0]
  /\ intruded = FALSE

CacheTick ==
  /\ now < MaxTime /\ now' = now + 1
  /\ UNCHANGED <<ll, items, bytes, claim, key, round, ch, answer, began, intruded>>
-----------------------------------------------------------------------------
expired(e) == now - e.created > Ttl

Live(ents) == {k \in Keys : ents[k].st # "none"}

SizeOf(e) == IF e.st = "done" /\ e.res.kind = "body" THEN e.res.size ELSE 0

\* A plausible bug: an entry that goes wakes nobody.
Mut_Sent_NotGone(chans, ws, res) ==
  [w \in Waiters |-> IF w \in ws /\ res # Gone THEN Append(chans[w], res) ELSE chans[w]]

\* wake: one send per waiter of the entry.
Sent(chans, ws, res) == [w \in Waiters |-> IF w \in ws THEN Append(chans[w], res) ELSE chans[w]]

\* The entries that are left when those of ks are removed.
Without(ents, ks) == [k \in Keys |-> IF k \in ks THEN Vacant ELSE ents[k]]

\* A plausible bug: the waiters stay on the entry they were woken from.
Mut_Completed_KeepsWaiters(e, res) == [e EXCEPT !.st = "done", !.res = res]

Completed(e, res) == [e EXCEPT !.st = "done", !.res = res, !.waiters = {}]

\* A plausible bug: the bodies of removed entries stay charged.
Mut_Freed_Nothing(ents, ks) == 0

Freed(ents, ks) == Cardinality(UNION {{k} \X (1 .. SizeOf(ents[k])) : k \in ks})

\* A plausible bug: only the byte budget is enforced.
Mut_WithinCaps_Bytes(n, size) == size <= TotalBodyBudget

WithinCaps(n, size) == n <= Cap /\ size <= TotalBodyBudget

\* evictable: complete entries, and expired ones in flight.
Evictable(ents) == {k \in Live(ents) : ents[k].st = "done" \/ expired(ents[k])}

\* enforce: least recently used first, an entry goes while those that went
\* before it have not brought the cache within both caps.
Victims(ents, order, size) ==
  LET Before(k) == {l \in Evictable(ents) : <<k, l>> \in order}
  IN  {k \in Evictable(ents) :
         ~WithinCaps(Cardinality(Live(ents)) - Cardinality(Before(k)), size - Freed(ents, Before(k)))}

\* The list without the elements of ks, and with k in front of the others.
Dropped(order, ks) == {p \in order : p[1] \notin ks /\ p[2] \notin ks}
InFront(order, k, ks) == Dropped(order, {k}) \cup ({k} \X (ks \ {k}))
-----------------------------------------------------------------------------
\* Miss: the pair is new, or its entry outlived the TTL and is dropped first.
ClaimMiss(r) ==
  LET k == key[r]
      old == items[k]
  IN  /\ old.st = "none" \/ expired(old)
      /\ ch' = Sent(ch, old.waiters, Gone)
      /\ bytes' = bytes - SizeOf(old)
      /\ items' = [items EXCEPT ![k] =
                     [st |-> "flight", created |-> now, origin |-> r, res |-> None, waiters |-> {}]]
      /\ ll' = InFront(ll, k, Live(items))
      /\ claim' = [claim EXCEPT ![r] = "origin"]
      /\ began' = [began EXCEPT ![r] = now]
      /\ UNCHANGED answer

\* A plausible bug: a request in flight is not noticed.
Mut_ClaimWait_Runs(r) ==
  LET e == items[key[r]] IN
  /\ e.st = "flight" /\ ~expired(e)
  /\ claim' = [claim EXCEPT ![r] = "origin"]
  /\ began' = [began EXCEPT ![r] = now]
  /\ UNCHANGED <<items, ll, bytes, ch, answer>>

\* The origin is still in flight: coalesce.
ClaimWait(r) ==
  LET e == items[key[r]] IN
  /\ e.st = "flight" /\ ~expired(e)
  /\ items' = [items EXCEPT ![key[r]].waiters = @ \cup {<<r, round[r]>>}]
  /\ claim' = [claim EXCEPT ![r] = "wait"]
  /\ UNCHANGED <<ll, bytes, ch, answer, began>>

\* Replay, or Conflict when the recorded result was stream-shaped.
ClaimReplay(r) ==
  LET k == key[r] IN
  /\ items[k].st = "done" /\ ~expired(items[k])
  /\ ll' = InFront(ll, k, Live(items))
  /\ claim' = [claim EXCEPT ![r] = "done"]
  /\ answer' = [answer EXCEPT ![r] = items[k].res]
  /\ UNCHANGED <<items, bytes, ch, began>>

Claim(r) == /\ claim[r] = "new"
            /\ ClaimMiss(r) \/ ClaimWait(r) \/ ClaimReplay(r)
            /\ UNCHANGED <<now, key, round, intruded>>

\* The origin's handler returns and its deferred Finish settles the entry that
\* the key names then: Gone when nothing was written or its client hung up.
Finish(r, res) ==
  LET k == key[r]
      e == items[k]
      after == [items EXCEPT ![k] = Completed(e, res)]
      vs == Victims(after, ll, bytes + SizeOf(after[k]))
  IN  \/ /\ e.st # "flight"
         /\ UNCHANGED <<items, ll, bytes, ch>>
      \/ /\ e.st = "flight" /\ res = Gone
         /\ items' = Without(items, {k})
         /\ ll' = Dropped(ll, {k})
         /\ ch' = Sent(ch, e.waiters, Gone)
         /\ UNCHANGED bytes
      \/ /\ e.st = "flight" /\ res # Gone
         /\ items' = Without(after, vs)
         /\ ll' = Dropped(ll, vs)
         /\ bytes' = bytes + SizeOf(after[k]) - Freed(after, vs)
         /\ ch' = Sent(Sent(ch, e.waiters, res), UNION {after[v].waiters : v \in vs}, Gone)

Settle(r) == /\ claim[r] = "origin"
             /\ \E res \in {Gone, Stream(r)} \cup {Body(r, s) : s \in RecordSizes} : Finish(r, res)
             /\ claim' = [claim EXCEPT ![r] = "done"]
             /\ intruded' = (intruded \/ (items[key[r]].st = "flight" /\ items[key[r]].origin # r))
             /\ UNCHANGED <<now, key, round, answer, began>>

\* The waiter's channel has a result.
Woken(r) ==
  LET got == ch[<<r, round[r]>>] IN
  /\ claim[r] = "wait" /\ got # <<>>
  /\ \/ /\ Head(got) = Gone /\ round[r] = 1
        /\ claim' = [claim EXCEPT ![r] = "new"]
        /\ round' = [round EXCEPT ![r] = 2]
        /\ UNCHANGED answer
     \/ /\ Head(got) = Gone /\ round[r] = 2
        /\ claim' = [claim EXCEPT ![r] = "bare"]
        /\ UNCHANGED <<round, answer>>
     \/ /\ Head(got) # Gone
        /\ claim' = [claim EXCEPT ![r] = "done"]
        /\ answer' = [answer EXCEPT ![r] = Head(got)]
        /\ UNCHANGED round
  /\ UNCHANGED <<now, ll, items, bytes, key, ch, began, intruded>>

\* A plausible bug: the wait has no bound of its own.
Mut_WaitEnds_Never(r) == FALSE /\ UNCHANGED cacheVars

\* boundedWait or the client's context ends the wait: the handler runs
\* unrecorded.  The waiter stays on the entry.
WaitEnds(r) == /\ claim[r] = "wait"
               /\ claim' = [claim EXCEPT ![r] = "bare"]
               /\ UNCHANGED <<now, ll, items, bytes, key, round, ch, answer, began, intruded>>

BareReturns(r) == /\ claim[r] = "bare"
                  /\ claim' = [claim EXCEPT ![r] = "done"]
                  /\ UNCHANGED <<now, ll, items, bytes, key, round, ch, answer, began, intruded>>

CacheNext ==
  \/ CacheTick
  \/ \E r \in Callers : Claim(r) \/ Settle(r) \/ Woken(r) \/ WaitEnds(r) \/ BareReturns(r)

CacheSpec == CacheInit /\ [][CacheNext]_cacheVars

\* The waiter's select runs when its channel or its timer fires.  Nothing is
\* assumed of the handlers: an origin may hang.
CacheFairness == \A r \in Callers : WF_cacheVars(Woken(r)) /\ WF_cacheVars(WaitEnds(r))

FairCacheSpec == CacheSpec /\ CacheFairness
-----------------------------------------------------------------------------
CacheTypeOK ==
  /\ now \in 1 .. MaxTime /\ bytes \in Nat
  /\ \A k \in Keys : items[k].st \in {"none", "flight", "done"}
  /\ ll \subseteq Live(items) \X Live(items) /\ \A k \in Keys : <<k, k>> \notin ll
  /\ \A k, l \in Live(items) : k # l => <<k, l>> \in ll \/ <<l, k>> \in ll
  /\ \A k, l, m \in Keys : <<k, l>> \in ll /\ <<l, m>> \in ll => <<k, m>> \in ll
  /\ claim \in [Callers -> {"new", "origin", "wait", "bare", "done"}]
  /\ round \in [Callers -> 1 .. 2]

(* No waiter is lost: one that blocks is on an entry still in flight, or   *)
(* its result is in its channel, through expiry, eviction, abandonment and *)
(* the settlement of its entry by a stranger (remove and wake).            *)
NoStranded ==
  \A r \in Callers : claim[r] = "wait" =>
    \/ ch[<<r, round[r]>>] # <<>>
    \/ \E k \in Keys : items[k].st = "flight" /\ <<r, round[r]>> \in items[k].waiters

(* A waiter's channel holds one result: a second send would block for ever *)
(* with the cache's mutex held (the comment in wake: exactly one send).    *)
OneSend == \A w \in Waiters : Len(ch[w]) <= 1

(* The byte counter is the sum of the bodies on record, whatever way they  *)
(* leave (expiry, eviction, abandonment), and within TotalBodyBudget.      *)
BytesExact == bytes = Freed(items, Keys) /\ bytes <= TotalBodyBudget

(* The entry cap is exceeded by the requests in flight only, as the        *)
(* comment on evictable claims: "bounded by actual concurrency".           *)
EntriesBounded ==
  Cardinality(Live(items)) <= Cap + Cardinality({r \in Callers : claim[r] = "origin"})

(* What the package comment says: within the TTL an identical retry does   *)
(* not execute while the original is in flight; unless an expired origin   *)
(* has settled the entry of another (see OriginOwnsRecord).                *)
Coalesced ==
  \A r, s \in Callers :
    ~intruded /\ r # s /\ key[r] = key[s] /\ claim[r] = "origin" /\ claim[s] = "origin"
      => began[r] - began[s] > Ttl \/ began[s] - began[r] > Ttl

(* What the comment in Claim says: an expired origin loses its record, its *)
(* Finish does nothing; so what an entry replays is its own origin's.      *)
OriginOwnsRecord ==
  \A k \in Keys : items[k].st = "done" => items[k].res.by = items[k].origin

(* A wedged origin never holds a retry for ever (boundedWait).             *)
WaitIsBounded == \A r \in Callers : claim[r] = "wait" ~> claim[r] # "wait"

(* What the package promises a retry, as one: it is never lost, never      *)
(* blocks the cache, executes once within the TTL, and what is kept for it *)
(* stays within the caps.                                                  *)
SingleFlight == CacheTypeOK /\ NoStranded /\ OneSend /\ Coalesced /\ BytesExact /\ EntriesBounded
=============================================================================
