# onegw: a TLA+ verification project

onegw is one Go process between coding agents and many AI vendors. It accepts
OpenAI, Anthropic, Gemini and Responses requests, resolves a model name to a
chain of (provider, model) targets, picks one of a provider's credentials,
sends the request, translates the answer and books what was used. Its operator
edits the configuration from a dashboard while it runs, and it updates itself.
This directory holds TLA+ models of the parts whose correctness depends on
*when* things happen or on *what was left behind* by an earlier step, the TLC
runs that check them on small instances, and proofs, checked by TLAPS, of what
matters most for every instance. Go files are named without their directories
where the name is unique.

Contents: [1 Inventory](#1-inventory) · [2 Plan](#2-plan) ·
[3 Modules and code](#3-modules-and-code) · [4 Runs](#4-runs-and-bounds) ·
[5 Fairness](#5-fairness) · [6 Proofs](#6-proofs) ·
[7 Divergences](#7-where-code-and-text-disagree) ·
[8 Not modelled](#8-what-is-not-modelled)

## 1 Inventory

A request passes through the parts in this order:

    HTTP handler (server.go: proxy, attempt, relayResponse; stream_relay.go)
      -> idempotency middleware        may replay, wait, or claim
      -> key limits (policy.go)        rpm / tpm of the API key
      -> memory budget (sem.go)        bytes of the body, later of the reply
      -> Resolve (router.go)           model name -> targets
      -> Execute (router.go)           targets x attempts
           -> model benches            is this (provider, model) parked?
           -> account pool             which credential?  RPM buckets
           -> Def.do                   call place, upstream call, verdict
      -> relay                         inspect the head, stream or translate
      -> usage, quota, key limits      book what was used

Everything hangs off one `state` value behind an atomic pointer; a reload
(SIGHUP, an edit in the dashboard) builds a new one and swaps it while requests
keep the old. Beside the requests run the usage flush loops, the subscription
polls, the OAuth refresh loops, the dashboard's logins and the updater.

| Component | State it keeps | Operations | Interacts with | What is hard | What makes it correct |
|---|---|---|---|---|---|
| RPM governor (`tokenBucket`) | tokens, last use | take, refillAt | account pool | stale count, rounding | no interval sees more than burst + refill; the announced refill suffices |
| Account pool (`accountPool`) | cooldown, benchedAt, strikes, invalidatedAt, live per slot; buckets; pins; flap breaker | next, grant, pin, begin, end, ok, rateLimited, cool, invalidate, revalidate, flapStrike, flapHeal | router picks, `do` reports, parks, admin resets | verdicts arrive out of order; a weighted key is several slots | slots of a key agree; busy mark = calls in flight; no stacking; refused keys stay parked; honest ready instant; warm pins survive |
| Model benches | modelBench map (capped), timeout windows, wall sights | BenchModel, ModelBenched, noteHeaderTimeout, wallStrike | router, `do` | three mutexes, decide-then-act, eviction at the cap | evidence behind every bench; live benches are not deleted |
| Memory budget (`ByteBudget`) | held, exhausted | Acquire, Release, Saturated | proxy, relay, reload | clamp in / unclamped out; two reservations a request | counter = reserved memory; queues end |
| Idempotency cache | LRU list, entries, waiters, byte sum | Claim, Finish, wake, enforce, remove | middleware, bounded waits | expiry under a running origin; abandoned waiters | retries coalesce; no waiter stranded or sent to twice; caps |
| Router execution | locals of Execute | target loop, attempt loop, waits, breaks | pool, benches, `attempt` | five ways out of a leg, three counters in one condition | one answer, no silent switch, no downgrade, an end |
| Sticky round-robin | counter, winner, run | rotateRoundRobin, recordRRSuccess | Execute, task routing, replays | overlap of requests | the leg that served leads next; a run ends |
| Key limits | two rings of one-second buckets a key | AllowRPM, TPMBlocked, ObserveTPM | proxy, usage hook | clock read before the lock; ring reuse | windows hold; overshoot bounded; honest Retry-After |
| Stream relay | held head, idle timer, bytes sent | head inspection, hold windows, copy, break, aggregate | Execute (a written byte ends failover) | upstream dies, stalls or turns to junk at any byte | replaced only unseen; an honest end; reservations returned |
| Gateway (`proxy`, `proxyGemini`, `proxyStream`) | what is charged, reserved, written | the handlers' stages, overflow replay | all of the above | two paths, three writers of one response | one head; nothing replayed behind a byte; an end |
| Stream translation | decoder and encoder state | seven decoders, three encoders, the aggregator | relay | numbering and closing of blocks by what was seen | legal streams; nothing lost, doubled or reordered |
| Usage accounting | sharded counters, flush windows, push queue | Observe, flushOnce, Stop, FlushBuckets; Pusher | requests, store, reload | load and store-to-zero around concurrent adds | nothing recorded twice; no loss without a name |
| Provider quotas | windows per provider | Observe, seed, Inherit, flush | reload, store | three sources of one number | never an overcount; inherited and seeded use counts once |
| Subscription quotas | snapshots per account | poll, Inherit, park | pools, vendors | a probe's answer is older than the pool it parks | an account is parked only while its vendor says so |
| OAuth tokens | token file, memory, refreshes | sync, mergeNewer, persist, loops, RefreshNow | two processes on one file | rotating refresh tokens | a token is spent once; no rollback; due tokens are refreshed |
| OAuth logins | registry of logins, shared listener | start, callback, paste, poll, expire, sign-out | token store | an exchange in flight while something else happens | signed out stays signed out; the port is freed |
| State reload | the state pointer | apply: build, inherit, carry, store, stop | all of the above | what happens between copy and swap | terminal marks and counters survive |
| Configuration edits | onegw.toml, password mirror | some twenty edits, SIGHUP, hand edits | reload, file system | read-splice-write-reload under partial locks; crashes | acknowledged edits are in the file and in force |
| Configuration text | the lines of onegw.toml | splicers | Load, people with editors | line surgery on hand-written TOML | an edit means what it says, and no more |
| Admin sessions | session table, login guard | login, logout, password change, sweep | dashboard | check and count are apart; capped maps | guesses bounded; live sessions kept |
| Self-update | binary on disk, owner file, processes on the port | download, swap, spawn, prove, hand off, roll back | process start, command | crash or bad build at any step | the port is served; the disk holds a working binary; it ends |
| Route resolution | route, alias and combo tables, paused providers | Validate, SetModels, Resolve, KnownModel, toggle | Execute, metrics | an alias chain and a pause are edited while names are looked up | a name means what the configuration says; a pause moves only its own names |
| Combo ordering | moving averages per model in capped maps; the class of a conversation | recordSuccess, reorderBySpeed; Classify, reorderByTask | Execute, reload | averages without data, gone stale or past the cap | the chain stays whole; unmeasured legs do not overtake; the gates on declared limits win |
| Upstream executors, prompt savers, error classification, responses surface, passthrough, free catalogue, metrics, pages, tools | – | data transformations, vendor protocols, SQL, HTML | – | large input space, no shared state | – |

`PROJECT.json` lists every component with its files and status, and under
"hazards" the places where the code could go wrong in ways a test hardly
reaches, each with the properties that would notice.

## 2 Plan

Order: first what every request depends on, then what is booked, then what is
swapped under running requests, then what people do to a running gateway. All
of it is done:

1. `TokenBucketOps`, `TokenBucket`; `AccountPool` with `AccountPoolAudit`;
   `ModelBench`; `ByteBudget`; `Idempotency`; `RouterExecute`; `RoundRobin`;
   `RateLimiter`.
2. `StreamRelay`, composed by `Gateway` into whole requests; `WireStream`.
3. `Ledger`, the abstract specification that `UsagePipeline` implements;
   `UsagePush`; `StateReload`; `Subquota` with `SubquotaMeters`.
4. `TokenStore`, `OAuthLogin`, `AdminSessions`, `ConfigEdit`, `ConfigText`,
   `SelfUpdate`.
5. `Routes`, `Steering`, `TaskOrder`: how a name becomes an order of targets.
6. Proofs (section 6): `LimitProofs` (buckets, benches, key limits, meters),
   `AccountPoolProofs`,
   `RequestProofs` (memory budget, idempotency, rotation), `RouteProofs`, `GatewayProofs`,
   `UsageProofs` (the pipeline with the refinement of `Ledger`, the pushes),
   `LifecycleProofs` (tokens, sign-ins, self-update), `ControlProofs` (edits,
   reloads, subscription polls, sessions).

Next, in this order:

- Models: model discovery (`admin_models.go`) with its back-off; whole-reply
  translation.

Modules are written to be proved about as well as checked: parameters are
CONSTANTS with named assumptions, one action per critical section, invariants
in named parts, no RECURSIVE operator.

## 3 Modules and code

Every module names its source files in its header, and `PROJECT.json` "map"
gives the lines of every definition that stands for code. Conventions: one
action is one critical section (whatever the code does between taking and
releasing a mutex, or one goroutine's step with no shared state in between);
time is a counter, 0 is Go's zero `time.Time`; operators called `Mut_...` are
plausible bugs of the definition that follows them, kept so that it can be
shown that each property notices one; history variables are marked where they
are declared, and no action reads them to decide.

### What says no to a request

**TokenBucketOps, TokenBucket** – `tokenBucket` in provider.go. The code keeps
a `float64` count; the model counts units, `TokenUnit` of them to a token, and
a bucket of rate r gains r units a tick, so nothing is rounded.

**AccountPool** – `accountPool` with the life of a request in it.

| Code | Model |
|---|---|
| `next(id)`: breaker, pin, scan, refusal | `NextPinned`, `NextScan`, `NextRefused` |
| gates `paroleOpen`, `available`, `sharedReady` and the instant announced | `Paroled`, `Cooling`, `BucketReady`, `SharedReady`, `available`, `ReadyAt`, `PoolReady` |
| `pickSlot`: least busy first, then a strategy | `LeastBusy`; the strategy is a free choice among those |
| `grant`, `pin` (cap, sweep), `unpin` | `grant`, `pin`, part of `NextRefused` and `Fail` |
| `do`: stamp, wait for a place, begin, send, verdict, deferred end | `Dispatch`, `begin`, `GiveUp`, `Answer` (with `Verdict`), `end` |
| `ok`, `rateLimited`, `cool`, `invalidate`, `revalidate`, `flapStrike`, `flapHeal` | operators of the same names |
| `quotaGate`, `noteAttemptErr`, verdicts inside a stream | `QuotaGate`, `Fail`, `RelayBroken`, `Relayed` |
| admin reset; subscription and OAuth parks | `Reset`, `Park` |

A weighted account owns several slots (`Slots`, `Owner`, `Lead`); verdicts go
through all of them, occupancy is marked on the first, as in the code. The
answers of an upstream are ten classes (`AnswerKinds`). `AccountPoolAudit` adds
history variables that record what upstream and operator *said*, so that
promises about verdicts are not stated against the pool's own stamps.

**Routes** – the tables a name is looked up in: `Validate`'s rules for aliases,
`Resolve` (combo, alias chain, explicit route, bare name: claim, advertiser,
pass-through) and `KnownModel`, while the operator edits aliases (`SetAliases`,
refused as a whole if invalid) and pauses providers (`Toggle`); some may be off
already in the configuration that is read first. A name is the sequence of its
segments. The walk along aliases is a recursive function over the hops (`Hops`).

**Steering** – the two clocks of a leg (`observe`: noise gate, reset of a stale
average, weight of a quarter; capped maps) and `reorderBySpeed` for the three
strategies, `PredictSeconds` compared as fractions.

**TaskOrder** – a conversation that grows turn by turn: `CollectText` and the
signals, `Classify`, `scoreTarget` and the stable sort of `reorderByTask`. A text
is its length and the keywords it holds.

**ModelBench** – `BenchModel` (sweep, eviction, extension), `ModelBenched` in
two halves because it drops the read lock before it takes the write lock,
`noteHeaderTimeout` and `wallStrike` each in two steps because they bench after
releasing their own mutex.

**RateLimiter** – the two rings of one key. A check is three steps: ask, read
the clock, take the lock and decide, so that a check may work with a second
that others have passed; `Order` is `enforceRateLimits`' order of the checks.

**Subquota, SubquotaMeters** – the tracker that polls vendors for what is left
of a subscription and parks accounts: a probe is sent, answered by the vendor,
stored as a snapshot, and its verdict goes to whatever pool is live by then; a key may be rotated, the vendor may
reset early, a reload starts a second tracker that inherits. The ticker of a tracker is
made when its first poll has ended for every account (`NewTicker`), so the second
poll comes a cycle after that end. `SubquotaMeters`
reads the answers of eight vendors (`Answers`: optional fields are sequences
of length 0 or 1, numbers are any integers, in tenths) down to the percentage
that decides. The meters it is held against are the vendor's own arithmetic; the
one exception is a grok on-demand cap below one unit, which the code takes for
no cap.

### One request

**RouterExecute** – one call of `Router.Execute`: `StartTarget` is the head of
the target loop, `PickAccount` the condition of the attempt loop and
`NextAccount`, `CallUpstream` the upstream call with everything Execute does with its answer, `Wait`
the back-off, `EndLeg` the check after the loop. Pools, upstream and client are
the environment.

**StreamRelay** – one relay of a 200 to the client: the readers stacked on the
body (idle breaker, `CorruptGuard`, `JunkGuard`, `LoopBreaker`) with their
holds, the paths of `relayResponse` (piped, translated, aggregated, buffered),
and what is written, booked and reported at each of its exits. Upstream picks
the next chunk when a reader asks; it may stop, break or stall at any point,
and the client may leave.

**Gateway** – EXTENDS StreamRelay with the handler around it: `proxy`,
`proxyGemini` and the fast path `proxyStream` with its fallback to `proxy`;
admission, limits, reservations, Execute reduced to its loop over accounts and
legs, the overflow replay with a pruned body, the error writer. Every relay of
every attempt runs through StreamRelay's actions.

**WireStream** – `TranslateStream` and `AggregateStream`: each decoder turns a
chunk into unified events, each encoder keeps which block is open and at which
index, `termCheck` decides how the stream ended. A chunk carries one token,
named by the chunk's position, so "nothing lost, doubled or reordered" compares
what the client can put together with what was said.

**ByteBudget**, **Idempotency**, **RoundRobin** – as their headers say: the
budget with its two reservations per request and the reload that replaces it;
the LRU under its mutex with the middleware's claim, waits and replay; the
rotation with overlapping requests, task routing and replays.

### Beside the requests

**Ledger, UsagePipeline, UsagePush** – `Ledger` is what usage accounting
promises: an observation is recorded at most once. `UsagePipeline` has the code:
`Observe` adds without the shard's lock, `flushOnce` loads a counter and stores
zero later, `FlushBuckets` commits, a reload swaps trackers and stops the old
one, the process may crash. It implements `Ledger` under
`seen <- booked, owed <- Owed, recorded <- db` (`Records`): what is still owed
is what sits in counters and in flush windows not yet committed. What the
code loses maps to `Ledger`'s `Lose`. `UsagePush` delivers windows to an
aggregator, two attempts a batch, with answers lost on the way back.

**StateReload** – `apply` step by step (build and seed, Inherit,
CarryInvalidated, store, stop) with two reloads overlapping, requests that hold
an old state, flushes, the turn of a quota window, crashes and restarts. The store
keeps use by the hour and for all nodes: what a seed may sum (`Rollups`) is the use of
this window as far as it is flushed, and `beside` it that of other nodes and of the
old window in the hour in which it turned.

**TokenStore** – one account's token in the gateway's memory, in the
`onegw-oauth` command's memory, in the file and at the vendor. Sync, merge,
persist, the exchange and the loops are steps of jobs; faults are a failed
write or a lost answer.

**OAuthLogin** – the login registry and the listener browser logins share;
callbacks, pasted codes, device polls, expiry and sign-out. The other writers of
the token store (refresh loops, another process's merge) read tokens and put them
back later (`ReadTokens`, `PutTokens`); a device login that a callback with a stale
state settled closes `done` twice, which ends the process (`ClosedTwice`).

**SelfUpdate** – processes on one port (`SO_REUSEPORT`), the binary and its
backup on disk, the owner file; a run downloads, swaps, spawns, waits for
proof, hands off or rolls back; the service's loop, the dashboard and the
command start one; the new build is good, dies, or is deaf; a kill may come at
any step.

### The operator

**ConfigEdit** – concurrency: each edit is snapshot, lock, read, write, load,
reload, mirror, answer, with the lock where the code takes it; SIGHUP, hand
edits and crashes in between. The file is one provider's url and key,
everything else, and the password.

**ConfigText** – content: the file as lines, and every edit of the dashboard as
the function on lines the code implements (`scanBlocks`, `findSection`,
`upsertScalar`, `editProviderBlock`, `spliceOAuthAccounts`, ...). What lines
*mean* is read by `Toml`, which follows TOML and not the splicers, and `Loads`
is what `config.Load` accepts; `Meant` says on that meaning what each edit
asks for.

**AdminSessions** – `issue`, `valid`, `drop`, `sweep`, `blocked`, `fail`, `pass`
under the handlers of login, logout and password change, which check, read the
body, compare and count in separate steps.

### How they fit

`AccountPool` uses `TokenBucketOps`; `Gateway` EXTENDS `StreamRelay` and has
Execute's loop in the small; `RouterExecute` sees of the pool which accounts
would be handed out, the abstraction of `AccountPool.next` under an arbitrary
environment; `Routes` hands it a chain, `TaskOrder`, `Steering` and `RoundRobin`
permute that chain (in the code in this order, so that the speed sort may undo
what the task order gated). `UsagePipeline` INSTANCEs `Ledger`. `ByteBudget` has the reload
of `StateReload` for its own part.

Components that share no state are put into one TLC instance by *focus*: the MC
module EXTENDS or INSTANCEs each (renaming variables that clash; what proofs are
about it EXTENDS, so that run and theorem speak of one definition), a variable `focus` is
chosen in Init, and the part in focus runs while the others rest in an initial
state. The reachable states are the disjoint union of the parts'; an invariant
holds of the instance iff it holds of each part, and a fair action of a part at
rest is never enabled (or is guarded by the focus, in `MCLifecycles`).

## 4 Runs and bounds

Run one with `tlc -config <run>.cfg <module>`. Deadlock checking is off: every
instance stops at a bound of time or of events. States are distinct states.

| Run | Module | States | What it shows |
|---|---|---|---|
| `pool_weighted` | MCAccountPool | 248 k | slots of a weighted key agree; busy marks are exactly the calls in flight |
| `pool_verdicts` | MCAccountPool | 400 k | no stacking, warm pins survive, refused keys stay parked, ready instant never late |
| `limits` | MCLimits | 247 k | what a name resolves to, RPM bucket, key windows, model benches, the meters of subscriptions |
| `gateway` | MCGateway | 1.1 M | one request from handler to last byte on both paths; Execute's loops |
| `requests` | MCRequests | 377 k | memory budget, idempotency, rotation, ordering by speed and task, stream translation |
| `lifecycles` | MCLifecycles | 370 k | usage and its refinement of the ledger, pushes, tokens, logins, self-update |
| `control` | MCControl | 1.4 M | configuration text, overlapping edits, reloads, subscription polls, sessions |
| `pool_fresh` | MCAccountPool | violation | section 7, 1 |
| `idem_expiry` | Idempotency | violation | section 7, 2 |
| `route_panic` | MCRouterExecute | violation | section 7, 3 |
| `section_race` | ConfigEdit | violation | section 7, 4 |
| `alias_hops` | MCLimits | violation | section 7, 5 |

Several properties are conjunctions named for the promise; their parts have
comments of their own in the modules:

| Property | Says |
|---|---|
| `SlotsAgree`, `LiveMatches` | no order of verdicts makes the slots of one key differ; no exit of `do` leaks a busy mark |
| `TerminalParked`, `NoStacking`, `WarmPinSurvives`, `ReadyNotLate` | the promises of `next`, the first against what the vendor said. `NoStacking` is for plain accounts, `ReadyNotLate` one-sided and for pools without RPM buckets |
| `RateHeld`, `RefillSuffices` | the rate promise over a whole run; an announced refill is less than a tick early, and late by no more than the bucket's idle time |
| `LimitHeld` | the ring is the sliding window in spite of late checks; the token overshoot is what was in flight; Retry-After suffices |
| `BenchSound`, `LiveBenchKept` | every bench rests on evidence of its own, in a bounded map; a running bench goes only to make room in a full map of running ones, soonest first, and never to a reader's cleanup |
| `PollHonest` | an account is parked only while its vendor says drained, or said so within a cycle and a probe's timeout; one snapshot an account, but for a cycle and two timeouts after a reload |
| `ReadRight` | for every answer of eight vendors a park exactly when a meter ran out; no verdict without evidence |
| `UnseenReplaced`, `EndIsHonest` | what the router may replace the client has not seen, and a corrupt head is never shown; success means the whole body, a break is told once where the client's format can say so |
| `CleanReturn`, `NoReplayBehindBytes`, `Served` | a handler that returned wrote one head at most and holds no reservation; no attempt behind a written byte; the request ends unless its client holds it |
| `Accounted` | the budget's counter is the memory reserved |
| `SingleFlight` | a retry is coalesced, never stranded, never sent to twice, within the caps |
| `WaitsEnd` | a queued request leaves the queue; a retry does not wait for ever |
| `Rotates` | the leg that served leads next, a run ends |
| `NamesHold` | an alias serves as the end of its chain, a pause moves only the names its provider served, and what is served is known to the metrics |
| `Steers` | ordering loses no leg; no data is no advantage; faster in every sample is first; small requests keep their order; a hard conversation stays hard; declared gates win |
| `Translated` | a translated stream is legal in the client's format and tells what upstream told |
| `Routed`, `Terminates` | one answer, of the model the client may get; an end |
| `Records`, `Kept` | usage implements the ledger; every observation is stored, owed, or in a loss with a name |
| `PushAccounted` | every window is delivered, under way or given up; only a batch whose answer was lost counts twice |
| `OneUse`, `NoRollback` | a refresh token is spent once by the gateway and its successor kept; memory never goes back |
| `LoggedOut` | who signed out stays signed out |
| `Seamless` | the port is served throughout an update, by one gateway afterwards, and a restart finds a binary that works |
| `Ends` | a tracker's Stop, a push, a due token, a sign-out, the hold on a vendor's port and an update all come to an end |
| `StateCarried` | a reload or a restart counts no more than was used in the hours of its window, loses no counter and no terminal mark, but for the windows its comments name |
| `EditsHold` | acknowledged edits are in the file, in force, and survive a restart |
| `EditsMean`, `NotesKept` | an edit does to the configuration what was asked and nothing else; a comment on a line of its own goes only with a table that the edit drops |
| `GuardHolds` | wrong guesses are bounded by the limit plus the requests already past the check; live sessions are kept |

Bounds, and why they are enough:

- `pool_weighted`: one account of two slots and one plain, one call place so
  that requests queue and give up, one pin so that the map sweeps, RPM buckets
  on account and provider. Two requests are enough for any two verdicts about
  one account to cross. `pool_verdicts`: three ticks let a billing parole of
  two begin, elapse and restart; two pinned identities; symmetric accounts and
  requests (the policy treats them alike). `pool_fresh` needs a third tick of
  bench and no pins.
- `limits`: 14 ticks of a bucket that needs 1.5 ticks a token; a limiter
  window of 3 s with 2 requests and 3 tokens over 6 s, so that the ring wraps
  twice and a late check (`MaxLag = 1`) meets a reused bucket; three models on a map
  of two entries with one full storm (3 timeouts). The meters are a
  function: every answer over values around the rounding edges (99.4, 99.5,
  100 %) is an initial state. Names: three providers, a combo and three
  aliases with a hop cap of 2, so that a chain can be one name too long.
- `gateway`: three chunks, hold windows and runs of two, two accounts, two
  attempts, seven kinds of request (surface, size, direct or combo, relay mode).
  A break fits before, inside and after every hold. Execute: four shapes of
  route, two accounts, two attempts, four calls, one recovery.
- `requests`: capacity 4 against bodies of 0, 2 and 6 (undeclared, half, more
  than everything), one reload, two replies a request; three callers on two
  keys with a cap of one entry and two bytes and a TTL below the time bound;
  four legs with runs of three; every pair of formats with two tool calls in
  five chunks, which is enough for calls to interleave and to be cut; two legs and a third
  model on maps of two entries, three samples of rates 1 to 3 and ages past the
  limit; two tiered combos of four legs, five kinds of client, texts around the
  thresholds of `Classify` and conversations of up to six messages.
- `lifecycles`: two observers, one swap, one crash; windows of 0–2 requests,
  four of them; two loops, one command and one other writer on tokens of two
  rotations with one fault; two login attempts on two accounts beside one writer; three
  processes, one request in flight, one kill. Each party appears at least
  twice where two of a kind can meet.
- `control`: two edits in a row of three files (accounts in tables, a legacy
  provider with keys in one line, one with parked accounts) out of 24 requests,
  with comments in and behind a login and the client-key tables;
  two editors, one SIGHUP, one hand edit, one crash; two reloads and three
  generations, with counters and terminal marks in focuses of their own and one use
  by another node; two polled accounts over six instants with a cycle of two and a
  timeout of one, one of which is drained or changes its key; two addresses and two
  requests with three failures allowed. Reloads and editors are symmetric.

## 5 Fairness

Only what the Go scheduler and its timers give is assumed, and no upstream,
vendor or client is assumed to behave:

- `ByteBudget`: the poll ticker and the wait limit of a queued `Acquire`.
- `Idempotency`: the waiter's `select` on its channel and its timer. Handlers may
  hang.
- `RouterExecute`: `Execute` as a whole: upstream calls return (each has a
  timeout), back-off timers fire. `Terminates` excludes retry_forever routes and
  requests that met a gated account (section 7).
- `Gateway`: the handler's goroutine as long as it waits neither for a byte of
  the upstream's nor for its client (`WaitsForClient`), and an armed idle timer.
  Nothing makes upstream send or end, or the client send, read or leave:
  main.go:215 sets no ReadTimeout or WriteTimeout, so `Served` says that a
  request ends or stays for good where only its client can move it. It excludes
  the one body that is inspected before the timer is armed.
- `UsagePipeline`: the flush loop of a tracker; strong fairness of its last flush,
  because a Go `select` with two ready cases picks at random.
- `UsagePush`: the delivering goroutine's request ends, either way.
- `TokenStore`: ticks of the refresh loops; a job that began goes on (HTTP
  clients have timeouts, the mutex covers file operations only).
- `OAuthLogin`: expiry timers, the end of an exchange, a sign-out's wait.
- `SelfUpdate`: a run takes its steps (downloads and probes have timeouts); a
  process that was told to go goes.

The other modules state safety only and assume no fairness.

## 6 Proofs

Eight modules hold proofs; each EXTENDS its components and TLAPS. They hold for
all values of the constants that satisfy the named assumption of the component.
Components that a run instantiates directly have it as an ASSUME; the others
define it (`RouterAssumption`, `StoreAssumption`), the theorem assumes it and the
MC module ASSUMEs it of its instance, so TLC evaluates every one of them. They
say that sets are finite where they are counted, durations are natural numbers,
policy values that the code floors are positive, every slot has an owner, and
no more. Each inductive invariant was first checked by TLC as an invariant.

**LimitProofs.** For the buckets, `BucketInv == TypeOK /\ Conserved`.
Conservation ties the grants to the units in the bucket and the time of its last
use (`BucketConserved`); the rate promise (`RateNeverExceeded`) is not
inductive, it follows from conservation because a bucket never holds a negative
number of units. The code truncates a wait to whole nanoseconds, the model to
whole ticks, so a gate may open with less than a tick's refill missing:
`GateWithoutToken` shows that this happens only in the very tick of the last
use, and `RefillOnTime` that an announced instant is less than a tick early and
late by no more than the time since the last use (`TicksForFloors`).

For the benches of models, `BenchesAreSound` and `RunningBenchesKept`, for any
models, accounts, workers, cap and windows. That a trip has its evidence in one
window needs `InOneWindow`: what is counted against a model is a suffix of its
timeouts, none of them before the start of the window. That the map stays
within its cap is a count of finite sets (`RoomMade`: however room is made, what
is left is fewer than the cap). A running bench can only be lost to an eviction,
and then nothing had expired, so the one that ends soonest is the soonest of the
whole map (`SoonestGoes`).

For the limits of a key, `LimitsHold`: `LimitHeld` for any requests, window,
limits, answer size and wait for the lock below a window. The rings alone do not
say what they promise: a late check stamps its slot with a second that others
have passed. So the invariant compares every stretch up to now with the ring
(`Behind`: what was let in since a recent second is in the ring, under a stamp
at most `MaxLag` older), and the ring never holds more than `Rpm`; that a reused
bucket held nothing that still counts is arithmetic on the index (`OtherBucket`).
The overshoot needs the requests that can still report (`Overshoot`: what was used
and what they may yet use). Sums are cardinalities of cells, so that what an
added unit does to a sum is a fact about finite sets (`VolumeGain`), not an
induction; and the wait of a refusal is enough because the set of contributing
seconds has a least one (`LeastSecond`).

For the meters of subscriptions, `MetersReadRight`: `ReadRight` for any answers,
with any numbers in them and any number of windows. A number that is floored
reads 100 exactly from the end on, one that is rounded from 99.5 % on
(`FlooredEnds`, `RoundedEnds`); a ratio of amounts is floored, so that reading
100 is the comparison of use and cap (`Quotient`, `RatioEnds`), and a pool with
anything left never reads 100 (`PoolSpendable`). Each dialect then has a lemma
that matches its readings with the vendor's meters, window by window
(`ZaiRight`, `GrokRight`, `CodexRight`, ...); `ProbeRight` puts them together.
For grok's amounts only one direction is stated, because the other is false
(section 7, `SpendablePoolServes`).

**AccountPoolProofs.** `IInv == TypeOK /\ HoldsAccount /\ SlotsAgree /\ LiveMatches`.
`HoldsAccount` (a request holds an account exactly while it is not idle) is the
strengthening: without it `begin` and `end` could mark the slot of no account.
The verdicts touch only slot fields, a request's progress only occupancy, so
lemmas about the verdicts (`BenchKeeps`, `RateLimitedKeeps`, `OkKeeps`, ...) and
lemmas about cardinalities of calls in flight (`CallsFinite`, `SameCalls`,
`OutsideCalls`) are proved apart and combined with one lemma per action.
Results: `PoolTypes`, `SlotsStayInStep`, `OccupancyExact`.

The action properties of the pool follow from the same invariant, each with the
case the code makes it hold in as a hypothesis:
`NeverStacked` (`OneSlotEach`: no account has two slots; for a weighted one it is
false, section 7), `AnnouncedWaitNeeded` (`Ungoverned`: no RPM buckets, whose
refill the announced instant rounds up), `WarmPinsSurvive` and
`RefusedStaysParked`, which rest on none. `RefusedStaysParked` goes over
`AccountPoolAudit`: the invalidation the vendor last asked for is still stamped
on every slot of the account, because only a success that began later, a parole
or the operator clears it.

**RequestProofs.** The memory reserved in a budget is the cardinality of a set
of cells, one per unit of each reservation. An acquisition adds a slab of
`Clamp(n)` cells disjoint from the rest, a release removes one, and the floor in
`Release` is shown never to bite wrongly: `IInv == TypeOK /\ Accounted`. Results:
`BudgetTypes`, `BudgetAccounted`, and `UndeclaredNeverQueues` (a reservation of
nothing always fits), which no run checks.

For the rotation, `RunsRotate`. A request that nobody overlapped is the only one
and leads with the leg that would lead now (`Alone`); the leg that led and served
lately is no further in its run than the state says, or has just completed it
and the counter has moved on (`InRun`).

For retries, `RetriesRunOnce`: `SingleFlight` for any callers, keys, caps and TTL. A
waiter stands on one entry in flight and was sent nothing, or left it with one
result in its channel (`Mail`), and whatever removes an entry wakes exactly its
waiters (`Woke`). The LRU list is an order of the live entries (`Lined`), so what
an eviction takes is everything evictable behind some entry, and it ends within
both caps or with nothing left that may go (`Enforced`, which needs that a set of
numbers has a least one, `LeastOf`); the body counter is the cardinality of the
cells the entries store. An entry in flight is that of an origin that runs
(`Runs`), which bounds the entries above the cap by the origins (`EntriesCounted`)
and keeps a second origin of a key a TTL away from the first.

**ControlProofs.** `AcknowledgedEditsHold`: `EditsHold` for any number of
editors, signals, hand edits and crashes. A request that works with the lock
has it (`Excluded`); what a request read is still the newest value of every
field that nobody changed without the lock since (`FreshRead`), so its write
takes nothing back; and of the reloads that do not overlap one at a time carries
what the file says to the requests (`InStep`). `InStep` is claimed only while no
two reloads crossed, as `EditsHold` is.

`ReloadsCarryState`: `StateCarried` for any generations and overlapping reloads.
It cannot be said of the serving state alone: no tracker, and nothing the store
keeps, counts more than was observed in the window and lies beside it in its
hours (`NoneOver`); the serving state and every
one that has inherited from it misses no more than what strayed (`NoneLost`); a
state not stored yet is nobody else's (`Apart`); and a mark the serving state
had before the carry is in the state about to be stored (`Marked`).

`GuardIsKept`: the check and the count of a wrong password are two critical
sections, so the inductive form (`Guesses`) counts the requests of an address
that are past the check together with what is counted already; the cap of the
table is a count of finite sets (`RoomKept`), and that the soonest session goes
first needs that a set of numbers has a least one (`Least`, proved by a minimal
counterexample).

`PollsAreHonest`: `PollHonest` for any accounts, cycle and timeout. How long the
vendor has been spendable again and what is left of a park are bounded together
(`ParksEnd`), because a verdict is no older than its probe (`Recent`) and a new
park no longer than a cycle. A tracker that still waits for its first poll sent it
before it inherited (`FirstPoll`). A snapshot that stands beside another one has a
probe under way that was sent, or the next poll due, within a cycle and a timeout of
the moment the tracker inherited (`Replacing`), and the probe ends it.

**UsageProofs.** `ObservationsKept`: what was observed is stored, owed, or
lost for a named cause. The strengthening is `Windows`: a window never holds more
than the counter it was read from, and a last window leaves nothing behind it
but what came after the stop. `ImplementsLedger` is the refinement,
`Spec => Records`: the initial state is an initial state of `Ledger`, and every
step of the pipeline a step of `Ledger` or one that leaves its variables alone,
with one lemma an action (an observation is `Ledger`'s own, a commit moves from
owed to recorded, a store of zero behind a concurrent add and a crash are its
losses, the rest stutters).

`PushesAddUp`: the sums of what is delivered, waiting, being sent and given up are
carried through every batch as one equation; a pusher without a goroutine has
nothing left to deliver, so the window that starts one overwrites nothing.

**LifecycleProofs.** `RefreshSpendsOnce` and `NeverRolledBack`. `Custody` says
where the rotating credential is as long as nothing excuses its loss (a failed
write or lost answer, two processes on the file at once, a deleted account): in
the hand of one carrier, who alone knows it (`Carried`), or in the file
(`Filed`); and a process that believes itself in step with the file has exactly
the file's copy (`InStep`), so no write puts an older one back.

`LogoutsHold`: `LoggedOut` for any accounts, attempts and callers. A sign-out
waits for the login it cancelled (`Waits`: a cancelled login that is still pending
has its sign-out waiting). As long as nobody finished a login of the account by
a pasted code, the pending login is the one in the registry, only a pending
one has its state registered, and a callback settles the login its code was
issued to (`Orderly`); so once the token is deleted with nothing pending or
crossing, there is nothing left that could store another (`Quit`), and no
writer has read the old one (`Unheld`). What it does not promise is said in it: a
sign-out that crosses a refresh, an exchange or a new login may be undone.

`UpdatesAreSeamless`: `Seamless` for any processes, kills and new builds. As long
as no update was torn between its renames, a run belongs to a serving process
of the old build and knows the state of its child (`Runs`), and two processes are
on the port only while one hands it to the other (`Handover`), so there is one
run at a time (`OneRun`). With that, a step of a run is the only one that touches
the disk: either the binary or its backup failed no handoff (`OnDisk`). That
somebody serves throughout needs no kill to have happened, that one serves
afterwards and that a restart finds a binary do not.

**GatewayProofs.** Over whole requests on both paths, with any accounts, chunks
and bounds. `RelayInv` follows one relay through its places: up to the head
nothing is on the wire (`Unsent`), from the head on exactly the head is (`Sent`),
and what was returned tells the router which of the two it is (`Outcome`); a
reply is reserved only while it is gathered (`ReplyHeld`); a head that a sibling
could replace is looked through before it is shown (`Vetted`). `Stages` adds the
handler: a new attempt starts only behind an outcome that left nothing on the
wire. Results: `ReplacedUnseen`, `EndsAreHonest`, `ReturnsClean`, and the action
property `NothingReplayedBehindBytes`.

**RouteProofs.** `RoutesHold`: `Routed` for chains of any length, pools of any
size and any number of attempts. The history keeps the last two calls
(`History`), so the invariant says at each place of the loop what the last call
allows: an answer ends the request (`Answers`), a combo without fallback has no
live target behind it (`FirstLive`), a retry_forever target was left on its
refusal (`LeftForRefusal`). That a gate's 403 never surfaces is a count
(`GateCount`): a gated account leaves the pool, so rotations and what is left of
the pool never exceed it.

`NamesMean`: `NamesHold` for any tables, alias chains and hop cap, after any edits
and pauses. The aliases that are loaded satisfy `Validate` (`NamesInv`): that is
all the tables ever promise. `Resolve` walks from the alias and `Validate` from
the name behind it, so the one is a hop behind the other (`HopsBehind`); within
the cap both have come to the end, where no further hop moves them (`HopsStay`).
That the walk exists and that the one is behind the other at every hop is shown
by a least hop at which it fails (`WalkExists`, `HopsAt`). A pause takes places
out of the group that serves a bare name; while the first of the group is left
it is the first of what is left (`LeastLeft`, `GroupLeft`). The theorem keeps the
condition on the cap that finding 5 shows to be needed.

`OrderSteers`: `Steers` for any legs, rates, caps, tiers and conversations. The
part about measurements is also stated alone, `MeasuresSteer`. A sort is
modelled by the place it gives each element; that the places are a permutation
and order as the comparison does needs only that the comparison is a weak order
(`SortPlaces`, by counting what is before each element, where an injection of a
finite set into itself is onto). That predicted times are a weak order is
arithmetic of fractions with positive denominators (`TimesLess`,
`FractionsOrdered`, `BetterRanks`). The invariant behind the averages is
`SpeedInv`: a clock lies between the slowest and the fastest sample since its
last silence (`Observed`), and the maps are within their caps; so of two legs
whose samples do not overlap the averages rank as the samples do
(`FasterFirst`). For the conversation `TaskInv` says what the turn before has to
do with this one. A class falls only from standard to light (`ClassGrows`). Of two
legs, the one that is off less for a heavier class but not for a lighter one is
the stronger (`OffCrosses`), so the leader grows with the class. And what a leg
can lose by its power is bounded by less than any gate that `GatesHold` speaks of
costs (`OffBounds`, `GateScores`). The bound found the
exact reach of one of them: at the critical class an overflowed leg of power
120 and a fitting one of power 20 or less have the same score, or the overflowed
one leads; hence the condition on power in `GatesHold`.

Only model-checked: liveness (`Served`, `Terminates`, `WaitsEnd`, `Ends`), which
under fairness and ENABLED is out of the prover's reach; and what a fold computes for
every input, which needs induction over data (`Translated` over streams,
`EditsMean` and `NotesKept` over the lines of a file).

## 7 Where code and text disagree

Shown by runs (the trace is the shortest that TLC finds):

1. `pool_fresh`: a 429 inside a longer bench leaves `benchedAt` old, so a success
   that began between the two 429s clears the bench; provider.go:1807 says a
   cooldown stamped during the flight survives.
2. `idem_expiry`: `Finish` finds an entry by key only, so an expired origin
   settles the entry of the request that replaced it; idempotency.go:190 says its
   Finish no-ops.
3. `route_panic`: a retry_forever leg whose accounts all answer a gated 403
   leaves its loop with `refusal` false and panics; router.go:771 lists the only
   allowed reasons.
4. `section_race`: a section edit takes no `cfgMu` (admin_sections.go:132), so it
   and another edit take each other's work back; server.go:118 says the mutex
   serializes config mutations.

5. `alias_hops`: `Resolve` (router.go:332) takes a chain of exactly `MaxAliasHops`
   aliases for exhausted and looks up the alias's own name, `Validate` accepts the
   chain; router.go:94 says it enforces the same cap.

Met while modelling. The models behave as the code does, the properties above
are worded so as not to claim the opposite, and where a formula is named it
stands in the module, is no part of a run, and TLC finds it violated under the
module's own specification:

- RPM governor: an idle bucket is never clamped to its capacity of two
  (provider.go:1339 says two); `refillAt` announces a later instant than the
  first one with a token (1369), and its truncation (1378) one that may be less
  than a nanosecond early.
- Account pool: after a parole or a flap window every queued request passes, not
  one probe (1318, 1205); for a paroled slot the announced instant ignores
  cooldown and bucket (1762); `pickSlot` sees the second slot of a weighted key as
  idle while its key is serving, because `begin` marks only the first, so calls
  stack on it (3145 says none can; `NoStacking` is violated under
  `pool_weighted.cfg`'s constants).
- Model benches: at the cap, the entry evicted may be that of the model being
  benched, whose bench is then shortened (770); a full map of live benches
  evicts rather than refuses (733); timeouts straddling a restart of the window
  are not seen as a storm (830).
- Memory budget: a request holds its body reservation while it queues for the
  reply, so requests can wait for each other until the wait limit (sem.go:15); a
  reload lets the sum of reservations exceed the capacity; a refused reservation
  is counted twice in the statistics.
- Idempotency: a retry whose second wait ends Gone runs unrecorded beside an
  origin that claimed meanwhile (idempotency.go:3).
- Router: after one gated answer the loop condition ignores the attempt budget
  (router.go:90). Round-robin: a request that began before a run ended starts
  another of the same leg (1074); task routing and overflow replays make
  recorded positions refer to another order of the targets (1104), so
  `StickyServes` is about requests that try the combo in its own order.
- Routes: `KnownIfServed`: a bare name that only a retry_forever claim serves is
  unknown to the metrics (router.go:215).
- Ordering: `EnoughSamples`: one leg with enough samples lets another with fewer
  be reordered (prefill.go:219). `FreshSteers`: a stale average orders until its
  next sample (speed.go:9). The speed sort runs after the task order and does not
  know its gates.
- Gateway: `ServedAlways`: a CommandCode head is inspected before the idle
  breaker is armed (server.go:1232). A client that stops sending or reading
  holds its handler, reservations included, for ever (main.go:215 sets only
  header and idle timeouts). A stream that breaks on the Gemini surface ends in
  an empty line (stream_break.go:110). `ChargedOnce`: a fast path that falls back
  charges the rate limits twice (stream_relay.go:125). `Answered`: a request may
  end without a head although its client is there.
- Stream translation: `CallsReachGemini`: the Gemini encoder flushes a call only
  on its stop event, so upstreams that send none lose it. `ErrorsSurface`: an
  error event reads as a clean end (wire_stream.go:575). `NothingInvented`: the
  OpenAI encoder begins a call for a text block (525). The stop reason of Gemini
  and Responses streams with calls stays end_turn; the aggregator merges
  interleaved calls.
- Usage: an add between the flush's load and its store of zero is wiped
  (`Ledger`'s `Lose`).
- Subscription meters: `SpendablePoolServes`: grok amounts are clamped to 100
  before they are divided. "Floor, never round" is said of a percentage that is
  rounded; inherited snapshots can overwrite a fresher answer. The loop waits for the
  first poll before it makes its ticker (subquota.go:323), so the second poll comes up
  to a probe's timeout later than a cycle after the first.
- Reload: overlapping reloads can store the older state last and orphan a
  tracker; an observation stamped before the window turned rolls it back. A seed
  from rollups counts the whole hour in which the window turned (quota.go:363 says
  so) and the rows of every node (store.go:193), so a restart can count more than
  this window's use.
- Tokens: `CannotClobber`: two processes write the file without a lock
  (store.go:31, 122). A sign-out or a login during a refresh is overwritten by
  it; `RefreshNow` does not look at the single-flight mark; a reload cancels an
  exchange in flight, which may have spent the token.
- Logins: `PendingReachable`: the listener closes with the last *settled* login's
  timer while another waits (admin_oauth_browser.go:12). A login finished by a
  pasted code leaves its state registered; one whose start fails never closes
  `done`; a sign-out during an exchange or a refresh is undone by it
  (manager.go:337). A callback with the stale state and `?error=` settles the
  account's next device login, whose goroutine then closes `done` again
  (admin_oauth.go:354) and takes the process down.
- Edits: `PasswordSurvives`: with an explicit key in a read-only file the mirror
  is not what a restart reads. `KeyEditKeepsRow`: a key edit re-renders the row
  from the live configuration, not from the file (admin_config.go:221). SIGHUP
  does not take `cfgMu`.
- Configuration text: `EnableEnables`: re-enabling panics on stale line numbers
  when a parked account was removed above (splice_provider_comment.go:112).
  `AliasStays`: `findSection` runs to the next *plain* header, so an alias may be
  set inside a provider block (admin_config.go:769); the same reach makes
  clearing the pool delete provider blocks after `[proxy]` and puts `keys` of
  `[auth]` into one. Re-enabling uncomments every commented combo and drops
  the first parked account of *every* provider; an array over several lines is
  replaced by its first line only; new OAuth entries may land at the top. Dropping
  a login or a client-key table deletes the comments in it and those written above the
  next header, a switched-off provider standing there included
  (admin_config_edit.go:1057, admin_config.go:667); a comment behind a value goes with
  the line that is replaced (admin_config_edit.go:719). An edit of a key's row drops a
  login whose account has no row (admin_keys.go:241), which no file of the run has.
- Self-update: `Drained`: an old process is ended by its deadline with requests
  in flight (main.go:231); a rollback kills a child that has taken connections
  and leaves its pid in owner.json.
- Model discovery, not modelled: `probeProvider` returns on failure before it
  stores the result, so the back-off of `autoDiscoverModels` never applies
  (admin_models.go:317).

## 8 What is not modelled

- What `pickSlot`'s strategies *choose*: measured data; only the set they choose
  from is modelled. The evaluation swap of `[eval]`, which moves one leg to the
  front. Account runs (`AccountRunMin`, `AccountRunMax`): no configuration sets them.
- Error classification, prompt savers, pruning of turns:
  functions on data without shared state. The models take their results as
  classes.
- Vendor executors, Cursor's frames, request and whole-reply translation: wire
  formats. Streams are modelled because their state crosses chunks.
- The aggregator's size cap; multi-line values, quoting and escapes in the
  configuration text, comments behind a value; alias chains inside `Loads`. Rolling
  quota windows without an anchor, whose start moves with the clock.
- Overlapping forced updates; release selection, signatures; the Docker path.
- The responses surface, passthrough surfaces, free catalogue, presets and
  transfers: one SQL statement or one pointer swap each.
- HTML, metrics, command lines: I/O that nothing reads back to decide.
- Integer widths: every counter is far from its bound in the code's use; the
  conversions that divide are modelled exactly in units or tenths.
