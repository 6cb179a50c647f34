----------------------------- MODULE RoundRobin -----------------------------
(***************************************************************************)
(* Sticky round-robin over a combo (internal/router/router.go):            *)
(* rotateRoundRobin picks the leader when a request starts and             *)
(* recordRRSuccess books the leg that served, each under rrMu; the         *)
(* requests of other clients run in between.  Task routing may have        *)
(* reordered a request's targets before they are rotated (Orders).  When   *)
(* every leg refuses the conversation as too long, the proxy prunes it and *)
(* calls Execute a second time on the same resolution (Replay).            *)
(***************************************************************************)
EXTENDS Integers, FiniteSets

CONSTANTS
  N,         \* targets of the combo, at least two
  Limit,     \* rrLimit()
  Orders,    \* permutations task routing may apply to a list of targets
  Failing,   \* targets that may fail
  Overflows, \* whether a conversation may outgrow every leg
  Workers    \* bound: requests in flight at once

Indices == 0 .. (N - 1)

\* What a configuration must satisfy.
ASSUME RoundRobinAssumption ==
  /\ N \in Nat \ {0, 1} /\ Limit \in Nat \ {0}
  /\ Orders \subseteq {f \in [Indices -> Indices] : \A i, j \in Indices : f[i] = f[j] => i = j}
  /\ Failing \subseteq Indices /\ Overflows \in BOOLEAN

VARIABLES
  counter, winner, run,   \* comboRR
  req,                    \* worker -> its request: targets before the rotation, lead
  served,                 \* history: the target that served last, mid-run
  streak                  \* history: the target that led and served lately, how often in a row

rr == <<counter, winner, run>>
rotaVars == <<rr, req, served, streak>>

Idle == [on |-> FALSE]
Nobody == -1
NoStreak == [of |-> Nobody, n |-> 0]

RotaInit ==
  /\ counter = 0 /\ winner = -1 /\ run = 0
  /\ req = [w \in Workers |-> Idle]
  /\ served = Nobody /\ streak = NoStreak

\* Where the next request starts in its order.
Lead == IF winner >= 0 /\ run < Limit /\ winner < N THEN winner ELSE counter % N

\* The target at index j after the rotation by lead.
At(order, lead, j) == order[(j + lead) % N]

\* The targets as the combo lists them.
Configured == [i \in Indices |-> i]

\* A request about to try list from lead on.  again: it is replayed;
\* alone: no other request has overlapped it.
Request(list, lead, again, alone) ==
  [on |-> TRUE, order |-> list, lead |-> lead, again |-> again, alone |-> alone]

\* The start of a request: the rotation.
rotateRoundRobin(w) ==
  /\ ~req[w].on
  /\ \E order \in Orders :
       req' = [v \in Workers |->
                 IF v = w THEN Request(order, Lead, FALSE, \A u \in Workers : ~req[u].on)
                 ELSE IF req[v].on THEN [req[v] EXCEPT !.alone = FALSE] ELSE Idle]
  /\ UNCHANGED <<rr, served, streak>>

\* A plausible bug (#82): the rotated index is recorded as if it were original.
Mut_Original_Untranslated(idx, lead) == idx

Original(idx, lead) == (idx + lead) % N

\* A plausible bug: a spent run keeps its place.
Mut_AfterRun_Stays(orig) == orig

\* Where the counter goes when the run of orig is used up.
AfterRun(orig) == orig + 1

RunLeft(n) == n < Limit

\* A call served at rotated index idx, the legs before it having failed.
recordRRSuccess(w, idx) ==
  LET q == req[w]
      orig == Original(idx, q.lead)
      n == IF idx = 0 /\ winner = orig THEN run + 1 ELSE 1
      target == At(q.order, q.lead, idx)
  IN  /\ q.on
      /\ \A j \in 0 .. (idx - 1) : At(q.order, q.lead, j) \in Failing
      /\ \/ /\ RunLeft(n)
            /\ winner' = orig /\ run' = n /\ UNCHANGED counter
            /\ served' = IF q.order = Configured THEN target ELSE Nobody
         \/ /\ ~RunLeft(n)
            /\ winner' = -1 /\ run' = 0 /\ counter' = AfterRun(orig)
            /\ served' = Nobody
      /\ req' = [req EXCEPT ![w] = Idle]
      /\ streak' = IF q.alone /\ q.order = Configured /\ idx = 0
                   THEN [of |-> target, n |-> IF streak.of = target THEN streak.n + 1 ELSE 1]
                   ELSE NoStreak

\* Every leg failed: nothing is recorded.
Exhausted(w) == /\ req[w].on /\ Failing = Indices
                /\ req' = [req EXCEPT ![w] = Idle]
                /\ UNCHANGED <<rr, served, streak>>

(* The conversation outgrew every leg: it is pruned, and Execute rotates   *)
(* the targets again, which the first rotation has already moved.          *)
Replay(w) ==
  LET moved == [j \in Indices |-> At(req[w].order, req[w].lead, j)]
  IN  /\ req[w].on /\ ~req[w].again /\ Overflows
      /\ \E order \in Orders :
           LET list == [j \in Indices |-> moved[order[j]]]
           IN  req' = [req EXCEPT ![w] = Request(list, Lead, TRUE, FALSE)]
      /\ UNCHANGED <<rr, served, streak>>

RotaNext ==
  \E w \in Workers : \/ rotateRoundRobin(w)
                    \/ \E idx \in Indices : recordRRSuccess(w, idx)
                    \/ Exhausted(w) \/ Replay(w)

RotaSpec == RotaInit /\ [][RotaNext]_rotaVars
-----------------------------------------------------------------------------
RotaTypeOK ==
  /\ counter \in 0 .. N /\ winner \in -1 .. (N - 1)
  /\ run \in 0 .. (Limit - 1) /\ (winner = -1 <=> run = 0)
  /\ served \in -1 .. (N - 1) /\ streak.of \in -1 .. (N - 1)

(* Mid-run the next request is led by the leg that served the last one,    *)
(* whatever leg led that one and however many requests overlap, so a       *)
(* leader that failed is not offered again (recordRRSuccess;               *)
(* round_robin_test.go's coordinate regression).  It is about requests     *)
(* that try the combo in its own order; see the README for the others.     *)
StickyServes == served # Nobody => Lead = served

(* No leg leads, and serves, more than Limit requests in a row, as long as *)
(* they come one after the other (recordRRSuccess: once the run completes  *)
(* the counter advances past it).  Overlapping requests may exceed it: one *)
(* that began before the end of a run starts another.                      *)
RunEnds == streak.n <= Limit

(* A run is served by one leg, and ends (rr_limit).                        *)
Rotates == RotaTypeOK /\ StickyServes /\ RunEnds
=============================================================================
