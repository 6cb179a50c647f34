----------------------------- MODULE ModelBench -----------------------------
(***************************************************************************)
(* The benches of (provider, model) pairs in one provider                  *)
(* (internal/provider/provider.go): Def.BenchModel and Def.ModelBenched    *)
(* over the bounded map modelBench, and the two detectors that bench a     *)
(* model on repeated evidence, noteHeaderTimeout (htStrikes) and           *)
(* accountPool.wallStrike (walls).                                         *)
(*                                                                         *)
(* Each detector decides under its own mutex and benches after releasing   *)
(* it, and a reader promotes its read lock, so those are separate steps of *)
(* a worker.  Time 0 means "no entry".                                     *)
(***************************************************************************)
EXTENDS Integers, FiniteSets, Sequences

CONSTANTS
  Models, Accounts, Workers,
  MaxBenches,      \* maxModelBenches
  Ttls,            \* ttl a refusal asks for (0: the provider's default)
  BenchTTL,        \* benchTTL()
  StormStrikes, StormWindow, StormBench,   \* headerTimeoutStrikes, ...
  WallWindow, WallPark,                    \* wallWindow, wallParkTTL
  MaxBenchTime, MaxEvents                  \* bounds of the model

\* What a configuration must satisfy.
ASSUME BenchAssumption ==
  /\ MaxBenches \in Nat \ {0} /\ Ttls \subseteq Nat /\ BenchTTL \in Nat \ {0}
  /\ StormStrikes \in Nat \ {0} /\ StormWindow \in Nat /\ StormBench \in Nat \ {0}
  /\ WallWindow \in Nat /\ WallPark \in Nat \ {0}
  /\ MaxBenchTime \in Nat /\ MaxEvents \in Nat

VARIABLES
  benchNow,     \* the time
  modelBench,   \* model -> until when it is benched (0: no entry)
  htStrikes,    \* model -> [count, since] of the header timeouts
  walls,        \* model -> the last unexplained 429, [acct, at] (at 0: none)
  stage,        \* worker -> what it is about to do, with the model
  events,       \* bound: timeouts and 429s so far
  timeouts,     \* history: model -> instants of its timeouts since the last trip
  struck,       \* history: model -> wall strikes recorded
  proofs        \* history: model -> walls proven by them

history == <<events, timeouts, struck, proofs>>
benchVars == <<benchNow, modelBench, htStrikes, walls, stage, history>>

Idle      == [do |-> "idle"]
NoStorm   == [count |-> 0, since |-> 0]
NoAccount == ""
NoSight   == [acct |-> NoAccount, at |-> 0]

BenchInit ==
  /\ benchNow = 1
  /\ modelBench = [m \in Models |-> 0]
  /\ htStrikes = [m \in Models |-> NoStorm]
  /\ walls = [m \in Models |-> NoSight]
  /\ stage = [w \in Workers |-> Idle]
  /\ events = 0
  /\ timeouts = [m \in Models |-> <<>>]
  /\ struck = [m \in Models |-> 0]
  /\ proofs = [m \in Models |-> 0]

BenchTick ==
  /\ benchNow < MaxBenchTime /\ benchNow' = benchNow + 1
  /\ UNCHANGED <<modelBench, htStrikes, walls, stage, history>>
-----------------------------------------------------------------------------
Entries(b) == {m \in Models : b[m] # 0}

\* A plausible bug: a full map of live benches grows.
Mut_MadeRoom_SweepOnly ==
  {IF Cardinality(Entries(modelBench)) < MaxBenches THEN modelBench
   ELSE [m \in Models |-> IF modelBench[m] <= benchNow THEN 0 ELSE modelBench[m]]}

\* At the cap expired entries go; if none had expired, one that ends soonest.
MadeRoom ==
  LET swept == [m \in Models |-> IF modelBench[m] <= benchNow THEN 0 ELSE modelBench[m]]
      soonest == {m \in Entries(swept) : \A n \in Entries(swept) : swept[m] <= swept[n]}
  IN  IF Cardinality(Entries(modelBench)) < MaxBenches THEN {modelBench}
      ELSE IF Cardinality(Entries(swept)) < MaxBenches THEN {swept}
      ELSE {[swept EXCEPT ![m] = 0] : m \in soonest}

BenchModel(m, ttl) ==
  LET until == benchNow + (IF ttl = 0 THEN BenchTTL ELSE ttl)
  IN  \E b \in MadeRoom : modelBench' = [b EXCEPT ![m] = IF until > @ THEN until ELSE @]

\* An upstream refusal names the model: do() and noteAttemptErr bench it.
Refuse(m) == /\ \E ttl \in Ttls : BenchModel(m, ttl)
             /\ UNCHANGED <<benchNow, htStrikes, walls, stage, history>>

\* ModelBenched, first half: an expired entry is to be removed.
LookUp(w, m) ==
  /\ stage[w] = Idle
  /\ modelBench[m] # 0 /\ modelBench[m] <= benchNow
  /\ stage' = [stage EXCEPT ![w] = [do |-> "promote", model |-> m]]
  /\ UNCHANGED <<benchNow, modelBench, htStrikes, walls, history>>

\* A plausible bug: the entry is removed without looking again.
Mut_Promote_Blind(w) ==
  /\ stage[w].do = "promote"
  /\ modelBench' = [modelBench EXCEPT ![stage[w].model] = 0]
  /\ stage' = [stage EXCEPT ![w] = Idle]
  /\ UNCHANGED <<benchNow, htStrikes, walls, history>>

\* ModelBenched, second half, under the write lock.
Promote(w) ==
  /\ stage[w].do = "promote"
  /\ modelBench' = [modelBench EXCEPT ![stage[w].model] = IF @ <= benchNow THEN 0 ELSE @]
  /\ stage' = [stage EXCEPT ![w] = Idle]
  /\ UNCHANGED <<benchNow, htStrikes, walls, history>>
-----------------------------------------------------------------------------
(* Header-timeout storms.                                                  *)

\* A plausible bug: the window is never restarted.
Mut_Strike_NoWindow(m) == [htStrikes[m] EXCEPT !.count = @ + 1]

\* The strike window of m with one more timeout in it.
Strike(m) ==
  LET w == htStrikes[m]
  IN  IF w.count = 0 \/ benchNow - w.since > StormWindow
      THEN [count |-> 1, since |-> benchNow] ELSE [w EXCEPT !.count = @ + 1]

noteHeaderTimeout(w, m) ==
  LET s == Strike(m)
      trip == s.count >= StormStrikes
      seen == Append(timeouts[m], benchNow)
  IN  /\ stage[w] = Idle
      /\ events < MaxEvents /\ events' = events + 1
      /\ htStrikes' = [htStrikes EXCEPT ![m] = IF trip THEN NoStorm ELSE s]
      /\ stage' = [stage EXCEPT ![w] = IF trip THEN [do |-> "storm", model |-> m, seen |-> seen] ELSE Idle]
      /\ timeouts' = [timeouts EXCEPT ![m] = IF trip THEN <<>> ELSE seen]
      /\ UNCHANGED <<benchNow, modelBench, walls, struck, proofs>>

StormBenches(w) ==
  /\ stage[w].do = "storm"
  /\ BenchModel(stage[w].model, StormBench)
  /\ stage' = [stage EXCEPT ![w] = Idle]
  /\ UNCHANGED <<benchNow, htStrikes, walls, history>>
-----------------------------------------------------------------------------
(* Shared walls.  text: the wording of the 429 itself names a shared limit. *)

\* A plausible bug: the sight survives the proof.
Mut_NextSight_Kept(m, a, proven) == [acct |-> a, at |-> benchNow]

\* What stays on record after a strike.
NextSight(m, a, proven) == IF proven THEN NoSight ELSE [acct |-> a, at |-> benchNow]

wallStrike(w, m, a, text) ==
  LET prev == walls[m]
      proven == prev.at # 0 /\ benchNow - prev.at <= WallWindow /\ (text \/ prev.acct # a)
  IN  /\ stage[w] = Idle
      /\ events < MaxEvents /\ events' = events + 1
      /\ walls' = [walls EXCEPT ![m] = NextSight(m, a, proven)]
      /\ struck' = [struck EXCEPT ![m] = @ + 1]
      /\ proofs' = [proofs EXCEPT ![m] = IF proven THEN @ + 1 ELSE @]
      /\ stage' = [stage EXCEPT ![w] = IF proven THEN [do |-> "wall", model |-> m] ELSE Idle]
      /\ UNCHANGED <<benchNow, modelBench, htStrikes, timeouts>>

WallBenches(w) ==
  /\ stage[w].do = "wall"
  /\ BenchModel(stage[w].model, WallPark)
  /\ stage' = [stage EXCEPT ![w] = Idle]
  /\ UNCHANGED <<benchNow, htStrikes, walls, history>>

BenchNext ==
  \/ BenchTick
  \/ \E m \in Models : Refuse(m)
  \/ \E w \in Workers :
       \/ Promote(w) \/ StormBenches(w) \/ WallBenches(w)
       \/ \E m \in Models :
            \/ LookUp(w, m) \/ noteHeaderTimeout(w, m)
            \/ \E a \in Accounts, text \in BOOLEAN : wallStrike(w, m, a, text)

BenchSpec == BenchInit /\ [][BenchNext]_benchVars
-----------------------------------------------------------------------------
BenchTypeOK ==
  /\ benchNow \in Nat
  /\ modelBench \in [Models -> Nat]
  /\ \A m \in Models : htStrikes[m].count \in 0 .. (StormStrikes - 1)
                       /\ htStrikes[m].since <= benchNow
  /\ \A m \in Models : walls[m].at <= benchNow

(* The map never outgrows its cap, whatever arrives at once (BenchModel's  *)
(* sweep and eviction).                                                    *)
MapBounded == Cardinality(Entries(modelBench)) <= MaxBenches

\* A reader's cleanup of an expired entry ends in this step.
CleanedUp == \E w \in Workers : stage[w].do = "promote" /\ stage'[w] = Idle

(* A bench that is still running goes, or is cut short, only to make room  *)
(* in a map full of running ones, and then one that ends soonest: no       *)
(* reader cleaning up an expired entry takes a fresh one with it           *)
(* (ModelBenched's second look under the write lock, BenchModel's sweep).  *)
LiveBenchKept ==
  [][\A m \in Models :
        modelBench[m] > benchNow /\ modelBench'[m] < modelBench[m]
           => /\ Cardinality(Entries(modelBench)) = MaxBenches /\ ~CleanedUp
              /\ \A k \in Entries(modelBench) :
                   modelBench[k] > benchNow /\ modelBench[m] <= modelBench[k]]_benchVars

(* A model is benched for a storm only on evidence of one: its last        *)
(* StormStrikes timeouts fell inside one window (noteHeaderTimeout).       *)
StormIsReal ==
  \A w \in Workers :
     stage[w].do = "storm" =>
        LET t == stage[w].seen IN t[Len(t)] - t[Len(t) - StormStrikes + 1] <= StormWindow

(* Every proof of a wall uses up two strikes of its own: a continuing wall *)
(* has to be proven anew for every park (wallStrike resets the sight).     *)
WallReproven ==
  \A m \in Models :
     2 * proofs[m] + (IF walls[m].at # 0 THEN 1 ELSE 0) <= struck[m]

(* A model is benched on evidence of its own only, and the benches stay    *)
(* within their map.                                                       *)
BenchSound == BenchTypeOK /\ StormIsReal /\ WallReproven /\ MapBounded
=============================================================================
