------------------------------ MODULE Steering ------------------------------
(***************************************************************************)
(* Ordering a combo by what was measured (internal/provider/speed.go and   *)
(* prefill.go, router/task.go reorderBySpeed): the moving averages of each *)
(* leg's decode rate and of its prefill rate for large inputs, and the     *)
(* order in which a request tries the legs.                                *)
(*                                                                         *)
(* The legs are models of one provider, which share the capped maps with   *)
(* every other model clients ask it for.  Averages are kept in Scale-ths   *)
(* of a rate: with a weight of a quarter they are exact for three samples. *)
(* Of the size buckets only the one a large input falls into is kept: the  *)
(* bucket below PrefillMattersAt is written and never read for an order.   *)
(***************************************************************************)
EXTENDS Integers, Sequences, FiniteSets

CONSTANTS
  Legs,         \* the targets of the combo, as configured
  Others,       \* further models of the provider
  Rates,        \* rates a sample may show, above the noise gates
  MapCap,       \* maxSpeedModels, maxPrefillModels
  MinSamples,   \* MinPrefillSamplesForOrdering
  StaleAfter,   \* staleAfter, prefillStaleAfter
  LargeInput,   \* a large input, in nominal replies
  MaxServed,    \* bound: requests measured
  MaxAge        \* bound: ticks

VARIABLES
  decode, prefill,   \* byModel: model -> sample
  measured, ticks    \* bounds: requests measured, ticks so far

speedVars == <<decode, prefill, measured, ticks>>

LegIndices == DOMAIN Legs
Models == {Legs[i] : i \in LegIndices} \cup Others
Scale == 64
Noise == 0           \* a reply too small or too quick to measure

ASSUME SteeringAssumption ==
  /\ Legs \in Seq({Legs[i] : i \in DOMAIN Legs})
  /\ \A i, j \in LegIndices : Legs[i] = Legs[j] => i = j
  /\ Rates \subseteq Nat \ {0} /\ MapCap \in Nat \ {0} /\ MinSamples \in Nat \ {0}
  /\ StaleAfter \in Nat /\ LargeInput \in Nat \ {0}

\* lo, hi: history, the slowest and the fastest sample since a long silence.
Fresh == [n |-> 0, v |-> 0, age |-> 0, lo |-> 0, hi |-> 0]
Silent(s) == s.n = 0 \/ s.age > StaleAfter

-----------------------------------------------------------------------------
\* A plausible bug: an average that went stale is continued.
Mut_Seeds_Once(s) == s.n = 0

\* The next sample starts the average anew.
Seeds(s) == s.n = 0 \/ s.age > StaleAfter

\* speedSample.observe and prefillSample.observe.
observe(s, rate) ==
  IF rate = Noise THEN s
  ELSE [n |-> s.n + 1, age |-> 0,
        v |-> IF Seeds(s) THEN rate * Scale ELSE (rate * Scale + 3 * s.v) \div 4,
        lo |-> IF Silent(s) \/ rate < s.lo THEN rate ELSE s.lo,
        hi |-> IF Silent(s) \/ rate > s.hi THEN rate ELSE s.hi]

Sample(byModel, m) == IF m \in DOMAIN byModel THEN byModel[m] ELSE Fresh

\* A plausible bug: the cap is compared after the entry is counted.
Mut_Room_OneMore(byModel, m) == m \in DOMAIN byModel \/ Cardinality(DOMAIN byModel) <= MapCap

\* An entry of the map, or room for one.
Room(byModel, m) == m \in DOMAIN byModel \/ Cardinality(DOMAIN byModel) < MapCap

Fold(byModel, m, rate) ==
  [k \in (DOMAIN byModel) \cup {m} |-> IF k = m THEN observe(Sample(byModel, m), rate) ELSE byModel[k]]

\* The decode clock: noise takes an entry too.
ObserveSpeed(m, rate) ==
  IF Room(decode, m) THEN decode' = Fold(decode, m, rate) ELSE UNCHANGED decode

\* The prefill clock of a large input: noise is turned away first.
ObservePrefill(m, rate) ==
  IF rate # Noise /\ Room(prefill, m) THEN prefill' = Fold(prefill, m, rate) ELSE UNCHANGED prefill

\* recordSuccess, its part in the order.  An answer without output tokens
\* leaves the decode clock alone, a small input the prefill clock.
recordSuccess(m) ==
  /\ measured < MaxServed /\ measured' = measured + 1
  /\ (\E rate \in Rates \cup {Noise} : ObserveSpeed(m, rate)) \/ UNCHANGED decode
  /\ (\E rate \in Rates \cup {Noise} : ObservePrefill(m, rate)) \/ UNCHANGED prefill
  /\ UNCHANGED ticks

\* Ages past the limit are all one.
Older(byModel) ==
  [m \in DOMAIN byModel |-> [byModel[m] EXCEPT !.age = IF @ > StaleAfter THEN @ ELSE @ + 1]]

Tick == /\ ticks < MaxAge /\ ticks' = ticks + 1
        /\ decode' = Older(decode) /\ prefill' = Older(prefill)
        /\ UNCHANGED measured

\* A reload builds new providers, and nothing was measured for them.
Renewed == decode' = <<>> /\ prefill' = <<>> /\ UNCHANGED <<measured, ticks>>

SpeedInit == decode = <<>> /\ prefill = <<>> /\ measured = 0 /\ ticks = 0
SpeedNext == (\E m \in Models : recordSuccess(m)) \/ Tick \/ Renewed
SpeedSpec == SpeedInit /\ [][SpeedNext]_speedVars

-----------------------------------------------------------------------------
ModelTPS(i) == Sample(decode, Legs[i]).v
ModelPrefillTPS(i) == Sample(prefill, Legs[i]).v
ModelPrefillSamples(i) == Sample(prefill, Legs[i]).n

\* The size-aware regime.
ByPrefill(large) == large /\ \E i \in LegIndices : ModelPrefillSamples(i) >= MinSamples

\* PredictSeconds as a fraction: the input at the prefill rate, and one
\* nominal reply at the decode rate if that is known.
PredictSeconds(i) ==
  LET p == ModelPrefillTPS(i)
      d == ModelTPS(i)
  IN  IF d > 0 THEN [num |-> LargeInput * d + p, den |-> p * d] ELSE [num |-> LargeInput, den |-> p]

\* A plausible bug (it was one): a leg without data scores a zero, which
\* beats every measured time.
Mut_Predicted_ZeroWins(i, j) ==
  /\ ModelPrefillTPS(j) > 0
  /\ \/ ModelPrefillTPS(i) = 0
     \/ PredictSeconds(i).num * PredictSeconds(j).den < PredictSeconds(j).num * PredictSeconds(i).den

\* Leg i is expected to end sooner than leg j; no data is later than any.
Predicted(i, j) ==
  /\ ModelPrefillTPS(i) > 0
  /\ \/ ModelPrefillTPS(j) = 0
     \/ PredictSeconds(i).num * PredictSeconds(j).den < PredictSeconds(j).num * PredictSeconds(i).den

Better(large, i, j) == IF ByPrefill(large) THEN Predicted(i, j) ELSE ModelTPS(i) > ModelTPS(j)

\* A plausible bug (it was one): size-aware ranks small requests as well.
Mut_Stands_Never(strategy, large) == strategy = "order"

\* The strategies that leave the configured order alone.
Stands(strategy, large) ==
  strategy = "order" \/ (strategy = "size-aware" /\ ~ByPrefill(large))

\* reorderBySpeed: a stable sort.  Place of leg i in the order.
Place(strategy, large, i) ==
  IF Stands(strategy, large) THEN i
  ELSE 1 + Cardinality({j \in LegIndices \ {i} :
                          Better(large, j, i) \/ (j < i /\ ~Better(large, i, j))})

Ahead(strategy, large, i, j) == Place(strategy, large, i) < Place(strategy, large, j)

-----------------------------------------------------------------------------
Strategies == {"order", "fastest", "size-aware"}
Measured(large, i) == IF ByPrefill(large) THEN ModelPrefillTPS(i) > 0 ELSE ModelTPS(i) > 0

SpeedTypeOK ==
  /\ DOMAIN decode \subseteq Models /\ DOMAIN prefill \subseteq Models
  /\ Cardinality(DOMAIN decode) <= MapCap /\ Cardinality(DOMAIN prefill) <= MapCap
  /\ \A m \in DOMAIN prefill : prefill[m].n > 0

(* No leg is lost or tried twice: the chain behind the leader is whole.    *)
ChainWhole ==
  \A strategy \in Strategies, large \in BOOLEAN :
    {Place(strategy, large, i) : i \in LegIndices} = LegIndices

(* A leg nothing is known of never overtakes another, in either regime     *)
(* (the promotion of 2026-09-12 that reorderBySpeed's comment tells of).   *)
UnmeasuredStaysBack ==
  \A strategy \in Strategies, large \in BOOLEAN : \A i, j \in LegIndices :
    j < i /\ ~Measured(large, i) => Ahead(strategy, large, j, i)

(* Under size-aware only a large request with a measured leg is reordered: *)
(* a quick paid leg cannot take the cheap turns (reorderBySpeed).          *)
SmallKeepsOrder ==
  \A large \in BOOLEAN : \A i, j \in LegIndices :
    i < j /\ (~large \/ \A k \in LegIndices : ModelPrefillSamples(k) < MinSamples)
      => Ahead("size-aware", large, i, j)

(* The averages rank as the measurements do: a leg all whose samples since *)
(* its last long silence were faster than all of another's is tried before *)
(* it, on both clocks for a large request.                                 *)
Outran(byModel, i, j) ==
  LET s == Sample(byModel, Legs[i])
      u == Sample(byModel, Legs[j])
  IN  s.n > 0 /\ u.n > 0 /\ s.lo > u.hi

FasterLeads ==
  \A i, j \in LegIndices :
    /\ Outran(decode, i, j) => Ahead("fastest", FALSE, i, j)
    /\ ByPrefill(TRUE) /\ Outran(prefill, i, j) /\ Outran(decode, i, j)
         => Ahead("fastest", TRUE, i, j) /\ Ahead("size-aware", TRUE, i, j)

(* What the measurements may do to the order of a combo.                   *)
SpeedSteers == SpeedTypeOK /\ ChainWhole /\ UnmeasuredStaysBack /\ SmallKeepsOrder /\ FasterLeads

(* prefill.go:219: a pair needs MinSamples samples before size-aware       *)
(* ordering may reorder on it.                                             *)
EnoughSamples ==
  \A i, j \in LegIndices :
    i < j /\ Ahead("size-aware", TRUE, j, i) => ModelPrefillSamples(j) >= MinSamples

(* speed.go:10: yesterday's speed must not steer today's traffic.          *)
FreshSteers ==
  \A i, j \in LegIndices :
    i < j /\ Ahead("fastest", FALSE, j, i) => Sample(decode, Legs[j]).age <= StaleAfter
=============================================================================
