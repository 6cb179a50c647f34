----------------------------- MODULE TaskOrder ------------------------------
(***************************************************************************)
(* Ordering a combo by the request's difficulty (internal/router/task.go): *)
(* what CollectSignals reads from a conversation that its client sends     *)
(* again with every turn, the class Classify gives it, and the order in    *)
(* which reorderByTask tries the legs.                                     *)
(*                                                                         *)
(* A text is its length and the kinds of keyword it begins with; the kinds *)
(* are those of the three regular expressions.                             *)
(***************************************************************************)
EXTENDS Steering

CONSTANTS
  Combos,    \* combos as configured: what [[providers.tier]] says of each leg
  Kits,      \* what a client sends with every turn: [tools, maxTokens, effort]
  Texts,     \* lengths of the texts one turn may add
  TextCap,   \* maxTaskTextBytes
  Rounds,    \* messages one turn may add, tool calls and results included
  MaxMessages  \* bound: a conversation this long has no further turn

VARIABLES
  legs,                                 \* the combo it asks for
  kit, chars, messages, image, words,   \* the conversation
  led                                   \* history: who led the turn before, and the class

talkVars == <<legs, kit, chars, messages, image, words, led>>

Keywords == {"light", "heavy", "critical"}

ASSUME TaskAssumption ==
  /\ \A combo \in Combos :        \* a single leg is not reordered
       combo \in Seq({combo[i] : i \in DOMAIN combo}) /\ Len(combo) > 1
  /\ \A combo \in Combos : \A i \in DOMAIN combo :
       /\ combo[i].power \in 0 .. 150 /\ combo[i].context \in Nat /\ combo[i].maxOut \in Nat
       /\ {combo[i].declared, combo[i].vision, combo[i].reasoning} \subseteq BOOLEAN
  /\ \A k \in Kits : k.tools \in Nat /\ k.maxTokens \in Nat /\ k.effort \in {"light", "mid", "high"}
  /\ Texts \subseteq Nat /\ TextCap \in Nat /\ Rounds \subseteq Nat \ {0}

\* Classes, by weight.
Light == 1
Standard == 2
Heavy == 3
Critical == 4

-----------------------------------------------------------------------------
IsLight(k, n, turns, kw) ==
  /\ k.tools = 0 /\ k.effort = "light" /\ "critical" \notin kw
  /\ \/ n <= 2000 /\ turns <= 3 /\ k.maxTokens <= 1500 /\ "heavy" \notin kw
     \/ "light" \in kw /\ n <= 4000

IsCritical(k, n, kw) ==
  \/ n >= 100000 \/ k.maxTokens >= 32768
  \/ k.tools >= 8 /\ n >= 16000
  \/ "critical" \in kw /\ (k.effort = "high" \/ k.tools >= 3 \/ n >= 8000)

\* The signals that are heavy together; 24000 characters count for one,
\* 50000 for two.
HeavySignals(k, n, turns, kw) ==
  {s \in 1 .. 8 :
     \/ s = 1 /\ n >= 50000
     \/ s = 2 /\ n >= 24000
     \/ s = 3 /\ turns >= 16
     \/ s = 4 /\ k.tools >= 4
     \/ s = 5 /\ k.maxTokens >= 8192
     \/ s = 6 /\ k.effort = "high"
     \/ s = 7 /\ "critical" \in kw
     \/ s = 8 /\ "heavy" \in kw /\ n >= 4000}

IsHeavy(k, n, turns, kw) ==
  k.effort = "high" \/ Cardinality(HeavySignals(k, n, turns, kw)) >= 2

Classify(k, n, turns, kw) ==
  IF IsCritical(k, n, kw) THEN Critical
  ELSE IF IsHeavy(k, n, turns, kw) THEN Heavy
  ELSE IF IsLight(k, n, turns, kw) THEN Light
  ELSE Standard

-----------------------------------------------------------------------------
taskTargetPower == <<35, 65, 95, 120>>
undeclaredPower == 65

\* tierFor: the effective power of a leg.
Power(leg) == IF leg.declared THEN leg.power ELSE undeclaredPower

Abs(n) == IF n < 0 THEN -n ELSE n

\* The hard misses, which only a declared tier can have.
Blind(leg, pic)       == leg.declared /\ pic /\ ~leg.vision
Unreasoning(leg, c)   == leg.declared /\ c >= Heavy /\ ~leg.reasoning
Overflowed(leg, n)    == leg.declared /\ leg.context > 0 /\ n \div 4 > (leg.context * 85) \div 100
TooShort(leg, k)      == leg.declared /\ leg.maxOut > 0 /\ k.maxTokens > leg.maxOut

\* A plausible bug: a leg that cannot see loses no more than one that
\* cannot reason.
Mut_Penalty_Mild(leg, c, k, n, pic) ==
  (IF Blind(leg, pic) THEN 100 ELSE 0) + (IF Unreasoning(leg, c) THEN 120 ELSE 0)
  + (IF Overflowed(leg, n) THEN 200 ELSE 0) + (IF TooShort(leg, k) THEN 80 ELSE 0)

Penalty(leg, c, k, n, pic) ==
  (IF Blind(leg, pic) THEN 10000 ELSE 0) + (IF Unreasoning(leg, c) THEN 120 ELSE 0)
  + (IF Overflowed(leg, n) THEN 200 ELSE 0) + (IF TooShort(leg, k) THEN 80 ELSE 0)

\* A plausible bug: a comparison is turned round where strength counts most.
Mut_Misfit_Turned(p, c) ==
  CASE c = Light /\ p > 95 -> 35 [] c = Standard /\ p > 125 -> 10
    [] c = Heavy /\ p < 65 -> 60 [] c = Critical /\ p > 85 -> 100 [] OTHER -> 0

\* Overkill and underkill.
Misfit(p, c) ==
  CASE c = Light /\ p > 95 -> 35 [] c = Standard /\ p > 125 -> 10
    [] c = Heavy /\ p < 65 -> 60 [] c = Critical /\ p < 85 -> 100 [] OTHER -> 0

scoreTarget(leg, c, k, n, pic) ==
  100 - Abs(Power(leg) - taskTargetPower[c]) - Penalty(leg, c, k, n, pic) - Misfit(Power(leg), c)

\* reorderByTask: a stable sort.  The places of the legs, given the class.
Ranked(c) ==
  LET s == [i \in DOMAIN legs |-> scoreTarget(legs[i], c, kit, chars, image)]
  IN  [i \in DOMAIN legs |->
         1 + Cardinality({j \in DOMAIN legs \ {i} : s[j] > s[i] \/ (s[j] = s[i] /\ j < i)})]

-----------------------------------------------------------------------------
Class == Classify(kit, chars, messages, words)
Places == Ranked(Class)
First(places) == CHOOSE i \in DOMAIN legs : places[i] = 1

CanServe(leg) == ~Blind(leg, image) /\ ~Unreasoning(leg, Class) /\ ~Overflowed(leg, chars) /\ ~TooShort(leg, kit)
AllFit == \A i \in DOMAIN legs : CanServe(legs[i])

\* A plausible bug: only the last text is probed for keywords.
Mut_CollectText_LastOnly(n, kw) ==
  chars' = chars + n /\ words' = kw

\* addText: the length counts in full, keywords up to the cap.
CollectText(n, kw) ==
  /\ chars' = chars + n
  /\ words' = IF chars < TextCap THEN words \cup kw ELSE words

\* The next turn: the client sends what was said before, an answer,
\* what its tools returned, and a text.
Turn ==
  /\ messages < MaxMessages /\ \E n \in Rounds : messages' = messages + n
  /\ led' = [class |-> Class, leg |-> First(Places), all |-> AllFit]
  /\ \E n \in Texts, kw \in SUBSET Keywords : CollectText(n, kw)
  /\ image' \in {image, TRUE}
  /\ UNCHANGED <<legs, kit>>

TaskInit ==
  /\ legs \in Combos /\ kit \in Kits /\ messages = 1 /\ chars \in Texts /\ words \in SUBSET Keywords
  /\ image \in BOOLEAN /\ led = [class |-> Light, leg |-> 0, all |-> FALSE]

TaskNext == Turn
TaskSpec == TaskInit /\ [][TaskNext]_talkVars

-----------------------------------------------------------------------------
TaskTypeOK ==
  /\ legs \in Combos /\ kit \in Kits /\ chars \in Nat /\ messages \in Nat /\ image \in BOOLEAN
  /\ words \subseteq Keywords /\ led.class \in Light .. Critical

(* A conversation that was hard stays hard: as it grows its class falls    *)
(* only from standard to light, on a light keyword.                        *)
HardStaysHard == led.class >= Heavy => Class >= led.class

(* The gates of scoreTarget hold against every other weight: a leg that    *)
(* declares no vision gets an image only when every leg does, and a leg    *)
(* the prompt overflows is never tried before one of some power that can   *)
(* serve the request.                                                      *)
GatesHold(places) ==
  \A i, j \in DOMAIN legs :
    \/ Blind(legs[i], image) /\ ~Blind(legs[j], image)
    \/ Overflowed(legs[i], chars) /\ CanServe(legs[j]) /\ Power(legs[j]) > 20
    => places[j] < places[i]

(* While every leg can serve the request, a harder turn never goes to a    *)
(* weaker leg than an easier one did.                                      *)
HarderToStronger(places) ==
  led.all /\ AllFit /\ Class > led.class => Power(legs[First(places)]) >= Power(legs[led.leg])

(* What the class of a request may do to the order of a combo.             *)
TaskSteers ==
  /\ TaskTypeOK /\ HardStaysHard
  /\ LET places == Places
     IN  GatesHold(places) /\ HarderToStronger(places)

(* What is measured of the legs and what a conversation asks of them order *)
(* a combo, and do no more than that.                                      *)
Steers == SpeedSteers /\ TaskSteers
=============================================================================
