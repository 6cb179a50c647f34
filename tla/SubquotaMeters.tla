--------------------------- MODULE SubquotaMeters ---------------------------
(***************************************************************************)
(* internal/subquota/subquota.go: one probe of a vendor's usage endpoint,  *)
(* read into the percentages that park an account at 100.                  *)
(*                                                                         *)
(* An optional JSON field is a sequence of length 0 or 1.  Amounts and     *)
(* percentages are in tenths, so that rounding shows.                      *)
(***************************************************************************)
EXTENDS Integers, Sequences

CONSTANT Answers   \* the answers a vendor may give, see Probe

Optional(seq) == seq \in Seq(Int) /\ Len(seq) <= 1
Allowances == [used : Int, cap : Int]
CodexWindows(ws) ==
  \A i \in DOMAIN ws : Optional(ws[i].pct) /\ ws[i].latent \in BOOLEAN
CodexBucket(b) == CodexWindows(b.snake) /\ CodexWindows(b.camel)

\* What a dialect reads of an answer: any numbers, and any number of them.
Readable(d, f) ==
  CASE d = "opencode-go" -> Optional(f.rolling) /\ Optional(f.weekly) /\ Optional(f.monthly)
    [] d = "zai" -> f.success \in BOOLEAN /\ f.limits \in Seq([type : {"tokens", "credit", "time"}, pct : Int])
    [] d = "commandcode" -> f.windows \in Seq(Allowances) /\ f.spend \in Int /\ Optional(f.credits)
    [] d = "grok-cli" -> /\ Optional(f.percent) /\ Optional(f.limit) /\ Optional(f.used)
                         /\ f.unified \in BOOLEAN /\ Optional(f.demandCap) /\ Optional(f.demandUsed)
    [] d = "xiaomi" -> f.success \in BOOLEAN /\ f.items \in Seq(Int)
    [] d = "freebuff" -> f.windows \in Seq(Allowances)
    [] d = "cursor" -> f.summary \in BOOLEAN /\ f.unlimited \in BOOLEAN /\ f.total \in Int /\ f.api \in Int
    [] d = "codex" -> /\ CodexBucket(f.plan) /\ Optional(f.spendLimit)
                      /\ \A i \in DOMAIN f.additional : CodexBucket(f.additional[i])

Dialects == {"opencode-go", "zai", "commandcode", "grok-cli", "xiaomi", "freebuff", "cursor", "codex"}

ASSUME AnswersAssumption ==
  \A a \in Answers :
    /\ a.reached \in BOOLEAN /\ a.status \in Nat /\ a.json \in BOOLEAN
    /\ a.dialect \in Dialects /\ Readable(a.dialect, a.fields)

-----------------------------------------------------------------------------
Whole == 1000      \* 100 %, in tenths

Of(seq) == {seq[i] : i \in DOMAIN seq}
Capped(windows) == {w \in Of(windows) : w.cap > 0}
AtLeastZero(n) == IF n < 0 THEN 0 ELSE n

Clamp(f) == IF f < 0 THEN 0 ELSE IF f > Whole THEN Whole ELSE f

\* A plausible bug: a meter past its end is not clamped but dropped.
Mut_asPercent_Drops(f) == IF f > Whole THEN 0 ELSE (Clamp(f) + 5) \div 10

\* asPercent: clamped, then rounded half up.
asPercent(f) == (Clamp(f) + 5) \div 10

\* grokPercent: clamped, then floored.
grokPercent(f) == Clamp(f) \div 10

\* A plausible bug (it was one): the ratio is rounded.
Mut_Ratio_Rounds(used, cap) == (Clamp((used * Whole) \div cap) + 5) \div 10

\* used against cap, clamped and floored.
Ratio(used, cap) == Clamp((used * Whole) \div cap) \div 10

Failed == [err |-> TRUE, used |-> {}]
Read(windows) == IF windows = {} THEN Failed ELSE [err |-> FALSE, used |-> windows]

-----------------------------------------------------------------------------
\* The dialects.  f is what the answer carries.
parseOpenCodeGo(f) ==
  Read({asPercent(p) : p \in Of(f.rolling) \cup Of(f.weekly) \cup Of(f.monthly)})

\* Only the two percent-based limit types count.
parseZai(f) ==
  IF ~f.success THEN Failed
  ELSE Read({asPercent(l.pct) : l \in {l \in Of(f.limits) : l.type \in {"tokens", "credit"}}})

\* Two windows of spend against a cap, and the credit pool: what is left
\* against what was spent.
parseCommandCode(f) ==
  LET spend == AtLeastZero(f.spend)
      pool(left) == IF left <= 0 THEN 100 ELSE (spend * 100) \div (spend + left)
  IN  Read({Ratio(w.used, w.cap) : w \in Capped(f.windows)} \cup {pool(left) : left \in Of(f.credits)})

\* grokLegacyPercent: both amounts go through grokPercent and its clamp.
grokLegacyPercent(limit, used) ==
  LET cap == grokPercent(limit)
      spent == IF grokPercent(used) > cap THEN cap ELSE grokPercent(used)
  IN  IF cap = 0 THEN 100 ELSE (spent * 100) \div cap

\* grokUnmetered: parked only by an on-demand cap that is used up.
grokUnmetered(f) ==
  LET spentUp == \E cap \in Of(f.demandCap), used \in Of(f.demandUsed) :
                   grokPercent(cap) > 0 /\ grokPercent(used) >= grokPercent(cap)
  IN  IF spentUp THEN 100 ELSE 0

\* The pool's percentage, else the monthly envelope, else the unified shape.
parseGrokCli(f) ==
  IF f.percent # <<>> THEN Read({grokPercent(f.percent[1])})
  ELSE IF f.limit # <<>> /\ (grokPercent(f.limit[1]) = 0 \/ f.used # <<>>)
    THEN Read({grokLegacyPercent(f.limit[1], IF f.used = <<>> THEN 0 ELSE f.used[1])})
  ELSE IF f.unified \/ f.demandCap # <<>> THEN Read({grokUnmetered(f)})
  ELSE Failed

\* One window an item.
parseXiaomiTokenPlan(f) == IF ~f.success THEN Failed ELSE Read({asPercent(p) : p \in Of(f.items)})

parseFreebuff(f) == Read({Ratio(w.used, w.cap) : w \in Capped(f.windows)})

\* An uncapped account's meters read zero.
parseCursor(f) ==
  IF ~f.summary THEN Failed
  ELSE Read(IF f.unlimited THEN {0} ELSE {asPercent(f.total), asPercent(f.api)})

\* A window without a percentage, or never used with a full window to go, is
\* dropped; the camelCase spelling is read when the other yields nothing.
codexWindows(ws) ==
  {asPercent(w.pct[1]) : w \in {w \in Of(ws) : w.pct # <<>> /\ ~(w.pct[1] = 0 /\ w.latent)}}

codexBucket(b) == IF codexWindows(b.snake) # {} THEN codexWindows(b.snake) ELSE codexWindows(b.camel)

\* The plan's own bucket, those of metered features, and the spend cap.
parseCodex(f) ==
  Read(codexBucket(f.plan) \cup (UNION {codexBucket(b) : b \in Of(f.additional)})
         \cup {asPercent(p) : p \in Of(f.spendLimit)})

\* Which statuses carry a meter: a live freebuff session answers 409.
Usable(a) == a.status = 200 \/ (a.dialect = "freebuff" /\ a.status = 409)

\* probeHTTP and its special cases.  A credential of the wrong shape, a
\* refusal, or a body that is not JSON is an error without windows.
Probe(a) ==
  LET f == a.fields
  IN  IF ~a.reached \/ ~Usable(a) \/ ~a.json THEN Failed
      ELSE CASE a.dialect = "opencode-go" -> parseOpenCodeGo(f)
             [] a.dialect = "zai"         -> parseZai(f)
             [] a.dialect = "commandcode" -> parseCommandCode(f)
             [] a.dialect = "grok-cli"    -> parseGrokCli(f)
             [] a.dialect = "xiaomi"      -> parseXiaomiTokenPlan(f)
             [] a.dialect = "freebuff"    -> parseFreebuff(f)
             [] a.dialect = "cursor"      -> parseCursor(f)
             [] a.dialect = "codex"       -> parseCodex(f)

\* exhaustedWindow: some window is fully consumed.
exhaustedWindow(snap) == ~snap.err /\ \E u \in snap.used : u >= 100

-----------------------------------------------------------------------------
VARIABLES answer, snap   \* the vendor's answer, what was read from it

meterVars == <<answer, snap>>
NotRead == [err |-> TRUE, used |-> {-1}]

MeterInit == answer \in Answers /\ snap = NotRead
MeterNext == snap = NotRead /\ snap' = Probe(answer) /\ UNCHANGED answer
MeterSpec == MeterInit /\ [][MeterNext]_meterVars

-----------------------------------------------------------------------------
\* The vendor's own arithmetic: a percentage is used up at 100 %, an
\* amount at its cap.
Meter(used, cap) == [used |-> used, cap |-> cap]
Shares(percents) == {Meter(p, Whole) : p \in percents}
Amounts(windows) == {Meter(w.used, w.cap) : w \in Capped(windows)}
CodexShares(ws) == Shares(UNION {Of(w.pct) : w \in Of(ws)})
CodexMeters(b) ==
  CodexShares(b.snake) \cup IF codexWindows(b.snake) = {} THEN CodexShares(b.camel) ELSE {}

\* A grok pool is a percentage, else a monthly limit; without either an
\* on-demand cap of at least one counts.
GrokMeters(f) ==
  IF f.percent # <<>> THEN Shares(Of(f.percent))
  ELSE IF f.limit # <<>> THEN {Meter(IF f.used = <<>> THEN 0 ELSE f.used[1], f.limit[1])}
  ELSE UNION {{Meter(u, c) : u \in Of(f.demandUsed)} : c \in {c \in Of(f.demandCap) : c >= 10}}

\* Every meter the answer carries.
Meters(a) ==
  LET f == a.fields
  IN  CASE a.dialect = "opencode-go" -> Shares(Of(f.rolling) \cup Of(f.weekly) \cup Of(f.monthly))
        [] a.dialect = "zai"         -> Shares({l.pct : l \in {l \in Of(f.limits) : l.type # "time"}})
        [] a.dialect = "commandcode" -> Amounts(f.windows) \cup {Meter(f.spend, f.spend + c) : c \in Of(f.credits)}
        [] a.dialect = "grok-cli"    -> GrokMeters(f)
        [] a.dialect = "xiaomi"      -> Shares(Of(f.items))
        [] a.dialect = "freebuff"    -> Amounts(f.windows)
        [] a.dialect = "cursor"      -> IF f.unlimited THEN {} ELSE Shares({f.total, f.api})
        [] a.dialect = "codex"       -> CodexMeters(f.plan) \cup Shares(Of(f.spendLimit))
                                          \cup (UNION {CodexMeters(b) : b \in Of(f.additional)})

\* Nothing left on a meter; and almost nothing, within a rounding.
Drained(m) == m.used >= m.cap
NearlyDrained(m) == 1000 * m.used >= 995 * m.cap

Rounding == {"opencode-go", "zai", "xiaomi", "cursor", "codex"}

\* The grok answers that carry amounts instead of a percentage.
GrokAmounts(a) == a.dialect = "grok-cli" /\ a.fields.percent = <<>>

(* A vendor that answers parks an account exactly when one of its meters   *)
(* has run out.  The dialects that take the vendor's percentage round it,  *)
(* so they park from 99.5 % on.  GrokAmounts are apart: see                *)
(* SpendablePoolServes.                                                    *)
DrainRead ==
  (snap # NotRead /\ ~snap.err) =>
    /\ (\E m \in Meters(answer) : Drained(m)) => exhaustedWindow(snap)
    /\ exhaustedWindow(snap) =>
         \/ \E m \in Meters(answer) : Drained(m)
         \/ answer.dialect \in Rounding /\ \E m \in Meters(answer) : NearlyDrained(m)
         \/ GrokAmounts(answer)

(* No verdict without evidence: a refused, broken or unreadable answer     *)
(* never benches an account (the probe fails open).                        *)
FailOpen ==
  (snap # NotRead /\ (~answer.reached \/ ~Usable(answer) \/ ~answer.json)) =>
    ~exhaustedWindow(snap)

(* What subquota.go says of the grok amounts: a positive limit yields the  *)
(* floored spend percent, and an on-demand cap parks when it is used up.   *)
SpendablePoolServes ==
  (snap # NotRead /\ GrokAmounts(answer) /\ exhaustedWindow(snap)) =>
    \E m \in Meters(answer) : Drained(m)

(* A verdict is what the vendor's numbers say, and nothing without them.   *)
ReadRight == DrainRead /\ FailOpen
=============================================================================
