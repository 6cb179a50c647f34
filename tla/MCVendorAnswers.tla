--------------------------- MODULE MCVendorAnswers --------------------------
(* Answers for SubquotaMeters, of the eight shapes around their edges:     *)
(* empty, fractions of a percent below the end, at it, past it, and        *)
(* amounts above a hundred.                                                *)
EXTENDS Integers, Sequences

Kinds == {"opencode-go", "zai", "commandcode", "grok-cli", "xiaomi", "freebuff", "cursor", "codex"}

Pct == {-10, 0, 994, 995, 1000, 1300}
Maybe(S) == {<<>>} \cup {<<x>> : x \in S}
Amount == {0, 500, 4000, 5000}
Allowance == [used : {0, 500, 4990, 5000, 5010}, cap : {0, 10, 5000}]

Fields(d) ==
  CASE d = "opencode-go" -> [rolling : Maybe(Pct), weekly : Maybe(Pct), monthly : Maybe({0})]
    [] d = "zai" -> [success : BOOLEAN,
                     limits : {<<>>} \cup {<<[type |-> t, pct |-> p], [type |-> "tokens", pct |-> 0]>> :
                                             t \in {"tokens", "credit", "time"}, p \in Pct}]
    [] d = "commandcode" -> [windows : {<<>>} \cup {<<w, v>> : w \in Allowance, v \in {[used |-> 0, cap |-> 10]}},
                             spend : {0, 5, 5000}, credits : Maybe({0, 1, 5000})]
    [] d = "grok-cli" -> [percent : Maybe({0, 999, 1000}), limit : Maybe(Amount), used : Maybe(Amount),
                          unified : BOOLEAN, demandCap : Maybe(Amount), demandUsed : Maybe(Amount)]
    [] d = "xiaomi" -> [success : BOOLEAN, items : {<<>>} \cup {<<p>> : p \in Pct} \cup {<<p, 0>> : p \in Pct}]
    [] d = "freebuff" -> [windows : {<<>>} \cup {<<w>> : w \in Allowance} \cup {<<[used |-> 0, cap |-> 10], w>> : w \in Allowance}]
    [] d = "cursor" -> [summary : BOOLEAN, unlimited : BOOLEAN, total : Pct, api : {0, 999, 1000}]
    [] d = "codex" -> LET ws == {<<>>} \cup {<<[pct |-> p, latent |-> l]>> : p \in Maybe(Pct), l \in BOOLEAN}
                          full == <<[pct |-> <<1000>>, latent |-> FALSE]>>
                          bs == [snake : ws, camel : {<<>>, full}]
                      IN  [plan : bs, additional : {<<>>} \cup {<<b>> : b \in bs}, spendLimit : Maybe({0, 1000})]

Answer(d, reached, status, json, f) ==
  [dialect |-> d, reached |-> reached, status |-> status, json |-> json, fields |-> f]

AllAnswers ==
  LET answered == {{Answer(d, TRUE, 200, TRUE, f) : f \in Fields(d)} : d \in Kinds}
      whatever == {{Answer(d, r, st, j, f) : r \in BOOLEAN, st \in {200, 401, 409, 500}, j \in BOOLEAN,
                                            f \in {CHOOSE g \in Fields(d) : TRUE}} : d \in Kinds}
  IN  UNION (answered \cup whatever)
=============================================================================
