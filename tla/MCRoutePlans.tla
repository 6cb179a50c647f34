---------------------------- MODULE MCRoutePlans ----------------------------
(* What an operator may have configured and a client may send, in the      *)
(* instances below: chains of one to three targets, three providers with a *)
(* combo and aliases, legs with tiers, and kits of tools.                  *)
EXTENDS Integers, Sequences

Leg(kind, forever) == [kind |-> kind, forever |-> forever]

\* A disabled provider, then two live ones.
Plain  == <<Leg("disabled", FALSE), Leg("live", FALSE), Leg("live", FALSE)>>
\* A target that retries forever, with a lesser leg behind it.
Sticky == <<Leg("live", TRUE), Leg("unknown", FALSE), Leg("live", FALSE)>>
\* A direct route.
Direct == <<Leg("live", FALSE)>>

Planned ==
  {[targets |-> Plain,  combo |-> TRUE,  fallback |-> TRUE],
   [targets |-> Plain,  combo |-> TRUE,  fallback |-> FALSE],
   [targets |-> Sticky, combo |-> TRUE,  fallback |-> TRUE],
   [targets |-> Direct, combo |-> FALSE, fallback |-> TRUE]}

All == {"ok", "committed", "corrupt", "legRefusal", "terminal", "gated", "fallback",
        "wall", "transient"}

-----------------------------------------------------------------------------
\* Two providers that advertise one id, one of them with an id that has a
\* slash of its own and a claim on a name nobody lists; and one that takes
\* anything besides its catalogue.
Vendors ==
  <<[name |-> "alpha", models |-> {<<"m">>}, open |-> FALSE, claims |-> {}],
    [name |-> "beta", models |-> {<<"m">>, <<"z", "k">>}, open |-> FALSE, claims |-> {<<"r">>}],
    [name |-> "gamma", models |-> {<<"c">>}, open |-> TRUE, claims |-> {}]>>

Chains ==
  [name \in {<<"combo">>} |->
     <<[provider |-> "alpha", model |-> <<"m">>], [provider |-> "gone", model |-> <<"m">>]>>]

AliasNames == {<<"a1">>, <<"a2">>, <<"a3">>}

\* Other aliases, the combo, a route, a route of no provider, a bare id.
AliasEnds == AliasNames \cup {<<"combo">>, <<"alpha", "m">>, <<"gone", "m">>, <<"m">>}

\* Nothing tells the aliases apart: one of them is enough to ask for.
Asked == (AliasEnds \ {<<"a2">>, <<"a3">>}) \cup {<<"r">>, <<"c">>, <<"x">>, <<"z", "k">>, <<"beta", "z", "k">>}

-----------------------------------------------------------------------------
\* Two legs of one provider, for what is measured of them.
TwoLegs == <<"m1", "m2">>

Tier(power, vision, reasoning, context, out) ==
  [power |-> power, vision |-> vision, reasoning |-> reasoning, context |-> context,
   maxOut |-> out, declared |-> TRUE]
Undeclared == [Tier(0, FALSE, FALSE, 0, 0) EXCEPT !.declared = FALSE]

\* Legs that can all serve any text, and legs that each miss something.
Tiered ==
  {<<Tier(125, FALSE, TRUE, 0, 0), Undeclared, Tier(40, TRUE, TRUE, 0, 0), Tier(90, TRUE, TRUE, 0, 0)>>,
   <<Tier(30, FALSE, FALSE, 8000, 4096), Undeclared, Tier(125, FALSE, TRUE, 16000, 0),
     Tier(90, TRUE, TRUE, 200000, 32000)>>}

Kit(tools, out, effort) == [tools |-> tools, maxTokens |-> out, effort |-> effort]

\* A chat; a writer; a small agent; a large one that thinks; one that asks for a book.
ClientKits ==
  {Kit(0, 0, "light"), Kit(0, 8192, "mid"), Kit(3, 1000, "light"), Kit(8, 0, "high"), Kit(8, 33000, "mid")}
=============================================================================
