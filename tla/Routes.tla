------------------------------- MODULE Routes -------------------------------
(***************************************************************************)
(* From the name a client asks for to the targets that may serve it:       *)
(* config.Validate's rules for aliases, apply's route tables, and          *)
(* Router.Resolve and KnownModel over them (internal/router/router.go).    *)
(*                                                                         *)
(* A name is the sequence of its segments between slashes, case folded as  *)
(* the tables do; a name of one segment is bare.  The operator edits       *)
(* aliases and pauses providers; an edit that Validate refuses changes     *)
(* nothing, the old state goes on serving.                                 *)
(***************************************************************************)
EXTENDS Integers, Sequences, FiniteSets

CONSTANTS
  Providers,    \* in config order: [name, models, open, claims]
  ComboTable,   \* combo name -> its targets
  Aliases,      \* names an alias may have
  Ends,         \* what the operator may let it stand for
  Names,        \* what clients ask for
  MaxAliasHops

VARIABLES
  aliases,      \* alias -> what it stands for
  paused        \* providers with disabled = true

nameVars == <<aliases, paused>>

ProviderNames == {Providers[i].name : i \in DOMAIN Providers}
Bare(name) == Len(name) = 1

\* What a configuration must satisfy besides its aliases.
ASSUME RoutesAssumption ==
  /\ Providers \in Seq({Providers[i] : i \in DOMAIN Providers})
  /\ \A i, j \in DOMAIN Providers : Providers[i].name = Providers[j].name => i = j
  /\ \A i \in DOMAIN Providers :
       /\ \A m \in Providers[i].models : Len(m) > 0   \* advertised, or the kind's catalogue
       /\ Providers[i].open \in BOOLEAN               \* the config lists no models
       /\ \A m \in Providers[i].claims : Bare(m)      \* bare names that retry for ever here
  /\ \A name \in (DOMAIN ComboTable) \cup Aliases : Bare(name)
  /\ (DOMAIN ComboTable) \cap Aliases = {}                \* an alias shadows no combo
  /\ MaxAliasHops \in Nat \ {0}

-----------------------------------------------------------------------------
\* The route table and the index of bare names (SetModels).
models == UNION {{<<Providers[i].name>> \o m : m \in Providers[i].models} : i \in DOMAIN Providers}
Advertised == UNION {Providers[i].models : i \in DOMAIN Providers}

\* Where name is after each hop through the aliases t.
Hop(t, name) == IF name \in DOMAIN t THEN t[name] ELSE name

Hops(t, name) ==
  LET at[k \in 0 .. MaxAliasHops] == IF k = 0 THEN name ELSE Hop(t, at[k - 1])
  IN  at

\* The hop cap is used up.
CapSpent(t, name) == Hops(t, name)[MaxAliasHops - 1] \in DOMAIN t

\* The name that is looked up.
Followed(t, name) ==
  IF name \in DOMAIN ComboTable \/ CapSpent(t, name) THEN name ELSE Hops(t, name)[MaxAliasHops]

Plan(targets)  == [err |-> "none", targets |-> targets]
Target(p, m)   == [provider |-> p, model |-> m]
NoPlan(error)  == [err |-> error, targets |-> <<>>]

Least(S) == CHOOSE i \in S : \A j \in S : i <= j

\* A plausible bug: an advertiser that is paused still takes the name.
Mut_Advertisers_Paused(live, name) ==
  {i \in DOMAIN Providers : name \in Providers[i].models}

LiveProviders(off) == {i \in DOMAIN Providers : Providers[i].name \notin off}
Claimants(live, name) == {i \in live : name \in Providers[i].claims}
Advertisers(live, name) == {i \in live : name \in Providers[i].models}
PassThrough(live) == {i \in live : Providers[i].open}

\* Who takes a bare name: an operator's retry_forever, then who advertises
\* it, then who takes anything; config order among each.
ServeBare(live, name) ==
  LET by(S) == Plan(<<Target(Providers[Least(S)].name, name)>>)
  IN  IF Claimants(live, name) # {} THEN by(Claimants(live, name))
      ELSE IF Advertisers(live, name) # {} THEN by(Advertisers(live, name))
      ELSE IF PassThrough(live) # {} THEN by(PassThrough(live))
      ELSE NoPlan("model_not_found")

\* A route of the table names a provider of the pool, so it needs no case.
Resolve(t, off, name) ==
  LET n == Followed(t, name)
  IN  IF n \in DOMAIN ComboTable THEN Plan(ComboTable[n])
      ELSE IF Bare(n) THEN ServeBare(LiveProviders(off), n)
      ELSE IF Head(n) \in ProviderNames THEN Plan(<<Target(Head(n), Tail(n))>>)
      ELSE NoPlan("unknown_provider")

\* A plausible bug: a pass-through provider is forgotten.
Mut_KnownModel_Listed(t, off, name) == Followed(t, name) \in (DOMAIN ComboTable) \cup models \cup Advertised

\* Whether a name may become a label of the metrics.
KnownModel(t, off, name) ==
  LET n == Followed(t, name)
  IN  \/ n \in (DOMAIN ComboTable) \cup models \cup Advertised
      \/ ~Bare(n) /\ Head(n) \in ProviderNames
      \/ Bare(n) /\ PassThrough(LiveProviders(off)) # {}

-----------------------------------------------------------------------------
\* Where the chain of alias a ends for Validate, which looks at no more
\* than MaxAliasHops names behind it.
End(t, a) == Hops(t, t[a])[MaxAliasHops - 1]

\* A plausible bug: where the chain ends is not looked at.
Mut_Settles_Anywhere(t, a) == End(t, a) \notin DOMAIN t

Settles(t, a) ==
  /\ End(t, a) \notin DOMAIN t
  /\ \/ End(t, a) \in DOMAIN ComboTable
     \/ ~Bare(End(t, a)) /\ Head(End(t, a)) \in ProviderNames

\* Validate, as far as aliases go.
Validate(t) == \A a \in DOMAIN t : a[1] \notin ProviderNames /\ Settles(t, a)

\* An edit of the aliases, loaded if it is valid.
SetAliases ==
  /\ \E a \in Aliases :
       LET rest == [b \in DOMAIN aliases \ {a} |-> aliases[b]]
       IN  \E new \in {rest} \cup {[b \in DOMAIN rest \cup {a} |-> IF b = a THEN e ELSE rest[b]] : e \in Ends} :
             Validate(new) /\ aliases' = new
  /\ UNCHANGED paused

\* The dashboard's toggle.
Toggle(p) ==
  /\ \/ p \in paused /\ paused' = paused \ {p}
     \/ p \notin paused /\ paused' = paused \cup {p}
  /\ UNCHANGED aliases

\* The config as it is first read: providers may be off in it already.
RoutesInit == aliases = <<>> /\ paused \in SUBSET ProviderNames
RoutesNext == SetAliases \/ \E p \in ProviderNames : Toggle(p)
RoutesSpec == RoutesInit /\ [][RoutesNext]_nameVars

-----------------------------------------------------------------------------
Now(name) == Resolve(aliases, paused, name)
Serves(name) == Now(name).err = "none"

RoutesTypeOK ==
  /\ DOMAIN aliases \subseteq Aliases /\ \A a \in DOMAIN aliases : aliases[a] \in Ends
  /\ paused \subseteq ProviderNames

(* What Validate accepted resolves: a client that asks for an alias within *)
(* the hop cap is served as the end of its chain is, and never as a model  *)
(* of the alias's own name (Resolve's loop against Validate's).            *)
AliasMeansItsEnd ==
  \A a \in DOMAIN aliases :
    ~CapSpent(aliases, a) => Serves(a) /\ Now(a) = Now(End(aliases, a))

(* A pause moves only the bare names the paused provider was serving, and  *)
(* they go to a live one or to nobody (the selection order of Resolve).    *)
PauseMovesItsOwn ==
  \A name \in Names :
    LET now  == Now(name)
        bare == Bare(Followed(aliases, name)) /\ Followed(aliases, name) \notin DOMAIN ComboTable
    IN  \A p \in ProviderNames \ paused :
          LET then == Resolve(aliases, paused \cup {p}, name)
          IN  /\ then # now => now.err = "none" /\ now.targets[1].provider = p
              /\ bare /\ then.err = "none" => then.targets[1].provider \notin paused \cup {p}

(* A name that is served is a name the metrics know, unless an operator's  *)
(* retry_forever glob claims it: labels stay honest (KnownModel).          *)
ServedIsKnown ==
  \A name \in Names :
    Serves(name) /\ Claimants(LiveProviders(paused), Followed(aliases, name)) = {} => KnownModel(aliases, paused, name)

(* The promise of a route: names mean what the configuration says.         *)
NamesHold == RoutesTypeOK /\ AliasMeansItsEnd /\ PauseMovesItsOwn /\ ServedIsKnown

(* Every alias Validate accepts reaches the end of its chain: router.go:94 *)
(* says both sides enforce the same cap.                                   *)
SameHopCap == \A a \in DOMAIN aliases : Now(a) = Now(End(aliases, a))

(* KnownModel's comment: every name the tables can resolve is known.       *)
KnownIfServed == \A name \in Names : Serves(name) => KnownModel(aliases, paused, name)
=============================================================================
