--------------------------- MODULE GatewayProofs ----------------------------
(***************************************************************************)
(* What holds of every proxied request, for any accounts, requests, hold   *)
(* windows and bounds: the reply a client sees is one reply, its end is    *)
(* the truth, and what is replaced was never seen.                         *)
(*                                                                         *)
(* The argument follows the relay through its places.  Up to the head      *)
(* nothing is on the wire (Unsent); from the head on exactly the head is   *)
(* (Sent); what was returned tells the router which of the two it is       *)
(* (Outcome).  The pipeline starts an attempt only behind an outcome that  *)
(* left nothing on the wire (Stages).                                      *)
(***************************************************************************)
EXTENDS Gateway, TLAPS

Blank == w.heads = 0 /\ w.frames = 0

\* Before the head: nothing is written, nothing is decided.
Unsent ==
  pc \in {"head", "reserve", "gather", "corrupt", "junk", "open"} =>
    Blank /\ out = 0 /\ res = "none" /\ ~booked

\* After the head, before the return.
Sent ==
  /\ pc \in {"relay", "looped", "verdicts"} =>
       w.heads = 1 /\ w.frames = 0 /\ res = "none" /\ ~booked
  /\ pc = "verdicts" /\ ~gone => up = "eof" /\ out = Len(wire)

\* What a returned relay says of the wire.
Outcome ==
  pc = "idle" =>
    /\ res \in {"none"} \cup Failures => Blank /\ out = 0 /\ ~booked
    /\ res = "ok" => /\ w.heads = 1 /\ w.frames = 0 /\ booked
                     /\ ~gone => up = "eof" /\ out = Len(wire)
    /\ res = "committed" => /\ w.heads = 1 /\ w.frames \in {0, 1} /\ ~booked
                            /\ mode.sse /\ mode.named /\ ~gone => w.frames = 1

\* The reply reservation is held only while the whole reply is gathered.
ReplyHeld == reply => pc = "gather"

\* The first n chunks hold usable output.
TextBy(n) == \E k \in 1..n : wire[k] = "text"

\* A byte that is not UTF-8 inside the hold window comes after usable output.
CleanHead == \A i \in 1..Len(wire) : wire[i] = "bad" /\ i <= CorruptHold => TextBy(i)

\* The hold is over for good: no later chunk is part of the held head.
HoldOver == c >= CorruptHold \/ TextBy(c) \/ up # "open"

\* The held head of a streamed attempt that a sibling could serve.
Vetted ==
  mode.path = "pipe" =>
    /\ pc \notin {"reserve", "gather"}
    /\ pc = "head" => wire = <<>>
    /\ mode.failover /\ mode.text =>
         /\ pc = "corrupt" => /\ c < CorruptHold
                              /\ \A i \in 1..c : wire[i] \notin {"bad", "text"}
         /\ pc \in {"junk", "open", "relay", "looped", "verdicts"} => CleanHead /\ HoldOver
         /\ pc = "idle" => res = "none" \/ CleanHead \/ (out = 0 /\ benched)

RelayInv == RelayTypeOK /\ Unsent /\ Sent /\ Outcome /\ ReplyHeld /\ Vetted

\* Where the pipeline stands, and what the client can have seen by then.
Stages ==
  /\ stage \notin {"relay", "fastRelay"} => pc = "idle"
  /\ stage \in {"start", "fast", "fastCall", "reserve", "body", "route", "pick", "call"} => Blank
  /\ stage # "done" => errs = 0
  /\ stage = "done" => w.heads + errs <= 1 /\ holds = {}
  /\ stage \in {"fastCall", "call", "relay"} => acct \in Accounts
  /\ stage \in {"start", "fast"} => charged = 0
  /\ stage \in {"fastCall", "fastRelay", "reserve", "body"} => charged <= 1

IInv == RelayInv /\ GateTypeOK /\ Stages
-----------------------------------------------------------------------------
(* The chunks.                                                             *)

\* Reading on leaves what was read in place.
LEMMA PullGrows ==
  ASSUME RelayTypeOK, NEW p \in 0..Len(wire), Pull(p)
  PROVE  /\ wire' \in Seq(Kinds) /\ Len(wire') \in Nat /\ Len(wire') <= MaxWire
         /\ p + 1 <= Len(wire') /\ Len(wire) <= Len(wire')
         /\ \A k \in 1..Len(wire) : wire'[k] = wire[k]
         /\ wire' = wire \/ (up = "open" /\ p = Len(wire) /\ Len(wire') = Len(wire) + 1)
<1>0. wire \in Seq(Kinds) /\ Len(wire) \in Nat /\ Len(wire) <= MaxWire
  BY DEF RelayTypeOK
<1>1. CASE wire' = wire /\ p < Len(wire)
  BY <1>0, <1>1
<1>2. CASE p = Len(wire) /\ up = "open" /\ Len(wire) < MaxWire /\ \E k \in Kinds : wire' = Append(wire, k)
  <2> PICK k \in Kinds : wire' = Append(wire, k)
    BY <1>2
  <2> QED
    BY <1>0, <1>2, RelayAssumption
<1> QED
  BY <1>1, <1>2 DEF Pull

\* What a reader finds in the chunks it has observed.
LEMMA SeenText ==
  ASSUME NEW s \in Seq(Kinds), NEW n \in 0..Len(s)
  PROVE  /\ HasText(SubSeq(s, 1, n)) <=> \E k \in 1..n : s[k] = "text"
         /\ Corrupt(SubSeq(s, 1, n)) <=> \E k \in 1..n : s[k] = "bad"
<1>1. Len(SubSeq(s, 1, n)) = n /\ \A k \in 1..n : SubSeq(s, 1, n)[k] = s[k]
  OBVIOUS
<1> QED
  BY <1>1 DEF HasText, Corrupt

\* A held head that was released clean stays so, whatever is read behind it.
LEMMA ReleasedStays ==
  ASSUME RelayTypeOK, CleanHead, HoldOver, c' \in Nat, c <= c', c' <= Len(wire'),
         wire' = wire \/ \E p \in 0..Len(wire) : Pull(p),
         up' = up \/ up' # "open"
  PROVE  CleanHead' /\ HoldOver'
<1>0. /\ wire \in Seq(Kinds) /\ Len(wire) \in Nat /\ c \in 0..Len(wire)
      /\ CorruptHold \in Nat
  BY RelayAssumption DEF RelayTypeOK
<1>1. /\ Len(wire') \in Nat /\ Len(wire) <= Len(wire')
      /\ \A k \in 1..Len(wire) : wire'[k] = wire[k]
      /\ wire' = wire \/ (up = "open" /\ Len(wire') = Len(wire) + 1)
  BY <1>0, PullGrows
<1>2. HoldOver'
  BY <1>0, <1>1 DEF HoldOver, TextBy
<1>3. ASSUME NEW i \in 1..Len(wire'), wire'[i] = "bad", i <= CorruptHold
      PROVE  TextBy(i)'
  <2>1. CASE i \in 1..Len(wire)
    <3>1. TextBy(i)
      BY <1>1, <1>3, <2>1 DEF CleanHead
    <3>2. PICK k \in 1..i : wire[k] = "text"
      BY <3>1 DEF TextBy
    <3>3. k \in 1..Len(wire)
      BY <1>0, <2>1
    <3> QED
      BY <1>1, <3>2, <3>3 DEF TextBy
  <2>2. CASE i \notin 1..Len(wire)
    <3>1. up = "open" /\ c < i /\ ~(c >= CorruptHold)
      BY <1>0, <1>1, <1>3, <2>2
    <3>2. TextBy(c)
      BY <3>1 DEF HoldOver
    <3>3. PICK k \in 1..c : wire[k] = "text"
      BY <3>2 DEF TextBy
    <3>4. k \in 1..i /\ k \in 1..Len(wire)
      BY <1>0, <1>1, <3>1
    <3> QED
      BY <1>1, <3>3, <3>4 DEF TextBy
  <2> QED
    BY <2>1, <2>2
<1> QED
  BY <1>2, <1>3 DEF CleanHead
-----------------------------------------------------------------------------
(* One lemma per step of the relay.                                        *)

LEMMA InspectHeadStep == ASSUME RelayInv, InspectHead PROVE RelayInv'
<1>0. /\ RelayTypeOK /\ Unsent /\ Sent /\ Outcome /\ ReplyHeld /\ Vetted /\ pc = "head"
      /\ CorruptHold \in Nat \ {0} /\ mode \in Modes
  BY RelayAssumption DEF RelayInv, RelayTypeOK, InspectHead
<1>p. /\ wire' \in Seq(Kinds) /\ Len(wire') \in Nat /\ Len(wire') <= MaxWire
      /\ Len(wire) <= Len(wire')
      /\ Pull(0) => 0 + 1 <= Len(wire')
      /\ wire' = wire \/ Pull(0)
  BY <1>0, PullGrows DEF RelayTypeOK, InspectHead, Return, AfterHead, Drained, guards, marks
<1>1. RelayTypeOK'
  <2>1. /\ pc' \in {"idle", "gather", "corrupt"} /\ res' \in {res, "denied", "dead"}
        /\ reply' \in {reply, FALSE}
    BY <1>0, <1>p DEF RelayTypeOK, InspectHead, Return, AfterHead, guards
  <2>2. UNCHANGED <<mode, up, c, j, out, w, gone, benched, cooled, booked>>
    BY DEF InspectHead, Return, AfterHead, guards
  <2>3. w' \in [heads : Nat, frames : Nat]
    BY <1>0, <2>1, <2>2 DEF RelayTypeOK
  <2>4. {gone, benched, cooled, reply, booked}' \subseteq BOOLEAN
    BY <1>0, <2>1, <2>2 DEF RelayTypeOK, Modes
  <2>5. /\ wire' \in Seq(Kinds) /\ Len(wire') <= MaxWire
        /\ c' \in 0..Len(wire') /\ j' \in 0..Len(wire') /\ out' \in 0..Len(wire')
    BY <1>0, <1>p, <2>1, <2>2 DEF RelayTypeOK
  <2>6. res' \in {"none", "ok", "committed"} \cup Failures
    BY <1>0, <2>1, <2>2 DEF RelayTypeOK, Failures
  <2> QED
    BY <1>0, <2>1, <2>2, <2>3, <2>4, <2>5, <2>6 DEF RelayTypeOK
<1>2. Unsent' /\ Sent' /\ Outcome' /\ ReplyHeld'
  BY <1>0, <1>p DEF RelayTypeOK, Modes, Failures, Unsent, Sent, Outcome, ReplyHeld, Blank, InspectHead, Return, AfterHead, Drained, guards, marks
<1>3. Vetted'
  <2> SUFFICES ASSUME mode.path = "pipe" PROVE Vetted'
    BY DEF Vetted, InspectHead
  <2>1. wire = <<>> /\ c = 0 /\ UNCHANGED <<mode, c>>
    BY <1>0 DEF Vetted, RelayTypeOK, InspectHead, guards
  <2>2. CASE Pull(0) /\ wire'[1] = "deny" /\ Return("denied")
    <3>1. 1..Len(wire') \subseteq {1}
      <4>1. Len(wire) = 0 /\ 0 \in 0..Len(wire)
        BY <2>1
      <4>2. wire' = wire \/ Len(wire') = Len(wire) + 1
        BY <1>0, <2>2, <4>1, PullGrows
      <4>3. Len(wire') \in {0, 1}
        BY <4>1, <4>2
      <4>4. ASSUME NEW n \in {0, 1} PROVE 1..n \subseteq {1}
        OBVIOUS
      <4> QED
        BY <4>3, <4>4
    <3> QED
      BY <1>0, <2>1, <2>2, <3>1 DEF Vetted, CleanHead, Return
  <2>3. CASE Return("dead") /\ wire' = wire
    BY <1>0, <2>1, <2>3 DEF Vetted, CleanHead, Return
  <2>4. CASE pc' = "corrupt"
    BY <1>0, <2>1, <2>4 DEF Vetted
  <2> QED
    BY <1>0, <2>2, <2>3, <2>4 DEF InspectHead, AfterHead
<1> QED
  BY <1>1, <1>2, <1>3 DEF RelayInv

LEMMA CorruptPrefetchStep == ASSUME RelayInv, CorruptPrefetch PROVE RelayInv'
<1>0. /\ RelayTypeOK /\ Unsent /\ Sent /\ Outcome /\ ReplyHeld /\ Vetted /\ pc = "corrupt"
      /\ CorruptHold \in Nat \ {0} /\ mode \in Modes
  BY RelayAssumption DEF RelayInv, RelayTypeOK, CorruptPrefetch
<1>p. /\ wire' \in Seq(Kinds) /\ Len(wire') \in Nat /\ Len(wire') <= MaxWire
      /\ Len(wire) <= Len(wire')
      /\ Pull(c) => c + 1 <= Len(wire')
      /\ wire' = wire \/ Pull(c)
  BY <1>0, PullGrows DEF RelayTypeOK, CorruptPrefetch, Return, Seen, Drained, guards, marks
<1>1. RelayTypeOK'
  <2>0. c' \in 0..Len(wire')
    BY <1>0, <1>p DEF RelayTypeOK, CorruptPrefetch, Return
  <2>1. /\ pc' \in {"idle", "junk", "corrupt"} /\ res' \in {res, "corrupt"}
        /\ reply' \in {reply, FALSE} /\ benched' \in {benched, TRUE}
    BY <1>0 DEF RelayTypeOK, CorruptPrefetch, Return
  <2>2. UNCHANGED <<mode, up, j, out, w, gone, cooled, booked>>
    BY DEF CorruptPrefetch, Return
  <2>3. w' \in [heads : Nat, frames : Nat]
    BY <1>0, <2>1, <2>2 DEF RelayTypeOK
  <2>4. {gone, benched, cooled, reply, booked}' \subseteq BOOLEAN
    BY <1>0, <2>1, <2>2 DEF RelayTypeOK, Modes
  <2>5. /\ wire' \in Seq(Kinds) /\ Len(wire') <= MaxWire
        /\ c' \in 0..Len(wire') /\ j' \in 0..Len(wire') /\ out' \in 0..Len(wire')
    BY <1>0, <1>p, <2>0, <2>2 DEF RelayTypeOK
  <2>6. res' \in {"none", "ok", "committed"} \cup Failures
    BY <1>0, <2>1, <2>2 DEF RelayTypeOK, Failures
  <2> QED
    BY <1>0, <2>1, <2>2, <2>3, <2>4, <2>5, <2>6 DEF RelayTypeOK
<1>2. Unsent' /\ Sent' /\ Outcome' /\ ReplyHeld'
  BY <1>0, <1>p DEF RelayTypeOK, Modes, Failures, Unsent, Sent, Outcome, ReplyHeld, Blank, CorruptPrefetch, Return, Seen, Drained, guards, marks
<1>3. Vetted'
  <2> SUFFICES ASSUME mode.path = "pipe" PROVE Vetted'
    BY DEF Vetted, CorruptPrefetch
  <2>1. /\ mode.failover /\ mode.text /\ UNCHANGED <<mode, up, out>> /\ out = 0
        /\ c < CorruptHold /\ c \in 0..Len(wire)
        /\ \A i \in 1..c : wire[i] \notin {"bad", "text"}
    BY <1>0 DEF Vetted, Unsent, RelayTypeOK, CorruptPrefetch
  <2>2. CASE Drained(c)
    <3>1. c = Len(wire) /\ up # "open" /\ pc' = "junk" /\ UNCHANGED <<wire, c>>
      BY <1>0, <2>2 DEF CorruptPrefetch, Drained, Pull, RelayTypeOK
    <3> QED
      BY <2>1, <3>1 DEF Vetted, CleanHead, HoldOver
  <2>3. CASE Pull(c) /\ c' = c + 1 /\ Corrupt(Seen(c')) /\ Return("corrupt") /\ benched' = TRUE
    BY <2>1, <2>3 DEF Vetted, Return
  <2>4. CASE /\ Pull(c) /\ c' = c + 1 /\ ~Corrupt(Seen(c'))
             /\ pc' = IF c' >= CorruptHold \/ HasText(Seen(c')) THEN "junk" ELSE pc
    <3>1. c' \in 0..Len(wire')
      BY <1>0, <1>p, <2>1, <2>4
    <3>2. /\ \A i \in 1..c' : wire'[i] # "bad"
          /\ HasText(Seen(c')) <=> \E k \in 1..c' : wire'[k] = "text"
      BY <1>p, <2>4, <3>1, SeenText DEF Seen
    <3>3. CASE pc' = "corrupt"
      BY <1>0, <2>1, <2>4, <3>1, <3>2, <3>3 DEF Vetted
    <3>4. CASE pc' = "junk" /\ (c' >= CorruptHold \/ HasText(Seen(c')))
      <4>1. HoldOver'
        BY <3>2, <3>4 DEF HoldOver, TextBy
      <4>2. ASSUME NEW i \in 1..Len(wire'), wire'[i] = "bad", i <= CorruptHold
            PROVE  TextBy(i)'
        <5>1. c' < i /\ ~(c' >= CorruptHold)
          BY <1>0, <1>p, <3>1, <3>2, <4>2
        <5>2. PICK k \in 1..c' : wire'[k] = "text"
          BY <3>2, <3>4, <5>1
        <5> QED
          BY <1>p, <3>1, <5>1, <5>2 DEF TextBy
      <4> QED
        BY <3>4, <4>1, <4>2 DEF Vetted, CleanHead
    <3> QED
      BY <1>0, <2>4, <3>3, <3>4
  <2> QED
    BY <1>0, <2>2, <2>3, <2>4 DEF CorruptPrefetch
<1> QED
  BY <1>1, <1>2, <1>3 DEF RelayInv

LEMMA CorruptScanOnlyStep == ASSUME RelayInv, CorruptScanOnly PROVE RelayInv'
<1>0. /\ RelayTypeOK /\ Unsent /\ Sent /\ Outcome /\ ReplyHeld /\ Vetted /\ pc = "corrupt"
      /\ CorruptHold \in Nat \ {0} /\ mode \in Modes
  BY RelayAssumption DEF RelayInv, RelayTypeOK, CorruptScanOnly
<1>1. RelayTypeOK'
  BY <1>0 DEF RelayTypeOK, Modes, Failures, CorruptScanOnly, guards, marks
<1>2. Unsent' /\ Sent' /\ Outcome' /\ ReplyHeld'
  BY <1>0 DEF RelayTypeOK, Modes, Failures, Unsent, Sent, Outcome, ReplyHeld, Blank, CorruptScanOnly, guards, marks
<1>3. Vetted'
  BY <1>0, <1>1, ReleasedStays DEF RelayTypeOK, Vetted, CleanHead, HoldOver, TextBy, CorruptScanOnly, guards, marks
<1> QED
  BY <1>1, <1>2, <1>3 DEF RelayInv

LEMMA JunkPrefetchStep == ASSUME RelayInv, JunkPrefetch PROVE RelayInv'
<1>0. /\ RelayTypeOK /\ Unsent /\ Sent /\ Outcome /\ ReplyHeld /\ Vetted /\ pc = "junk"
      /\ CorruptHold \in Nat \ {0} /\ mode \in Modes
  BY RelayAssumption DEF RelayInv, RelayTypeOK, JunkPrefetch
<1>p. /\ wire' \in Seq(Kinds) /\ Len(wire') \in Nat /\ Len(wire') <= MaxWire
      /\ Len(wire) <= Len(wire')
      /\ Pull(j) => j + 1 <= Len(wire')
      /\ wire' = wire \/ Pull(j)
  BY <1>0, PullGrows DEF RelayTypeOK, JunkPrefetch, Return, Drained, guards, marks
<1>1. RelayTypeOK'
  <2>0. c' \in 0..Len(wire') /\ j' \in 0..Len(wire')
    BY <1>0, <1>p DEF RelayTypeOK, JunkPrefetch, Return, guards
  <2>1. /\ pc' \in {"idle", "junk", "open"} /\ res' \in {res, "junk"}
        /\ reply' \in {reply, FALSE} /\ benched' \in {benched, mode.failover}
    BY <1>0 DEF RelayTypeOK, JunkPrefetch, Return, guards
  <2>2. UNCHANGED <<mode, up, out, w, gone, cooled, booked>>
    BY DEF JunkPrefetch, Return, guards
  <2>3. w' \in [heads : Nat, frames : Nat]
    BY <1>0, <2>1, <2>2 DEF RelayTypeOK
  <2>4. {gone, benched, cooled, reply, booked}' \subseteq BOOLEAN
    BY <1>0, <2>1, <2>2 DEF RelayTypeOK, Modes
  <2>5. /\ wire' \in Seq(Kinds) /\ Len(wire') <= MaxWire
        /\ c' \in 0..Len(wire') /\ j' \in 0..Len(wire') /\ out' \in 0..Len(wire')
    BY <1>0, <1>p, <2>0, <2>2 DEF RelayTypeOK
  <2>6. res' \in {"none", "ok", "committed"} \cup Failures
    BY <1>0, <2>1, <2>2 DEF RelayTypeOK, Failures
  <2> QED
    BY <1>0, <2>1, <2>2, <2>3, <2>4, <2>5, <2>6 DEF RelayTypeOK
<1>2. Unsent' /\ Sent' /\ Outcome' /\ ReplyHeld'
  BY <1>0, <1>p DEF RelayTypeOK, Modes, Failures, Unsent, Sent, Outcome, ReplyHeld, Blank, JunkPrefetch, Return, Drained, guards, marks
<1>3. Vetted'
  BY <1>0, <1>p, <1>1, ReleasedStays DEF RelayTypeOK, Vetted, CleanHead, HoldOver, TextBy, JunkPrefetch, Return, Drained, guards, marks
<1> QED
  BY <1>1, <1>2, <1>3 DEF RelayInv

LEMMA JunkSkipStep == ASSUME RelayInv, JunkSkip PROVE RelayInv'
<1>0. /\ RelayTypeOK /\ Unsent /\ Sent /\ Outcome /\ ReplyHeld /\ Vetted /\ pc = "junk"
      /\ CorruptHold \in Nat \ {0} /\ mode \in Modes
  BY RelayAssumption DEF RelayInv, RelayTypeOK, JunkSkip
<1>1. RelayTypeOK'
  BY <1>0 DEF RelayTypeOK, Modes, Failures, JunkSkip, guards, marks
<1>2. Unsent' /\ Sent' /\ Outcome' /\ ReplyHeld'
  BY <1>0 DEF RelayTypeOK, Modes, Failures, Unsent, Sent, Outcome, ReplyHeld, Blank, JunkSkip, guards, marks
<1>3. Vetted'
  BY <1>0, <1>1, ReleasedStays DEF RelayTypeOK, Vetted, CleanHead, HoldOver, TextBy, JunkSkip, guards, marks
<1> QED
  BY <1>1, <1>2, <1>3 DEF RelayInv

LEMMA WriteHeadStep == ASSUME RelayInv, WriteHead PROVE RelayInv'
<1>0. /\ RelayTypeOK /\ Unsent /\ Sent /\ Outcome /\ ReplyHeld /\ Vetted /\ pc = "open"
      /\ CorruptHold \in Nat \ {0} /\ mode \in Modes
  BY RelayAssumption DEF RelayInv, RelayTypeOK, WriteHead
<1>1. RelayTypeOK'
  BY <1>0 DEF RelayTypeOK, Modes, Failures, WriteHead, guards, marks
<1>2. Unsent' /\ Sent' /\ Outcome' /\ ReplyHeld'
  BY <1>0 DEF RelayTypeOK, Modes, Failures, Unsent, Sent, Outcome, ReplyHeld, Blank, WriteHead, guards, marks
<1>3. Vetted'
  BY <1>0, <1>1, ReleasedStays DEF RelayTypeOK, Vetted, CleanHead, HoldOver, TextBy, WriteHead, guards, marks
<1> QED
  BY <1>1, <1>2, <1>3 DEF RelayInv

LEMMA CopyStep == ASSUME RelayInv, Copy PROVE RelayInv'
<1>0. /\ RelayTypeOK /\ Unsent /\ Sent /\ Outcome /\ ReplyHeld /\ Vetted /\ pc = "relay"
      /\ CorruptHold \in Nat \ {0} /\ mode \in Modes
  BY RelayAssumption DEF RelayInv, RelayTypeOK, Copy
<1>p. /\ wire' \in Seq(Kinds) /\ Len(wire') \in Nat /\ Len(wire') <= MaxWire
      /\ Len(wire) <= Len(wire')
      /\ Pull(out) => out + 1 <= Len(wire')
      /\ wire' = wire \/ Pull(out)
  BY <1>0, PullGrows DEF RelayTypeOK, Copy
<1>d. \/ out' = out + 1 /\ UNCHANGED <<pc, up, w, res, cooled, reply>>
      \/ pc' = "looped" /\ up' = "broken" /\ UNCHANGED <<out, w, res, cooled, reply>>
      \/ Commit /\ Frame /\ cooled' \in {cooled, TRUE} /\ UNCHANGED <<out, up>>
  BY DEF Copy, Stops
<1>g. /\ ~gone /\ Pull(out) /\ UNCHANGED <<mode, gone, benched, booked>>
      /\ j' = IF j < out + 1 THEN out + 1 ELSE j
      /\ c' = IF c < out + 1 THEN out + 1 ELSE c
  BY DEF Copy
<1>n. /\ {c, j, out, Len(wire), Len(wire')} \subseteq Nat /\ Len(wire) <= Len(wire')
      /\ c <= Len(wire) /\ j <= Len(wire) /\ out <= Len(wire) /\ out + 1 <= Len(wire')
  BY <1>0, <1>p, <1>g DEF RelayTypeOK
<1>m. /\ out' \in {out, out + 1} /\ (up' = up \/ up' # "open")
      /\ j' = IF j < out + 1 THEN out + 1 ELSE j
      /\ c' = IF c < out + 1 THEN out + 1 ELSE c
  BY <1>d, <1>g
<1>1. RelayTypeOK'
  <2>0. /\ c' \in 0..Len(wire') /\ j' \in 0..Len(wire') /\ out' \in 0..Len(wire')
    BY <1>n, <1>m
  <2>1. /\ pc' \in {"idle", "relay", "looped"} /\ res' \in {res, "committed"}
        /\ up' \in {up, "broken"} /\ reply' = reply /\ cooled' \in {cooled, TRUE}
        /\ w' \in {w, [w EXCEPT !.frames = @ + 1]}
    BY <1>0, <1>d DEF RelayTypeOK, Commit, Frame
  <2>2. UNCHANGED <<mode, gone, benched, booked>>
    BY <1>g
  <2>3. w' \in [heads : Nat, frames : Nat]
    BY <1>0, <2>1, <2>2 DEF RelayTypeOK
  <2>4. {gone, benched, cooled, reply, booked}' \subseteq BOOLEAN
    BY <1>0, <2>1, <2>2 DEF RelayTypeOK, Modes
  <2>5. /\ wire' \in Seq(Kinds) /\ Len(wire') <= MaxWire
        /\ c' \in 0..Len(wire') /\ j' \in 0..Len(wire') /\ out' \in 0..Len(wire')
    BY <1>0, <1>p, <2>0, <2>2 DEF RelayTypeOK
  <2>6. res' \in {"none", "ok", "committed"} \cup Failures
    BY <1>0, <2>1, <2>2 DEF RelayTypeOK, Failures
  <2> QED
    BY <1>0, <2>1, <2>2, <2>3, <2>4, <2>5, <2>6 DEF RelayTypeOK
<1>2. Unsent' /\ Sent' /\ Outcome' /\ ReplyHeld'
  <2>1. CASE out' = out + 1 /\ UNCHANGED <<pc, up, w, res, cooled, reply>>
    BY <1>0, <1>g, <2>1 DEF RelayTypeOK, Unsent, Sent, Outcome, ReplyHeld, Blank
  <2>2. CASE pc' = "looped" /\ up' = "broken" /\ UNCHANGED <<out, w, res, cooled, reply>>
    BY <1>0, <1>g, <2>2 DEF RelayTypeOK, Unsent, Sent, Outcome, ReplyHeld, Blank
  <2>3. CASE Commit /\ Frame /\ cooled' \in {cooled, TRUE} /\ UNCHANGED <<out, up>>
    BY <1>0, <1>g, <2>3 DEF RelayTypeOK, Modes, Failures, Unsent, Sent, Outcome, ReplyHeld, Blank, Commit, Frame
  <2> QED
    BY <1>d, <2>1, <2>2, <2>3
<1>3. Vetted'
  <2> SUFFICES ASSUME mode.path = "pipe", mode.failover, mode.text PROVE Vetted'
    BY <1>0, <1>d, <1>g DEF Vetted, Commit
  <2>1. CleanHead /\ HoldOver /\ UNCHANGED mode
    BY <1>0 DEF Vetted, Copy
  <2>2. c' \in Nat /\ c <= c' /\ c' <= Len(wire') /\ (up' = up \/ up' # "open")
    BY <1>n, <1>m
  <2>3. \E p \in 0..Len(wire) : Pull(p)
    BY <1>0 DEF Copy, RelayTypeOK
  <2>4. CleanHead' /\ HoldOver'
    BY <1>0, <2>1, <2>2, <2>3, ReleasedStays
  <2>5. pc' \in {"idle", "relay", "looped"}
    BY <1>0, <1>d DEF Commit
  <2> QED
    BY <2>1, <2>4, <2>5 DEF Vetted
<1> QED
  BY <1>1, <1>2, <1>3 DEF RelayInv

LEMMA CopyEndStep == ASSUME RelayInv, CopyEnd PROVE RelayInv'
<1>0. /\ RelayTypeOK /\ Unsent /\ Sent /\ Outcome /\ ReplyHeld /\ Vetted /\ pc = "relay"
      /\ CorruptHold \in Nat \ {0} /\ mode \in Modes
  BY RelayAssumption DEF RelayInv, RelayTypeOK, CopyEnd
<1>1. RelayTypeOK'
  BY <1>0 DEF RelayTypeOK, Modes, Failures, CopyEnd, Commit, Frame, guards, marks
<1>2. Unsent' /\ Sent' /\ Outcome' /\ ReplyHeld'
  BY <1>0 DEF RelayTypeOK, Modes, Failures, Unsent, Sent, Outcome, ReplyHeld, Blank, CopyEnd, Commit, Frame, guards, marks
<1>3. Vetted'
  BY <1>0, <1>1, ReleasedStays DEF RelayTypeOK, Vetted, CleanHead, HoldOver, TextBy, CopyEnd, Commit, Frame, guards, marks
<1> QED
  BY <1>1, <1>2, <1>3 DEF RelayInv

LEMMA CopyBrokenStep == ASSUME RelayInv, CopyBroken PROVE RelayInv'
<1>0. /\ RelayTypeOK /\ Unsent /\ Sent /\ Outcome /\ ReplyHeld /\ Vetted /\ pc = "relay"
      /\ CorruptHold \in Nat \ {0} /\ mode \in Modes
  BY RelayAssumption DEF RelayInv, RelayTypeOK, CopyBroken
<1>1. RelayTypeOK'
  <2>1. cooled' \in BOOLEAN
    BY <1>0 DEF RelayTypeOK, CopyBroken
  <2> QED
    BY <1>0, <2>1 DEF RelayTypeOK, Modes, Failures, CopyBroken, Commit, Frame, guards
<1>2. Unsent' /\ Sent' /\ Outcome' /\ ReplyHeld'
  BY <1>0 DEF RelayTypeOK, Modes, Failures, Unsent, Sent, Outcome, ReplyHeld, Blank, CopyBroken, Commit, Frame, guards, marks
<1>3. Vetted'
  BY <1>0, <1>1, ReleasedStays DEF RelayTypeOK, Vetted, CleanHead, HoldOver, TextBy, CopyBroken, Commit, Frame, guards, marks
<1> QED
  BY <1>1, <1>2, <1>3 DEF RelayInv

LEMMA CopyGoneStep == ASSUME RelayInv, CopyGone PROVE RelayInv'
<1>0. /\ RelayTypeOK /\ Unsent /\ Sent /\ Outcome /\ ReplyHeld /\ Vetted /\ pc = "relay"
      /\ CorruptHold \in Nat \ {0} /\ mode \in Modes
  BY RelayAssumption DEF RelayInv, RelayTypeOK, CopyGone
<1>1. RelayTypeOK'
  BY <1>0 DEF RelayTypeOK, Modes, Failures, CopyGone, Commit, guards, marks
<1>2. Unsent' /\ Sent' /\ Outcome' /\ ReplyHeld'
  BY <1>0 DEF RelayTypeOK, Modes, Failures, Unsent, Sent, Outcome, ReplyHeld, Blank, CopyGone, Commit, guards, marks
<1>3. Vetted'
  BY <1>0, <1>1, ReleasedStays DEF RelayTypeOK, Vetted, CleanHead, HoldOver, TextBy, CopyGone, Commit, guards, marks
<1> QED
  BY <1>1, <1>2, <1>3 DEF RelayInv

LEMMA LoopEndStep == ASSUME RelayInv, LoopEnd PROVE RelayInv'
<1>0. /\ RelayTypeOK /\ Unsent /\ Sent /\ Outcome /\ ReplyHeld /\ Vetted /\ pc = "looped"
      /\ CorruptHold \in Nat \ {0} /\ mode \in Modes
  BY RelayAssumption DEF RelayInv, RelayTypeOK, LoopEnd
<1>1. RelayTypeOK'
  BY <1>0 DEF RelayTypeOK, Modes, Failures, LoopEnd, Commit, Frame, guards, marks
<1>2. Unsent' /\ Sent' /\ Outcome' /\ ReplyHeld'
  BY <1>0 DEF RelayTypeOK, Modes, Failures, Unsent, Sent, Outcome, ReplyHeld, Blank, LoopEnd, Commit, Frame, guards, marks
<1>3. Vetted'
  BY <1>0, <1>1, ReleasedStays DEF RelayTypeOK, Vetted, CleanHead, HoldOver, TextBy, LoopEnd, Commit, Frame, guards, marks
<1> QED
  BY <1>1, <1>2, <1>3 DEF RelayInv

LEMMA VerdictsStep == ASSUME RelayInv, Verdicts PROVE RelayInv'
<1>0. /\ RelayTypeOK /\ Unsent /\ Sent /\ Outcome /\ ReplyHeld /\ Vetted /\ pc = "verdicts"
      /\ CorruptHold \in Nat \ {0} /\ mode \in Modes
  BY RelayAssumption DEF RelayInv, RelayTypeOK, Verdicts
<1>1. RelayTypeOK'
  BY <1>0 DEF RelayTypeOK, Modes, Failures, Verdicts, guards, marks
<1>2. Unsent' /\ Sent' /\ Outcome' /\ ReplyHeld'
  BY <1>0 DEF RelayTypeOK, Modes, Failures, Unsent, Sent, Outcome, ReplyHeld, Blank, Verdicts, guards, marks
<1>3. Vetted'
  BY <1>0, <1>1, ReleasedStays DEF RelayTypeOK, Vetted, CleanHead, HoldOver, TextBy, Verdicts, guards, marks
<1> QED
  BY <1>1, <1>2, <1>3 DEF RelayInv

LEMMA ReserveStep == ASSUME RelayInv, Reserve PROVE RelayInv'
<1>0. /\ RelayTypeOK /\ Unsent /\ Sent /\ Outcome /\ ReplyHeld /\ Vetted /\ pc = "reserve"
      /\ CorruptHold \in Nat \ {0} /\ mode \in Modes
  BY RelayAssumption DEF RelayInv, RelayTypeOK, Reserve
<1>1. RelayTypeOK'
  <2>1. /\ pc' \in {"idle", "gather"} /\ res' \in {res, "saturated"} /\ reply' \in {TRUE, FALSE}
    BY <1>0 DEF RelayTypeOK, Reserve, Return, guards
  <2>2. UNCHANGED <<mode, wire, up, c, j, out, w, gone, benched, cooled, booked>>
    BY DEF Reserve, Return, guards
  <2>3. w' \in [heads : Nat, frames : Nat]
    BY <1>0, <2>1, <2>2 DEF RelayTypeOK
  <2>4. {gone, benched, cooled, reply, booked}' \subseteq BOOLEAN
    BY <1>0, <2>1, <2>2 DEF RelayTypeOK, Modes
  <2>5. /\ wire' \in Seq(Kinds) /\ Len(wire') <= MaxWire
        /\ c' \in 0..Len(wire') /\ j' \in 0..Len(wire') /\ out' \in 0..Len(wire')
    BY <1>0, <2>1, <2>2 DEF RelayTypeOK
  <2>6. res' \in {"none", "ok", "committed"} \cup Failures
    BY <1>0, <2>1, <2>2 DEF RelayTypeOK, Failures
  <2> QED
    BY <1>0, <2>1, <2>2, <2>3, <2>4, <2>5, <2>6 DEF RelayTypeOK
<1>2. Unsent' /\ Sent' /\ Outcome' /\ ReplyHeld'
  BY <1>0 DEF RelayTypeOK, Modes, Failures, Unsent, Sent, Outcome, ReplyHeld, Blank, Reserve, Return, guards, marks
<1>3. Vetted'
  BY <1>0, <1>1, ReleasedStays DEF RelayTypeOK, Vetted, CleanHead, HoldOver, TextBy, Reserve, Return, guards, marks
<1> QED
  BY <1>1, <1>2, <1>3 DEF RelayInv

LEMMA GatherStep == ASSUME RelayInv, Gather PROVE RelayInv'
<1>0. /\ RelayTypeOK /\ Unsent /\ Sent /\ Outcome /\ ReplyHeld /\ Vetted /\ pc = "gather"
      /\ CorruptHold \in Nat \ {0} /\ mode \in Modes
  BY RelayAssumption DEF RelayInv, RelayTypeOK, Gather
<1>p. /\ wire' \in Seq(Kinds) /\ Len(wire') \in Nat /\ Len(wire') <= MaxWire
      /\ Len(wire) <= Len(wire')
      /\ Pull(c) => c + 1 <= Len(wire')
      /\ wire' = wire \/ Pull(c)
  BY <1>0, PullGrows DEF RelayTypeOK, Gather, Return, guards, marks
<1>1. RelayTypeOK'
  <2>0. c' \in 0..Len(wire')
    BY <1>0, <1>p DEF RelayTypeOK, Gather, Return
  <2>1. /\ pc' \in {"idle", "gather"} /\ res' \in {res, "denied", "large"}
        /\ reply' \in {reply, FALSE} /\ cooled' \in {cooled, TRUE}
    BY <1>0 DEF RelayTypeOK, Gather, Return
  <2>2. UNCHANGED <<mode, up, j, out, w, gone, benched, booked>>
    BY DEF Gather, Return
  <2>3. w' \in [heads : Nat, frames : Nat]
    BY <1>0, <2>1, <2>2 DEF RelayTypeOK
  <2>4. {gone, benched, cooled, reply, booked}' \subseteq BOOLEAN
    BY <1>0, <2>1, <2>2 DEF RelayTypeOK, Modes
  <2>5. /\ wire' \in Seq(Kinds) /\ Len(wire') <= MaxWire
        /\ c' \in 0..Len(wire') /\ j' \in 0..Len(wire') /\ out' \in 0..Len(wire')
    BY <1>0, <1>p, <2>0, <2>2 DEF RelayTypeOK
  <2>6. res' \in {"none", "ok", "committed"} \cup Failures
    BY <1>0, <2>1, <2>2 DEF RelayTypeOK, Failures
  <2> QED
    BY <1>0, <2>1, <2>2, <2>3, <2>4, <2>5, <2>6 DEF RelayTypeOK
<1>2. Unsent' /\ Sent' /\ Outcome' /\ ReplyHeld'
  BY <1>0, <1>p DEF RelayTypeOK, Modes, Failures, Unsent, Sent, Outcome, ReplyHeld, Blank, Gather, Return, guards, marks
<1>3. Vetted'
  BY <1>0, <1>p, <1>1, ReleasedStays DEF RelayTypeOK, Vetted, CleanHead, HoldOver, TextBy, Gather, Return, guards, marks
<1> QED
  BY <1>1, <1>2, <1>3 DEF RelayInv

LEMMA GatheredStep == ASSUME RelayInv, Gathered PROVE RelayInv'
<1>0. /\ RelayTypeOK /\ Unsent /\ Sent /\ Outcome /\ ReplyHeld /\ Vetted /\ pc = "gather"
      /\ CorruptHold \in Nat \ {0} /\ mode \in Modes
  BY RelayAssumption DEF RelayInv, RelayTypeOK, Gathered
<1>1. RelayTypeOK'
  <2>1. /\ pc' = "idle" /\ res' \in {"ok", "dead", "codec"} /\ reply' = FALSE
        /\ booked' \in {booked, TRUE} /\ out' \in {out, Len(wire)}
        /\ w' \in {w, [w EXCEPT !.heads = @ + 1]}
    BY <1>0 DEF RelayTypeOK, Gathered, Return, guards
  <2>2. UNCHANGED <<mode, wire, up, c, j, gone, benched, cooled>>
    BY DEF Gathered, Return, guards
  <2>3. w' \in [heads : Nat, frames : Nat]
    BY <1>0, <2>1, <2>2 DEF RelayTypeOK
  <2>4. {gone, benched, cooled, reply, booked}' \subseteq BOOLEAN
    BY <1>0, <2>1, <2>2 DEF RelayTypeOK, Modes
  <2>5. /\ wire' \in Seq(Kinds) /\ Len(wire') <= MaxWire
        /\ c' \in 0..Len(wire') /\ j' \in 0..Len(wire') /\ out' \in 0..Len(wire')
    BY <1>0, <2>1, <2>2 DEF RelayTypeOK
  <2>6. res' \in {"none", "ok", "committed"} \cup Failures
    BY <1>0, <2>1, <2>2 DEF RelayTypeOK, Failures
  <2> QED
    BY <1>0, <2>1, <2>2, <2>3, <2>4, <2>5, <2>6 DEF RelayTypeOK
<1>2. Unsent' /\ Sent' /\ Outcome' /\ ReplyHeld'
  BY <1>0 DEF RelayTypeOK, Modes, Failures, Unsent, Sent, Outcome, ReplyHeld, Blank, Gathered, Return, Drained, guards, marks
<1>3. Vetted'
  BY <1>0, <1>1, ReleasedStays DEF RelayTypeOK, Vetted, CleanHead, HoldOver, TextBy, Gathered, Return, Drained, guards, marks
<1> QED
  BY <1>1, <1>2, <1>3 DEF RelayInv
(* The world around a relay: upstream ends its body, the client leaves,   *)
(* the idle timer fires.                                                   *)
LEMMA WorldStep ==
  ASSUME RelayInv, UpEnds \/ ClientLeaves \/ IdleKill
  PROVE  RelayInv'
<1>0. /\ RelayTypeOK /\ Unsent /\ Sent /\ Outcome /\ ReplyHeld /\ Vetted
      /\ UNCHANGED <<mode, pc, wire, c, j, out, w, res, benched, cooled, reply, booked>>
      /\ pc # "idle"
      /\ up' \in {up, "eof", "broken"} /\ (up # "open" => up' = up)
      /\ gone' \in {gone, TRUE} /\ (gone' = gone \/ up' # "open")
  BY DEF RelayInv, RelayTypeOK, UpEnds, ClientLeaves, IdleKill, Running, guards, marks
<1>1. RelayTypeOK'
  BY <1>0 DEF RelayTypeOK
<1>2. Unsent' /\ Sent' /\ Outcome' /\ ReplyHeld'
  BY <1>0 DEF RelayTypeOK, Unsent, Sent, Outcome, ReplyHeld, Blank
<1>3. Vetted'
  BY <1>0 DEF Vetted, CleanHead, HoldOver, TextBy
<1> QED
  BY <1>1, <1>2, <1>3 DEF RelayInv

\* A relay begins with nothing on the wire.
LEMMA BeginStep ==
  ASSUME RelayInv, Blank, NEW m \in Modes, Begin(m), UNCHANGED <<w, gone>>
  PROVE  RelayInv'
<1>0. /\ mode' = m /\ pc' = Entry(m) /\ wire' = <<>> /\ up' = "open"
      /\ c' = 0 /\ j' = 0 /\ out' = 0 /\ res' = "none" /\ w' = w /\ gone' = gone
      /\ benched' = FALSE /\ cooled' = FALSE /\ reply' = FALSE /\ booked' = FALSE
      /\ Len(wire') = 0 /\ MaxWire \in Nat /\ CorruptHold \in Nat \ {0}
      /\ m.path \in {"pipe", "aggregate", "buffered"}
  BY RelayAssumption DEF Begin, Modes
<1>1. pc' \in {"head", "gather", "reserve", "corrupt"} /\ (m.path = "pipe" => pc' \in {"head", "corrupt"})
  BY <1>0 DEF Entry
<1>2. RelayTypeOK'
  <2>1. wire' \in Seq(Kinds) /\ Len(wire') <= MaxWire
    BY <1>0
  <2>2. w' \in [heads : Nat, frames : Nat] /\ {gone, benched, cooled, reply, booked}' \subseteq BOOLEAN
    BY <1>0 DEF RelayInv, RelayTypeOK
  <2> QED
    BY <1>0, <1>1, <2>1, <2>2 DEF RelayTypeOK
<1>3. Unsent' /\ Sent' /\ Outcome' /\ ReplyHeld'
  BY <1>0, <1>1 DEF Unsent, Sent, Outcome, ReplyHeld, Blank
<1>4. Vetted'
  BY <1>0, <1>1 DEF Vetted
<1> QED
  BY <1>2, <1>3, <1>4 DEF RelayInv

LEMMA RelayKept == ASSUME RelayInv, UNCHANGED relayVars PROVE RelayInv'
<1>0. UNCHANGED <<mode, pc, wire, up, c, j, out, w, res, gone, benched, cooled, reply, booked>>
  BY DEF relayVars
<1>1. RelayTypeOK'
  BY <1>0 DEF RelayInv, RelayTypeOK
<1>2. Unsent' /\ Sent' /\ Outcome' /\ ReplyHeld'
  BY <1>0 DEF RelayInv, Unsent, Sent, Outcome, ReplyHeld, Blank
<1>3. Vetted'
  BY <1>0 DEF RelayInv, Vetted, CleanHead, HoldOver, TextBy
<1> QED
  BY <1>1, <1>2, <1>3 DEF RelayInv

LEMMA RelayStepInv == ASSUME RelayInv, RelayStep PROVE RelayInv'
  BY InspectHeadStep, CorruptPrefetchStep, CorruptScanOnlyStep, JunkPrefetchStep, JunkSkipStep,
     WriteHeadStep, CopyStep, CopyEndStep, CopyBrokenStep, CopyGoneStep, LoopEndStep, VerdictsStep,
     ReserveStep, GatherStep, GatheredStep DEF RelayStep

-----------------------------------------------------------------------------
(* The pipeline.                                                           *)

LEMMA InitIInv == ASSUME Init PROVE IInv
<1>0. /\ mode \in Modes /\ wire = <<>> /\ Len(wire) = 0 /\ MaxWire \in Nat /\ MaxTries \in Nat
      /\ pc = "idle" /\ up = "open" /\ c = 0 /\ j = 0 /\ out = 0 /\ stage = "start"
      /\ w = [heads |-> 0, frames |-> 0] /\ res = "none" /\ gone = FALSE
      /\ benched = FALSE /\ cooled = FALSE /\ reply = FALSE /\ booked = FALSE
      /\ req \in Requests /\ holds = {} /\ charged = 0 /\ errs = 0 /\ tries = 0
      /\ acct = "none" /\ limited = {} /\ pruned = FALSE
  BY RelayAssumption, GatewayAssumption DEF Init, Handed, Idle
<1>1. RelayTypeOK
  <2>1. wire \in Seq(Kinds) /\ Len(wire) <= MaxWire
    BY <1>0
  <2>2. w \in [heads : Nat, frames : Nat] /\ {gone, benched, cooled, reply, booked} \subseteq BOOLEAN
    BY <1>0
  <2> QED
    BY <1>0, <2>1, <2>2 DEF RelayTypeOK
<1>2. Unsent /\ Sent /\ Outcome /\ ReplyHeld /\ Vetted
  BY <1>0 DEF Unsent, Sent, Outcome, ReplyHeld, Vetted, Blank, CleanHead, Failures
<1>3. GateTypeOK
  <2>1. holds \subseteq {"stream", "body"} /\ limited \subseteq Accounts /\ tries \in 0..MaxTries
    BY <1>0
  <2>2. req \in Requests /\ charged \in 0..2 /\ errs \in Nat
    BY <1>0
  <2>3. pruned \in BOOLEAN
    BY <1>0
  <2>4. stage = "start" /\ acct = "none"
    BY <1>0
  <2> QED
    BY <2>1, <2>2, <2>3, <2>4 DEF GateTypeOK
<1>4. Stages
  BY <1>0 DEF Stages, Blank
<1> QED
  BY <1>1, <1>2, <1>3, <1>4 DEF IInv, RelayInv

LEMMA StartGate == ASSUME IInv, Start PROVE IInv'
<1>0. /\ RelayInv /\ RelayTypeOK /\ Outcome /\ GateTypeOK /\ Stages /\ stage = "start" /\ UNCHANGED relayVars
      /\ UNCHANGED <<pc, w>> /\ MaxTries \in Nat
  BY GatewayAssumption DEF IInv, RelayInv, Start, relayVars
<1>1. RelayInv'
  BY <1>0, RelayKept
<1>2. GateTypeOK'
  <2>1. errs' \in Nat /\ charged' \in 0..2 /\ tries' \in 0..MaxTries
    BY <1>0 DEF GateTypeOK, Stages, Start, Refuse
  <2>2. holds' \subseteq {"stream", "body"} /\ limited' \subseteq Accounts
    BY <1>0 DEF GateTypeOK, Stages, Start, Refuse, Leave
  <2>3. stage' \in {"start", "fast", "fastCall", "fastRelay", "reserve", "body", "route",
                    "pick", "call", "relay", "over", "done"}
    BY <1>0 DEF GateTypeOK, Start, Refuse, Leave
  <2> QED
    BY <1>0, <2>1, <2>2, <2>3 DEF GateTypeOK, Start, Refuse, Leave
<1>3. Stages'
  BY <1>0 DEF RelayTypeOK, GateTypeOK, Stages, Outcome, Blank, Start, Refuse, Leave
<1> QED
  BY <1>1, <1>2, <1>3 DEF IInv

LEMMA FastReserveGate == ASSUME IInv, FastReserve PROVE IInv'
<1>0. /\ RelayInv /\ RelayTypeOK /\ Outcome /\ GateTypeOK /\ Stages /\ stage = "fast" /\ UNCHANGED relayVars
      /\ UNCHANGED <<pc, w>> /\ MaxTries \in Nat
  BY GatewayAssumption DEF IInv, RelayInv, FastReserve, relayVars
<1>1. RelayInv'
  BY <1>0, RelayKept
<1>2. GateTypeOK'
  BY <1>0 DEF GateTypeOK, Stages, FastReserve, Refuse, Leave
<1>3. Stages'
  BY <1>0 DEF RelayTypeOK, GateTypeOK, Stages, Outcome, Blank, FastReserve, Refuse, Leave
<1> QED
  BY <1>1, <1>2, <1>3 DEF IInv

LEMMA FastDeclineGate == ASSUME IInv, FastDecline PROVE IInv'
<1>0. /\ RelayInv /\ RelayTypeOK /\ Outcome /\ GateTypeOK /\ Stages /\ stage = "fast" /\ UNCHANGED relayVars
      /\ UNCHANGED <<pc, w>> /\ MaxTries \in Nat
  BY GatewayAssumption DEF IInv, RelayInv, FastDecline, relayVars
<1>1. RelayInv'
  BY <1>0, RelayKept
<1>2. GateTypeOK'
  BY <1>0 DEF GateTypeOK, Stages, FastDecline, Refuse, Leave
<1>3. Stages'
  BY <1>0 DEF RelayTypeOK, GateTypeOK, Stages, Outcome, Blank, FastDecline, Refuse, Leave
<1> QED
  BY <1>1, <1>2, <1>3 DEF IInv

LEMMA FastAdmitGate == ASSUME IInv, FastAdmit PROVE IInv'
<1>0. /\ RelayInv /\ RelayTypeOK /\ Outcome /\ GateTypeOK /\ Stages /\ stage = "fast" /\ UNCHANGED relayVars
      /\ UNCHANGED <<pc, w>> /\ MaxTries \in Nat
  BY GatewayAssumption DEF IInv, RelayInv, FastAdmit, relayVars
<1>1. RelayInv'
  BY <1>0, RelayKept
<1>2. GateTypeOK'
  <2>1. errs' \in Nat /\ charged' \in 0..2 /\ tries' \in 0..MaxTries
    BY <1>0 DEF GateTypeOK, Stages, FastAdmit, Refuse
  <2>2. holds' \subseteq {"stream", "body"} /\ limited' \subseteq Accounts
    BY <1>0 DEF GateTypeOK, Stages, FastAdmit, Refuse, Leave
  <2>3. stage' \in {"start", "fast", "fastCall", "fastRelay", "reserve", "body", "route",
                    "pick", "call", "relay", "over", "done"}
    BY <1>0 DEF GateTypeOK, FastAdmit, Refuse, Leave
  <2> QED
    BY <1>0, <2>1, <2>2, <2>3 DEF GateTypeOK, FastAdmit, Refuse, Leave
<1>3. Stages'
  BY <1>0 DEF RelayTypeOK, GateTypeOK, Stages, Outcome, Blank, FastAdmit, Refuse, Leave
<1> QED
  BY <1>1, <1>2, <1>3 DEF IInv

LEMMA FastReturnGate == ASSUME IInv, FastReturn PROVE IInv'
<1>0. /\ RelayInv /\ RelayTypeOK /\ Outcome /\ GateTypeOK /\ Stages /\ stage = "fastRelay" /\ UNCHANGED relayVars
      /\ UNCHANGED <<pc, w>> /\ MaxTries \in Nat
  BY GatewayAssumption DEF IInv, RelayInv, FastReturn, relayVars
<1>1. RelayInv'
  BY <1>0, RelayKept
<1>2. GateTypeOK'
  BY <1>0 DEF GateTypeOK, Stages, FastReturn, Refuse, Leave, Returned
<1>3. Stages'
  BY <1>0 DEF RelayTypeOK, GateTypeOK, Stages, Outcome, Blank, FastReturn, Refuse, Leave, Returned
<1> QED
  BY <1>1, <1>2, <1>3 DEF IInv

LEMMA BodyReserveGate == ASSUME IInv, BodyReserve PROVE IInv'
<1>0. /\ RelayInv /\ RelayTypeOK /\ Outcome /\ GateTypeOK /\ Stages /\ stage = "reserve" /\ UNCHANGED relayVars
      /\ UNCHANGED <<pc, w>> /\ MaxTries \in Nat
  BY GatewayAssumption DEF IInv, RelayInv, BodyReserve, relayVars
<1>1. RelayInv'
  BY <1>0, RelayKept
<1>2. GateTypeOK'
  <2>1. errs' \in Nat /\ charged' \in 0..2 /\ tries' \in 0..MaxTries
    BY <1>0 DEF GateTypeOK, Stages, BodyReserve, Refuse
  <2>2. holds' \subseteq {"stream", "body"} /\ limited' \subseteq Accounts
    BY <1>0 DEF GateTypeOK, Stages, BodyReserve, Refuse, Leave
  <2>3. stage' \in {"start", "fast", "fastCall", "fastRelay", "reserve", "body", "route",
                    "pick", "call", "relay", "over", "done"}
    BY <1>0 DEF GateTypeOK, BodyReserve, Refuse, Leave
  <2> QED
    BY <1>0, <2>1, <2>2, <2>3 DEF GateTypeOK, BodyReserve, Refuse, Leave
<1>3. Stages'
  BY <1>0 DEF RelayTypeOK, GateTypeOK, Stages, Outcome, Blank, BodyReserve, Refuse, Leave
<1> QED
  BY <1>1, <1>2, <1>3 DEF IInv

LEMMA BodyAdmitGate == ASSUME IInv, BodyAdmit PROVE IInv'
<1>0. /\ RelayInv /\ RelayTypeOK /\ Outcome /\ GateTypeOK /\ Stages /\ stage = "body" /\ UNCHANGED relayVars
      /\ UNCHANGED <<pc, w>> /\ MaxTries \in Nat
  BY GatewayAssumption DEF IInv, RelayInv, BodyAdmit, relayVars
<1>1. RelayInv'
  BY <1>0, RelayKept
<1>2. GateTypeOK'
  <2>1. errs' \in Nat /\ charged' \in 0..2 /\ tries' \in 0..MaxTries
    BY <1>0 DEF GateTypeOK, Stages, BodyAdmit, Refuse
  <2>2. holds' \subseteq {"stream", "body"} /\ limited' \subseteq Accounts
    BY <1>0 DEF GateTypeOK, Stages, BodyAdmit, Refuse, Leave
  <2>3. stage' \in {"start", "fast", "fastCall", "fastRelay", "reserve", "body", "route",
                    "pick", "call", "relay", "over", "done"}
    BY <1>0 DEF GateTypeOK, BodyAdmit, Refuse, Leave
  <2> QED
    BY <1>0, <2>1, <2>2, <2>3 DEF GateTypeOK, BodyAdmit, Refuse, Leave
<1>3. Stages'
  BY <1>0 DEF RelayTypeOK, GateTypeOK, Stages, Outcome, Blank, BodyAdmit, Refuse, Leave
<1> QED
  BY <1>1, <1>2, <1>3 DEF IInv

LEMMA RouteGate == ASSUME IInv, Route PROVE IInv'
<1>0. /\ RelayInv /\ RelayTypeOK /\ Outcome /\ GateTypeOK /\ Stages /\ stage = "route" /\ UNCHANGED relayVars
      /\ UNCHANGED <<pc, w>> /\ MaxTries \in Nat
  BY GatewayAssumption DEF IInv, RelayInv, Route, relayVars
<1>1. RelayInv'
  BY <1>0, RelayKept
<1>2. GateTypeOK'
  <2>1. errs' \in Nat /\ charged' \in 0..2 /\ tries' \in 0..MaxTries
    BY <1>0 DEF GateTypeOK, Stages, Route, Refuse
  <2>2. holds' \subseteq {"stream", "body"} /\ limited' \subseteq Accounts
    BY <1>0 DEF GateTypeOK, Stages, Route, Refuse, Leave
  <2>3. stage' \in {"start", "fast", "fastCall", "fastRelay", "reserve", "body", "route",
                    "pick", "call", "relay", "over", "done"}
    BY <1>0 DEF GateTypeOK, Route, Refuse, Leave
  <2> QED
    BY <1>0, <2>1, <2>2, <2>3 DEF GateTypeOK, Route, Refuse, Leave
<1>3. Stages'
  BY <1>0 DEF RelayTypeOK, GateTypeOK, Stages, Outcome, Blank, Route, Refuse, Leave
<1> QED
  BY <1>1, <1>2, <1>3 DEF IInv

LEMMA PickGate == ASSUME IInv, Pick PROVE IInv'
<1>0. /\ RelayInv /\ RelayTypeOK /\ Outcome /\ GateTypeOK /\ Stages /\ stage = "pick" /\ UNCHANGED relayVars
      /\ UNCHANGED <<pc, w>> /\ MaxTries \in Nat
  BY GatewayAssumption DEF IInv, RelayInv, Pick, relayVars
<1>1. RelayInv'
  BY <1>0, RelayKept
<1>2. GateTypeOK'
  BY <1>0 DEF GateTypeOK, Stages, Pick, Refuse, Leave
<1>3. Stages'
  BY <1>0 DEF RelayTypeOK, GateTypeOK, Stages, Outcome, Blank, Pick, Refuse, Leave
<1> QED
  BY <1>1, <1>2, <1>3 DEF IInv

LEMMA AttemptReturnGate == ASSUME IInv, AttemptReturn PROVE IInv'
<1>0. /\ RelayInv /\ RelayTypeOK /\ Outcome /\ GateTypeOK /\ Stages /\ stage = "relay" /\ UNCHANGED relayVars
      /\ UNCHANGED <<pc, w>> /\ MaxTries \in Nat
  BY GatewayAssumption DEF IInv, RelayInv, AttemptReturn, relayVars
<1>1. RelayInv'
  BY <1>0, RelayKept
<1>2. GateTypeOK'
  BY <1>0 DEF GateTypeOK, Stages, AttemptReturn, Refuse, Leave, Returned
<1>3. Stages'
  <2>1. pc = "idle" /\ UNCHANGED <<req, holds, charged, errs, tries, acct>>
    BY <1>0 DEF AttemptReturn, Returned
  <2>2. stage' = "over" \/ (stage' = "pick" /\ res \in Failures)
    BY DEF AttemptReturn, Final, Failures
  <2>3. res \in Failures => Blank
    BY <1>0, <2>1 DEF Outcome
  <2> QED
    BY <1>0, <2>1, <2>2, <2>3 DEF RelayTypeOK, GateTypeOK, Stages, Blank
<1> QED
  BY <1>1, <1>2, <1>3 DEF IInv

LEMMA ExecuteReturnGate == ASSUME IInv, ExecuteReturn PROVE IInv'
<1>0. /\ RelayInv /\ RelayTypeOK /\ Outcome /\ GateTypeOK /\ Stages /\ stage = "over" /\ UNCHANGED relayVars
      /\ UNCHANGED <<pc, w>> /\ MaxTries \in Nat
  BY GatewayAssumption DEF IInv, RelayInv, ExecuteReturn, relayVars
<1>1. RelayInv'
  BY <1>0, RelayKept
<1>2. GateTypeOK'
  <2>1. errs' \in Nat /\ charged' \in 0..2 /\ tries' \in 0..MaxTries
    BY <1>0 DEF GateTypeOK, Stages, ExecuteReturn, Refuse
  <2>2. holds' \subseteq {"stream", "body"} /\ limited' \subseteq Accounts
    BY <1>0 DEF GateTypeOK, Stages, ExecuteReturn, Refuse, Leave
  <2>3. stage' \in {"start", "fast", "fastCall", "fastRelay", "reserve", "body", "route",
                    "pick", "call", "relay", "over", "done"}
    BY <1>0 DEF GateTypeOK, ExecuteReturn, Refuse, Leave
  <2> QED
    BY <1>0, <2>1, <2>2, <2>3 DEF GateTypeOK, ExecuteReturn, Refuse, Leave
<1>3. Stages'
  BY <1>0 DEF RelayTypeOK, GateTypeOK, Stages, Outcome, Blank, ExecuteReturn, Refuse, Leave, Untouched
<1> QED
  BY <1>1, <1>2, <1>3 DEF IInv

LEMMA FastCallGate == ASSUME IInv, FastCall PROVE IInv'
<1>0. /\ RelayInv /\ RelayTypeOK /\ Outcome /\ GateTypeOK /\ Stages /\ stage = "fastCall"
      /\ UNCHANGED w /\ req.mode \in Modes /\ MaxTries \in Nat
  BY GatewayAssumption DEF IInv, RelayInv, GateTypeOK, FastCall, relayVars
<1>1. RelayInv'
  <2>1. Blank
    BY <1>0 DEF Stages
  <2>2. CASE Begin(req.mode) /\ UNCHANGED <<w, gone>>
    BY <1>0, <2>1, <2>2, BeginStep
  <2>3. CASE UNCHANGED relayVars
    BY <1>0, <2>3, RelayKept
  <2> QED
    BY <2>2, <2>3 DEF FastCall
<1>2. GateTypeOK'
  <2>1. errs' \in Nat /\ charged' \in 0..2 /\ tries' \in 0..MaxTries
    BY <1>0 DEF GateTypeOK, Stages, FastCall, Refuse
  <2>2. holds' \subseteq {"stream", "body"} /\ limited' \subseteq Accounts
    BY <1>0 DEF GateTypeOK, Stages, FastCall, Refuse, Leave
  <2>3. stage' \in {"start", "fast", "fastCall", "fastRelay", "reserve", "body", "route",
                    "pick", "call", "relay", "over", "done"}
    BY <1>0 DEF GateTypeOK, FastCall, Refuse, Leave
  <2> QED
    BY <1>0, <2>1, <2>2, <2>3 DEF GateTypeOK, FastCall, Refuse, Leave
<1>3. stage' # "fastRelay" => pc' = pc
  BY DEF FastCall, relayVars, Refuse, Leave
<1>4. Stages'
  BY <1>0, <1>3 DEF GateTypeOK, Stages, Blank, FastCall, Refuse, Leave
<1> QED
  BY <1>1, <1>2, <1>4 DEF IInv

LEMMA CallGate == ASSUME IInv, Call PROVE IInv'
<1>0. /\ RelayInv /\ RelayTypeOK /\ Outcome /\ GateTypeOK /\ Stages /\ stage = "call"
      /\ UNCHANGED w /\ req.mode \in Modes
  BY GatewayAssumption DEF IInv, RelayInv, GateTypeOK, Call, relayVars
<1>1. RelayInv'
  <2>1. Blank
    BY <1>0 DEF Stages
  <2>2. CASE Begin(req.mode) /\ UNCHANGED <<w, gone>>
    BY <1>0, <2>1, <2>2, BeginStep
  <2>3. CASE UNCHANGED relayVars
    BY <1>0, <2>3, RelayKept
  <2> QED
    BY <2>2, <2>3 DEF Call
<1>2. GateTypeOK'
  BY <1>0 DEF GateTypeOK, Stages, Call, Refuse, Leave
<1>3. stage' # "relay" => pc' = pc
  BY DEF Call, relayVars, Refuse, Leave
<1>4. Stages'
  BY <1>0, <1>3 DEF GateTypeOK, Stages, Blank, Call, Refuse, Leave
<1> QED
  BY <1>1, <1>2, <1>4 DEF IInv

LEMMA RelayingGate == ASSUME IInv, Relay \/ Break \/ World PROVE IInv'
<1>0. /\ RelayInv /\ GateTypeOK /\ Stages /\ Relaying
      /\ UNCHANGED <<req, stage, holds, charged, errs, tries, acct, limited, pruned>>
  BY DEF IInv, Relay, Break, World, gateVars
<1>1. RelayInv'
  BY <1>0, RelayStepInv, WorldStep DEF Relay, Break, World
<1>2. GateTypeOK'
  BY <1>0 DEF GateTypeOK
<1>3. Stages'
  BY <1>0 DEF Stages, Relaying
<1> QED
  BY <1>1, <1>2, <1>3 DEF IInv

LEMMA StepIInv == ASSUME IInv, [Next]_vars PROVE IInv'
<1>1. ASSUME Step PROVE IInv'
  BY <1>1, StartGate, FastReserveGate, FastDeclineGate, FastAdmitGate, FastCallGate, FastReturnGate,
     BodyReserveGate, BodyAdmitGate, RouteGate, PickGate, CallGate, AttemptReturnGate,
     ExecuteReturnGate DEF Step
<1>2. ASSUME UNCHANGED vars PROVE IInv'
  <2>1. /\ RelayInv /\ GateTypeOK /\ Stages /\ UNCHANGED relayVars /\ UNCHANGED <<pc, w>>
        /\ UNCHANGED <<req, stage, holds, charged, errs, tries, acct, limited, pruned>>
    BY <1>2 DEF IInv, vars, relayVars, gateVars
  <2>2. RelayInv'
    BY <2>1, RelayKept
  <2> QED
    BY <2>1, <2>2 DEF IInv, GateTypeOK, Stages, Blank
<1> QED
  BY <1>1, <1>2, RelayingGate DEF Next

-----------------------------------------------------------------------------
(* What the router may replace was never seen by the client, and a corrupt *)
(* head that a sibling could serve is not relayed (CorruptGuard.Prefetch). *)
THEOREM ReplacedUnseen == Spec => []UnseenReplaced
<1>1. IInv => UnseenReplaced
  <2> SUFFICES ASSUME IInv PROVE ReplacedOnlyUnseen /\ CorruptHeadUnseen
    BY DEF UnseenReplaced
  <2>0. RelayTypeOK /\ Unsent /\ Sent /\ Outcome /\ Vetted
    BY DEF IInv, RelayInv
  <2>1. ReplacedOnlyUnseen
    BY <2>0 DEF RelayTypeOK, Unsent, Sent, Outcome, Blank, Failures, ReplacedOnlyUnseen
  <2>2. CorruptHeadUnseen
    <3> SUFFICES ASSUME Returned, mode.path = "pipe", mode.failover, mode.text,
                        NEW i \in 1..Len(wire), wire[i] = "bad", i <= CorruptHold,
                        ~HasText(SubSeq(wire, 1, i))
                 PROVE  out = 0 /\ benched
      BY DEF CorruptHeadUnseen
    <3>1. wire \in Seq(Kinds) /\ i \in 0..Len(wire)
      BY <2>0 DEF RelayTypeOK
    <3>2. ~TextBy(i)
      BY <3>1, SeenText DEF TextBy
    <3> QED
      BY <2>0, <3>2 DEF Vetted, CleanHead, Returned
  <2> QED
    BY <2>1, <2>2
<1> QED
  BY <1>1, InitIInv, StepIInv, PTL DEF Spec

(* A success is the whole body, and a broken stream says so exactly once   *)
(* (relayResponse, writeStreamTerminalError).                              *)
THEOREM EndsAreHonest == Spec => []EndIsHonest
<1>1. IInv => EndIsHonest
  BY DEF IInv, RelayInv, RelayTypeOK, Unsent, Sent, Outcome, Blank, Failures,
         EndIsHonest, DeliveredWhole, HonestEnd, Returned
<1> QED
  BY <1>1, InitIInv, StepIInv, PTL DEF Spec

(* At most one head, and nothing reserved is left behind (writeErr, the    *)
(* relays, the deferred releases).                                         *)
THEOREM ReturnsClean == Spec => []CleanReturn
<1>1. IInv => CleanReturn
  <2> SUFFICES ASSUME IInv PROVE CleanReturn
    OBVIOUS
  <2>1. RelayTypeOK /\ Unsent /\ Sent /\ Outcome /\ ReplyHeld /\ GateTypeOK /\ Stages
    BY DEF IInv, RelayInv
  <2>2. w.heads \in {0, 1}
    BY <2>1 DEF RelayTypeOK, Unsent, Sent, Outcome, Blank
  <2>3. w.heads + errs <= 1
    BY <2>1, <2>2 DEF Stages
  <2>4. stage = "done" => holds = {} /\ ~reply
    BY <2>1 DEF Stages, ReplyHeld
  <2> QED
    BY <2>1, <2>3, <2>4 DEF CleanReturn, TypeOK
<1> QED
  BY <1>1, InitIInv, StepIInv, PTL DEF Spec

(* No attempt is started behind bytes of another (Router.Execute, Server.  *)
(* proxy's overflow replay, proxyStream's fallback).                       *)
THEOREM NothingReplayedBehindBytes == Spec => NoReplayBehindBytes
<1> DEFINE Behind == stage' \in {"call", "fastCall"} /\ stage # stage' => Untouched
<1>1. ASSUME IInv, [Next]_vars PROVE Behind
  <2> SUFFICES ASSUME stage' \in {"call", "fastCall"}, stage # stage' PROVE Untouched
    OBVIOUS
  <2>1. stage \in {"pick", "fast"}
    BY <1>1 DEF Next, Step, Start, FastReserve, FastDecline, FastAdmit, FastCall, FastReturn,
                BodyReserve, BodyAdmit, Route, Pick, Call, AttemptReturn, ExecuteReturn,
                Relay, Break, World, Refuse, Leave, vars, gateVars
  <2> QED
    BY <1>1, <2>1 DEF IInv, Stages, Blank, Untouched
<1> QED
  BY <1>1, InitIInv, StepIInv, PTL DEF Spec, NoReplayBehindBytes
=============================================================================
