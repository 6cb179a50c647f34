----------------------------- MODULE StreamRelay -----------------------------
(***************************************************************************)
(* One relay of an upstream 200 to the client: Server.relayResponse with   *)
(* the readers it stacks on the body (idle breaker, CorruptGuard,          *)
(* JunkGuard, LoopBreaker).                                                *)
(*                                                                         *)
(* The body is a sequence of chunks; a chunk is named by what the readers  *)
(* tell apart: reasoning, reasoning soup, bytes that are not UTF-8, usable *)
(* text, a repeated line, an error event inside the stream.  Upstream      *)
(* picks the next chunk when a reader asks for one.                        *)
(***************************************************************************)
EXTENDS Naturals, Sequences

CONSTANTS
  CorruptHold,   \* chunks CorruptGuard may hold (corruptHoldBytes)
  JunkHold,      \* chunks JunkGuard may hold (junkHoldBytes)
  JunkRun,       \* soup chunks that make a junk verdict (junkMinBytes)
  LoopWindow,    \* repeated chunks that make a loop (loopWindow lines)
  MaxWire        \* bound: chunks of one body

ASSUME RelayAssumption ==
  /\ {CorruptHold, JunkHold, JunkRun, LoopWindow} \subseteq Nat \ {0}
  /\ MaxWire \in Nat

Kinds == {"reason", "soup", "bad", "text", "rep", "deny"}

VARIABLES
  mode,     \* the attempt: path, formats (named: the client's has an error
            \* frame; ndjson: CommandCode's), what the route can do
  pc,       \* where relayResponse stands
  wire,     \* chunks read off the body so far
  up,       \* the body: open, eof, or broken (died or closed)
  c, j,     \* chunks CorruptGuard and JunkGuard have observed
  out,      \* chunks passed on: written, or translated to nothing
  w,        \* response heads and terminal error frames written
  res,      \* what relayResponse returned
  gone,     \* the client disconnected
  benched,  \* the leg was benched (Def.BenchModel)
  cooled,   \* the account was cooled for a refusal inside the stream
  reply,    \* the reply reservation is held
  booked    \* recordSuccess ran

relayVars == <<mode, pc, wire, up, c, j, out, w, res, gone, benched, cooled,
               reply, booked>>
guards == <<c, j>>
marks  == <<benched, cooled, reply, booked>>

Failures == {"corrupt", "junk", "denied", "dead", "saturated", "large", "codec"}
Modes == [path : {"pipe", "aggregate", "buffered"}, same : BOOLEAN, sse : BOOLEAN,
          named : BOOLEAN, failover : BOOLEAN, text : BOOLEAN, ndjson : BOOLEAN]

RelayTypeOK ==
  /\ mode \in Modes
  /\ pc \in {"head", "reserve", "gather", "corrupt", "junk", "open", "relay",
             "looped", "verdicts", "idle"}
  /\ wire \in Seq(Kinds) /\ Len(wire) <= MaxWire
  /\ up \in {"open", "eof", "broken"}
  /\ c \in 0..Len(wire) /\ j \in 0..Len(wire) /\ out \in 0..Len(wire)
  /\ w \in [heads : Nat, frames : Nat]
  /\ res \in {"none", "ok", "committed"} \cup Failures
  /\ {gone, benched, cooled, reply, booked} \subseteq BOOLEAN

-----------------------------------------------------------------------------
(* What the readers conclude from the chunks they have observed.           *)

Seen(n) == SubSeq(wire', 1, n)

\* releasedByMarker: the chunks hold usable output.
HasText(s) == \E i \in 1..Len(s) : s[i] = "text"

\* CorruptGuard.verdict: a byte that is not UTF-8.
Corrupt(s) == \E i \in 1..Len(s) : s[i] = "bad"

\* JunkGuard.verdict: soup for long enough before any usable output.
Junk(s) ==
  \E i \in JunkRun..Len(s) :
    /\ \A k \in (i - JunkRun + 1)..i : s[k] = "soup"
    /\ ~HasText(SubSeq(s, 1, i))

\* LoopBreaker.tryTrip: the tail has collapsed to repeats.
Looping(s) ==
  /\ Len(s) >= LoopWindow
  /\ \A k \in (Len(s) - LoopWindow + 1)..Len(s) : s[k] = "rep"

\* The next chunk after position p: one already read, or a new one.
Pull(p) ==
  \/ p < Len(wire) /\ UNCHANGED wire
  \/ /\ p = Len(wire) /\ up = "open" /\ Len(wire) < MaxWire
     /\ \E k \in Kinds : wire' = Append(wire, k)

Drained(p) == p = Len(wire) /\ up # "open"

-----------------------------------------------------------------------------
Idle ==
  /\ pc = "idle" /\ wire = <<>> /\ up = "open" /\ c = 0 /\ j = 0 /\ out = 0
  /\ w = [heads |-> 0, frames |-> 0] /\ res = "none" /\ gone = FALSE
  /\ benched = FALSE /\ cooled = FALSE /\ reply = FALSE /\ booked = FALSE

\* Where a relay of this mode begins.
Entry(m) == IF m.ndjson THEN "head"
            ELSE CASE m.path = "aggregate" -> "gather"
                   [] m.path = "buffered"  -> "reserve"
                   [] OTHER                -> "corrupt"

AfterHead(m) == IF m.path = "aggregate" THEN "gather" ELSE "corrupt"

\* relayResponse is called with a fresh body.
Begin(m) ==
  /\ mode' = m /\ pc' = Entry(m) /\ wire' = <<>> /\ up' = "open"
  /\ c' = 0 /\ j' = 0 /\ out' = 0 /\ res' = "none"
  /\ benched' = FALSE /\ cooled' = FALSE /\ reply' = FALSE /\ booked' = FALSE

Mut_Return_KeepsReply(r) == res' = r /\ pc' = "idle" /\ UNCHANGED reply

\* A return; the deferred Release gives the reply reservation back.
Return(r) == res' = r /\ pc' = "idle" /\ reply' = FALSE

Mut_Commit_Replaceable == res' = "denied" /\ pc' = "idle" /\ UNCHANGED reply

\* A return after the head: the router may not replace the attempt.
Commit == res' = "committed" /\ pc' = "idle" /\ UNCHANGED reply

Mut_Frame_Silent == w' = w

\* writeStreamTerminalError, for the streams that have a reader left.  Formats
\* without an error frame (Gemini's) get an empty line.
Frame == w' = IF mode.sse /\ mode.named /\ ~gone THEN [w EXCEPT !.frames = @ + 1] ELSE w

\* InspectCommandCodeHead: an error event in a 200 is a real status.  No
\* idle breaker guards these reads.
InspectHead ==
  /\ pc = "head"
  /\ \/ /\ Pull(0)
        /\ IF wire'[1] = "deny" THEN Return("denied")
           ELSE pc' = AfterHead(mode) /\ UNCHANGED <<res, reply>>
     \/ /\ Drained(0) /\ UNCHANGED wire
        /\ IF up = "broken" THEN Return("dead")
           ELSE pc' = AfterHead(mode) /\ UNCHANGED <<res, reply>>
  /\ UNCHANGED <<mode, up, guards, out, w, gone, benched, cooled, booked>>

\* The release is decided before the verdict.
Mut_CorruptPrefetch_ReleasesFirst ==
  /\ pc = "corrupt" /\ mode.failover /\ mode.text
  /\ \/ /\ Pull(c) /\ c' = c + 1
        /\ IF c' < CorruptHold /\ Corrupt(Seen(c'))
           THEN Return("corrupt") /\ benched' = TRUE
           ELSE /\ pc' = IF c' >= CorruptHold \/ HasText(Seen(c')) THEN "junk" ELSE pc
                /\ UNCHANGED <<res, benched, reply>>
     \/ Drained(c) /\ pc' = "junk" /\ UNCHANGED <<wire, c, res, benched, reply>>
  /\ UNCHANGED <<mode, up, j, out, w, gone, cooled, booked>>

\* CorruptGuard.Prefetch: hold the head until usable output, the window or
\* the end; a verdict before that discards the attempt and benches the leg.
CorruptPrefetch ==
  /\ pc = "corrupt" /\ mode.failover /\ mode.text
  /\ \/ /\ Pull(c) /\ c' = c + 1
        /\ IF Corrupt(Seen(c'))
           THEN Return("corrupt") /\ benched' = TRUE
           ELSE /\ pc' = IF c' >= CorruptHold \/ HasText(Seen(c')) THEN "junk" ELSE pc
                /\ UNCHANGED <<res, benched, reply>>
     \/ Drained(c) /\ pc' = "junk" /\ UNCHANGED <<wire, c, res, benched, reply>>
  /\ UNCHANGED <<mode, up, j, out, w, gone, cooled, booked>>

\* A route without a sibling target scans without holding.
CorruptScanOnly ==
  /\ pc = "corrupt" /\ ~(mode.failover /\ mode.text)
  /\ pc' = "junk"
  /\ UNCHANGED <<mode, wire, up, guards, out, w, res, gone, marks>>

\* JunkGuard.Prefetch holds on every text route; only a route with a
\* sibling benches the leg.
JunkPrefetch ==
  /\ pc = "junk" /\ mode.text
  /\ \/ /\ Pull(j) /\ j' = j + 1 /\ c' = IF c < j' THEN j' ELSE c
        /\ IF Junk(Seen(j'))
           THEN Return("junk") /\ benched' = mode.failover
           ELSE /\ pc' = IF j' >= JunkHold \/ HasText(Seen(j')) THEN "open" ELSE pc
                /\ UNCHANGED <<res, benched, reply>>
     \/ Drained(j) /\ pc' = "open" /\ UNCHANGED <<wire, guards, res, benched, reply>>
  /\ UNCHANGED <<mode, up, out, w, gone, cooled, booked>>

JunkSkip ==
  /\ pc = "junk" /\ ~mode.text
  /\ pc' = "open"
  /\ UNCHANGED <<mode, wire, up, guards, out, w, res, gone, marks>>

\* The 200 and its headers: from here the attempt is committed.
WriteHead ==
  /\ pc = "open"
  /\ w' = [w EXCEPT !.heads = @ + 1]
  /\ pc' = "relay"
  /\ UNCHANGED <<mode, wire, up, guards, out, res, gone, marks>>

\* TranslateStream stops on an event: on an error event of CommandCode's, which
\* may name the account, or on one of an SSE stream that does not parse.
Stops(k) ==
  /\ ~mode.same /\ (mode.ndjson => k = "deny")
  /\ Commit /\ Frame
  /\ cooled' \in IF mode.ndjson THEN {cooled, TRUE} ELSE {cooled}

\* Or goes on: the encoders pass over an error event of an SSE stream.
GoesOn(k) == ~mode.same /\ mode.ndjson => k # "deny"

\* One chunk through the guards to the client.  The chunk that completes a
\* loop closes the body and is dropped.
Copy ==
  /\ pc = "relay" /\ ~gone
  /\ Pull(out)
  /\ j' = IF j < out + 1 THEN out + 1 ELSE j
  /\ c' = IF c < out + 1 THEN out + 1 ELSE c
  /\ IF Looping(Seen(out + 1))
     THEN pc' = "looped" /\ up' = "broken" /\ UNCHANGED <<out, w, res, cooled, reply>>
     ELSE \/ /\ GoesOn(wire'[out + 1]) /\ out' = out + 1
             /\ UNCHANGED <<pc, up, w, res, cooled, reply>>
          \/ Stops(wire'[out + 1]) /\ UNCHANGED <<out, up>>
  /\ UNCHANGED <<mode, gone, benched, booked>>

\* The body ended: a translation of SSE may still miss its terminal event.
CopyEnd ==
  /\ pc = "relay" /\ ~gone /\ out = Len(wire) /\ up = "eof"
  /\ \/ pc' = "verdicts" /\ UNCHANGED <<w, res, reply>>
     \/ ~mode.same /\ ~mode.ndjson /\ Commit /\ Frame
  /\ UNCHANGED <<mode, wire, up, guards, out, gone, benched, cooled, booked>>

\* A guard that swallows the truncation error turns death into a clean end.
Mut_CopyBroken_CleanEnd ==
  /\ pc = "relay" /\ ~gone /\ out = Len(wire) /\ up = "broken"
  /\ pc' = "verdicts" /\ UNCHANGED <<w, res, reply>>
  /\ UNCHANGED <<mode, wire, up, guards, out, gone, benched, cooled, booked>>

\* The body broke under a client that is still there; a translation is told
\* by Cursor's pipe when the account was refused.
CopyBroken ==
  /\ pc = "relay" /\ ~gone /\ out = Len(wire) /\ up = "broken"
  /\ Commit /\ Frame
  /\ cooled' \in IF mode.same THEN {cooled} ELSE {cooled, TRUE}
  /\ UNCHANGED <<mode, wire, up, guards, out, gone, benched, booked>>

\* The client left: the copy fails, a same-format relay books what it had.
CopyGone ==
  /\ pc = "relay" /\ gone
  /\ IF mode.same THEN pc' = "verdicts" /\ UNCHANGED <<res, reply>> ELSE Commit
  /\ UNCHANGED <<mode, wire, up, guards, out, w, gone, benched, cooled, booked>>

\* A tripped loop: terminal frame, and the leg is benched where a sibling can
\* serve, unless the translation already failed on the cut.
LoopEnd ==
  /\ pc = "looped"
  /\ Commit /\ Frame
  /\ \/ benched' = (benched \/ mode.failover)
     \/ ~mode.same /\ UNCHANGED benched
  /\ UNCHANGED <<mode, wire, up, guards, out, gone, cooled, booked>>

\* Late verdicts bench the leg and leave the stream alone; the request is booked.
Verdicts ==
  /\ pc = "verdicts"
  /\ benched' = (benched \/ (mode.failover /\ mode.text /\
                   (Corrupt(SubSeq(wire, 1, c)) \/ Junk(SubSeq(wire, 1, j)))))
  /\ booked' = TRUE /\ res' = "ok" /\ pc' = "idle"
  /\ UNCHANGED <<mode, wire, up, guards, out, w, gone, cooled, reply>>

\* The buffered path reserves the reply against the byte budget.
Reserve ==
  /\ pc = "reserve"
  /\ \/ pc' = "gather" /\ reply' = TRUE /\ UNCHANGED res
     \/ Return("saturated")
  /\ UNCHANGED <<mode, wire, up, guards, out, w, gone, benched, cooled, booked>>

\* Both whole-reply paths read everything before the first byte; aggregation
\* stops at an error event, which may name the account.
Gather ==
  /\ pc = "gather"
  /\ Pull(c) /\ c' = c + 1
  /\ IF mode.path = "aggregate" /\ wire'[c'] = "deny"
     THEN Return("denied") /\ cooled' \in {cooled, TRUE}
     ELSE \/ UNCHANGED <<pc, res, reply, cooled>>
          \/ Return("large") /\ UNCHANGED cooled
  /\ UNCHANGED <<mode, up, j, out, w, gone, benched, booked>>

Gathered ==
  /\ pc = "gather" /\ Drained(c)
  /\ \/ up = "broken" /\ Return("dead") /\ UNCHANGED <<w, out, booked>>
     \/ up = "eof" /\ Return("codec") /\ UNCHANGED <<w, out, booked>>
     \/ /\ up = "eof"
        /\ w' = [w EXCEPT !.heads = @ + 1] /\ out' = Len(wire)
        /\ booked' = TRUE /\ Return("ok")
  /\ UNCHANGED <<mode, wire, up, guards, gone, benched, cooled>>

-----------------------------------------------------------------------------
Running == pc # "idle"

\* The upstream finishes its body, or dies.
UpEnds ==
  /\ Running /\ up = "open" /\ up' \in {"eof", "broken"}
  /\ UNCHANGED <<mode, pc, wire, guards, out, w, res, gone, marks>>

\* The client disconnects: its context closes the upstream body.
ClientLeaves ==
  /\ Running /\ ~gone /\ gone' = TRUE
  /\ up' = IF up = "open" THEN "broken" ELSE up
  /\ UNCHANGED <<mode, pc, wire, guards, out, w, res, marks>>

Mut_IdleKill_Never == FALSE /\ UNCHANGED relayVars

\* idleBreakReader.kill: no byte for the idle limit closes the body.
IdleKill ==
  /\ pc \in {"gather", "corrupt", "junk", "relay"} /\ up = "open"
  /\ up' = "broken"
  /\ UNCHANGED <<mode, pc, wire, guards, out, w, res, gone, marks>>

\* What the relay does next is to write to the client.
Writing ==
  \/ pc \in {"open", "looped"}
  \/ pc = "relay" /\ (out < Len(wire) \/ up # "open")
  \/ pc = "gather" /\ Drained(c) /\ up = "eof"

RelayStep ==
  \/ InspectHead \/ CorruptPrefetch \/ CorruptScanOnly \/ JunkPrefetch \/ JunkSkip
  \/ WriteHead \/ Copy \/ CopyEnd \/ CopyBroken \/ CopyGone \/ LoopEnd \/ Verdicts
  \/ Reserve \/ Gather \/ Gathered

RelayNext == RelayStep \/ UpEnds \/ ClientLeaves \/ IdleKill

-----------------------------------------------------------------------------
Returned == pc = "idle" /\ res # "none"

\* An attempt the router is told it may replace has put nothing on the wire:
\* neither a head nor a byte of its body.
ReplacedOnlyUnseen == res \in Failures => w.heads = 0 /\ out = 0

\* Where a sibling can serve, a corrupt head inside the hold window never
\* reaches the client: the leg is benched and nothing is written.
CorruptHeadUnseen ==
  (Returned /\ mode.path = "pipe" /\ mode.failover /\ mode.text) =>
     \A i \in 1..Len(wire) :
        (wire[i] = "bad" /\ i <= CorruptHold /\ ~HasText(SubSeq(wire, 1, i))) =>
          out = 0 /\ benched

\* What the router may replace, and what a combo must replace, is unseen.
UnseenReplaced == ReplacedOnlyUnseen /\ CorruptHeadUnseen

\* A relay that reports success to a client still there passed on the whole
\* body: no held chunk was lost and no truncation passed for an end.  (An
\* error event inside a translated stream counts as passed on.)
DeliveredWhole == (res = "ok" /\ ~gone) => up = "eof" /\ out = Len(wire)

\* A broken stream tells the client so exactly once where its format has an
\* error frame, and nobody is told so of a whole one; only a success is booked.
HonestEnd ==
  Returned =>
    /\ (res = "committed" /\ mode.sse /\ mode.named /\ ~gone) => w.frames = 1
    /\ res # "committed" => w.frames = 0
    /\ w.frames <= 1
    /\ booked <=> res = "ok"

\* The client can believe the end it is shown: success means all of it, a
\* broken stream says so once.
EndIsHonest == DeliveredWhole /\ HonestEnd
=============================================================================
