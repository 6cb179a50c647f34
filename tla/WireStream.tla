------------------------------ MODULE WireStream ------------------------------
(***************************************************************************)
(* TranslateStream and AggregateStream (internal/translat): one upstream   *)
(* stream is decoded chunk by chunk into unified StreamEvents, and an      *)
(* encoder renders the events in the client's format.                      *)
(*                                                                         *)
(* The upstream speaks a legal stream of its format (external).  A chunk   *)
(* carries one token, named by the chunk's position, so what the client    *)
(* can put together from its events is compared with what was said.        *)
(***************************************************************************)
EXTENDS Naturals, Sequences, FiniteSets, SequencesExt, TLC

CONSTANTS
  Pairs,      \* <<upstream format, client format>>; "reply" is AggregateStream
  MaxTools,   \* bound: tool calls of one stream
  MaxChunks   \* bound: chunks of one stream

VARIABLES
  from, to,   \* the two formats
  ids,        \* the upstream's chunks name their message (id, modelVersion)
  said,       \* the chunks the upstream sent
  dec,        \* the decoder's state
  enc,        \* the encoder's state
  out,        \* the events the client was sent
  end         \* open, clean (finish ran) or error (the caller writes a frame)

streamVars == <<from, to, ids, said, dec, enc, out, end>>

Items == {"responses", "grok", "commandcode"}   \* formats that name tools by id
Tools == 1..MaxTools
Types == {"text", "think", "tool"}

StreamTypeOK ==
  /\ <<from, to>> \in Pairs /\ ids \in BOOLEAN
  /\ Len(said) <= MaxChunks
  /\ end \in {"open", "clean", "error"}

-----------------------------------------------------------------------------
(* The upstream (external): which chunk may come next.                     *)

Chunk(k, i, y, p, full) == [k |-> k, i |-> i, y |-> y, p |-> p, full |-> full]

Positions(T(_)) == {n \in 1..Len(said) : T(said[n])}
Heard(k) == \E n \in 1..Len(said) : said[n].k = k
ToolsSaid == {said[n].p : n \in Positions(LAMBDA c : c.y = "tool" /\ c.k \in {"open", "whole"})}
ToolsOver == {said[n].p : n \in Positions(LAMBDA c : c.y = "tool" /\ c.k \in {"close", "whole"})}
Over      == Heard("fin") \/ Heard("error")

\* The tools whose arguments may go on: none that began before later prose.
Going ==
  {p \in ToolsSaid \ ToolsOver :
     \E n \in 1..Len(said) :
       /\ said[n].p = p /\ said[n].k = "open"
       /\ \A m \in (n + 1)..Len(said) : said[m].k \notin {"text", "think"}}

\* Anthropic numbers its blocks and has one open at a time.
Blocks   == Cardinality(Positions(LAMBDA c : c.k = "open"))
OpenType == LET opens  == Positions(LAMBDA c : c.k = "open")
                closes == Positions(LAMBDA c : c.k = "close")
            IN  IF Cardinality(opens) = Cardinality(closes) THEN "none"
                ELSE said[CHOOSE n \in opens : \A m \in opens : m <= n].y
NextTool == Cardinality(ToolsSaid) + 1

AnthropicSays ==
  IF OpenType = "none"
  THEN {Chunk("open", Blocks, y, IF y = "tool" THEN NextTool ELSE 0, FALSE) :
          y \in {t \in Types : t = "tool" => NextTool \in Tools}}
       \cup {Chunk("fin", 0, "none", 0, FALSE)}
  ELSE {Chunk(IF OpenType = "tool" THEN "args" ELSE OpenType, Blocks - 1, OpenType,
              IF OpenType = "tool" THEN NextTool - 1 ELSE 0, FALSE),
        Chunk("close", Blocks - 1, OpenType,
              IF OpenType = "tool" THEN NextTool - 1 ELSE 0, FALSE)}

Prose == {Chunk(y, 0, y, 0, FALSE) : y \in {"text", "think"}}
Fin   == {Chunk("fin", 0, "none", 0, FALSE)}
Begun(k, full) == {Chunk(k, p - 1, "tool", p, full) : p \in Tools \cap {NextTool}}

OpenAISays ==
  Prose \cup Fin \cup Begun("open", FALSE) \cup Begun("open", TRUE)
  \cup {Chunk("args", p - 1, "tool", p, FALSE) : p \in Going}

GeminiSays == Prose \cup Fin \cup Begun("whole", FALSE)

\* Items carry ids; calls may overlap each other, and a Responses call is
\* done with its arguments in full.
ItemsSay ==
  Begun("open", FALSE)
  \cup {Chunk("args", 0, "tool", p, FALSE) : p \in Going}
  \cup {Chunk("close", 0, "tool", p, from = "responses") : p \in ToolsSaid \ ToolsOver}
  \cup (IF ToolsSaid = ToolsOver THEN Prose \cup Fin ELSE {})

\* A streamed call is repeated whole (tool-call) before it is over.
CommandCodeSays ==
  Prose \cup Begun("open", FALSE) \cup Begun("whole", FALSE)
  \cup {Chunk("args", 0, "tool", p, FALSE) : p \in Going}
  \cup {Chunk("whole", 0, "tool", p, FALSE) : p \in ToolsSaid \ ToolsOver}
  \cup (IF ToolsSaid = ToolsOver THEN Fin ELSE {})

\* OpenAI sends usage in a chunk of its own after the finish reason.
UsageSaid == IF from = "openai" /\ ~Heard("usage")
             THEN {Chunk("usage", 0, "none", 0, FALSE)} ELSE {}

Says ==
  IF Over THEN UsageSaid ELSE
  (CASE from = "anthropic"   -> AnthropicSays
     [] from = "openai"      -> OpenAISays
     [] from = "gemini"      -> GeminiSays
     [] from = "commandcode" -> CommandCodeSays
     [] OTHER                -> ItemsSay)
  \cup {Chunk("error", 0, "none", 0, FALSE)}

-----------------------------------------------------------------------------
(* The decoders: chunk -> StreamEvents.                                    *)

Ev(k, i, y, p, t) == [k |-> k, i |-> i, y |-> y, p |-> p, t |-> t]
Start          == Ev("start", 0, "none", 0, 0)
Part(i, y, p)  == Ev("part", i, y, p, 0)
Delta(i, y, t) == Ev("delta", i, y, 0, t)
PartStop(i)    == Ev("partstop", i, "none", 0, 0)
Stop           == Ev("stop", 0, "none", 0, 0)    \* EvStop with a stop reason
Use            == Ev("use", 0, "none", 0, 0)     \* EvStop with usage
Err            == Ev("error", 0, "none", 0, 0)

Only(b, s) == IF b THEN s ELSE <<>>

\* decodeOpenAIStreamEvent.  Every chunk names the message.
OpenAIEvents(c, t) ==
  IF c.k = "error" THEN <<Err>>
  ELSE Only(ids, <<Start>>)
       \o (CASE c.k = "open"  -> <<Part(c.i, "tool", c.p)>> \o Only(c.full, <<Delta(c.i, "tool", t)>>)
             [] c.k = "fin"   -> <<Stop, Use>>
             [] c.k = "usage" -> <<Use>>
             [] OTHER         -> <<Delta(c.i, c.y, t)>>)

\* decodeAnthropicStreamEvent.
AnthropicEvents(c, t) ==
  CASE c.k = "error" -> <<Err>>
    [] c.k = "open"  -> Only(t = 1, <<Start>>) \o <<Part(c.i, c.y, c.p)>>
    [] c.k = "close" -> <<PartStop(c.i)>>
    [] c.k = "fin"   -> Only(t = 1, <<Start>>) \o <<Stop, Use>>
    [] OTHER         -> <<Delta(c.i, c.y, t)>>

\* decodeGeminiStreamEvent: a call comes whole, every part is at the
\* candidate's index.
GeminiEvents(c, t) ==
  IF c.k = "error" THEN <<Err>>
  ELSE Only(ids, <<Start>>)
       \o (CASE c.k = "whole" -> <<Part(0, "tool", c.p), Delta(0, "tool", t), PartStop(0)>>
             [] c.k = "fin"   -> <<Stop, Use>>
             [] OTHER         -> <<Delta(0, c.y, t)>>)

\* toolIndexFor, resolveToolIdx, toolIndex: parts are numbered as their ids
\* are first met.
Met(p) == IF p = 0 \/ Contains(dec.met, p) THEN dec.met ELSE Append(dec.met, p)
Number(p) == (CHOOSE n \in 1..Len(Met(p)) : Met(p)[n] = p) - 1

Mut_ResponsesEvents_DoneAgain(c, t) ==
  CASE c.k = "open"  -> <<Part(Number(c.p), "tool", c.p)>>
    [] c.k = "args"  -> <<Delta(Number(c.p), "tool", t)>>
    [] c.k = "close" -> <<Delta(Number(c.p), "tool", t)>>
    [] c.k = "fin"   -> <<Stop, Use>>
    [] c.k = "error" -> <<Err>>
    [] OTHER         -> <<Delta(0, c.y, t)>>

\* responsesDecoder.decode: arguments in full count when none were streamed.
ResponsesEvents(c, t) ==
  CASE c.k = "open"  -> <<Part(Number(c.p), "tool", c.p)>>
    [] c.k = "args"  -> <<Delta(Number(c.p), "tool", t)>>
    [] c.k = "close" -> Only(c.full /\ c.p \notin dec.streamed,
                             <<Delta(Number(c.p), "tool", t)>>)
    [] c.k = "fin"   -> <<Stop, Use>>
    [] c.k = "error" -> <<Err>>
    [] OTHER         -> <<Delta(0, c.y, t)>>

\* decodeResponsesStreamEvent (grok, codex).
GrokEvents(c, t) ==
  CASE c.k = "open"  -> <<Part(Number(c.p), "tool", c.p)>>
    [] c.k = "args"  -> <<Delta(Number(c.p), "tool", t)>>
    [] c.k = "close" -> <<PartStop(Number(c.p))>>
    [] c.k = "fin"   -> Only(~dec.started, <<Start>>) \o <<Stop, Use>>
    [] c.k = "error" -> <<>>
    [] OTHER         -> <<Delta(0, c.y, t)>>

\* decodeCommandCodeStreamEvent: a whole call counts when it was not streamed.
CommandCodeEvents(c, t) ==
  IF c.k = "error" \/ (c.k = "whole" /\ c.p \in dec.streamed) THEN <<>>
  ELSE Only(~dec.started /\ c.k # "args", <<Start>>)
       \o (CASE c.k = "open"  -> <<Part(Number(c.p), "tool", c.p)>>
             [] c.k = "args"  -> <<Delta(Number(c.p), "tool", t)>>
             [] c.k = "whole" -> <<Part(Number(c.p), "tool", c.p),
                                   Delta(Number(c.p), "tool", t), PartStop(Number(c.p))>>
             [] c.k = "fin"   -> <<Stop, Use>>
             [] OTHER         -> <<Delta(0, c.y, t)>>)

\* response.created comes first when the stream names its message.
Created(t) == Only(ids /\ t = 1, <<Start>>)

Decode(c, t) ==
  CASE from = "openai"    -> OpenAIEvents(c, t)
    [] from = "anthropic" -> AnthropicEvents(c, t)
    [] from = "gemini"    -> GeminiEvents(c, t)
    [] from = "responses" -> Created(t) \o ResponsesEvents(c, t)
    [] from = "grok"      -> Created(t) \o GrokEvents(c, t)
    [] OTHER              -> CommandCodeEvents(c, t)

\* What a decoder remembers of a chunk.
Remembered(c) ==
  IF from \notin Items THEN dec
  ELSE [met      |-> Met(c.p),
        streamed |-> dec.streamed
                     \cup {p \in {c.p} : CASE from = "responses"   -> c.k \in {"args", "close"}
                                           [] from = "commandcode" -> c.k = "open"
                                           [] OTHER                -> FALSE},
        started  |-> dec.started \/ c.k # "args" \/ from = "responses",
        terminal |-> dec.terminal \/ c.k \in {"fin", "error"}]

\* An error event that fails the decode itself, and with it the stream.
DecodeFails(c) == c.k = "error" /\ (from \in {"grok", "commandcode"} \/ to = "reply")

-----------------------------------------------------------------------------
(* The encoders: a StreamEvent -> events of the client's format.  s holds  *)
(* the encoder and what it has written.                                    *)

O(k, j, y, p, t) == [k |-> k, j |-> j, y |-> y, p |-> p, t |-> t]
Mark(k) == O(k, 0, "none", 0, <<>>)
Write(s, o) == [s EXCEPT !.out = Append(@, o)]

\* The part at upstream index i takes the next index of the client.
Numbered(s, i) == [s EXCEPT !.enc.map = (i :> s.enc.next) @@ @, !.enc.next = @ + 1]

OpenAIEncode(s, ev) ==
  CASE ev.k = "start" ->
         IF s.enc.started THEN s ELSE Write([s EXCEPT !.enc.started = TRUE], Mark("role"))
    [] ev.k = "part" ->
         Write(Numbered(s, ev.i), O("begin", s.enc.next, "tool", ev.p, <<>>))
    [] ev.k = "delta" /\ ev.y = "tool" ->
         LET n == IF ev.i \in DOMAIN s.enc.map THEN s ELSE Numbered(s, ev.i)
         IN  Write(n, O("delta", n.enc.map[ev.i], "tool", 0, <<ev.t>>))
    [] ev.k = "delta" -> Write(s, O("delta", 0, ev.y, 0, <<ev.t>>))
    [] ev.k = "stop" ->
         IF s.enc.stopped THEN s ELSE Write([s EXCEPT !.enc.stopped = TRUE], Mark("finish"))
    [] ev.k = "use" -> [s EXCEPT !.enc.used = TRUE]
    [] OTHER -> s

OpenAIFinish(s) ==
  LET r == IF s.enc.started THEN s ELSE Write(s, Mark("role"))
      u == IF s.enc.used THEN Write(r, Mark("usage")) ELSE r
  IN  Write(u, Mark("done"))

\* ensureStart
EnsureStart(s) ==
  IF s.enc.started THEN s ELSE Write([s EXCEPT !.enc.started = TRUE], Mark("role"))

Mut_CloseBlock_KeepsIndex(s, i) ==
  IF i \notin DOMAIN s.enc.open THEN s
  ELSE Write([s EXCEPT !.enc.open = Restrict(@, DOMAIN @ \ {i})],
             O("stop", s.enc.map[i], "none", 0, <<>>))

\* closeBlock: the client index is retired with the block.
CloseBlock(s, i) ==
  IF i \notin DOMAIN s.enc.open THEN s
  ELSE Write([s EXCEPT !.enc.open = Restrict(@, DOMAIN @ \ {i}),
                       !.enc.map  = Restrict(@, DOMAIN @ \ {i})],
             O("stop", s.enc.map[i], "none", 0, <<>>))

\* blockIndex
BlockIndex(s, i) == IF i \in DOMAIN s.enc.map THEN s ELSE Numbered(s, i)

\* A block of type y opens at upstream index i, closing the one there.
OpenBlock(s, i, y, p) ==
  LET c == CloseBlock(s, i)
      n == BlockIndex(c, i)
  IN  Write([n EXCEPT !.enc.open = (i :> y) @@ @], O("begin", n.enc.map[i], y, p, <<>>))

AnthropicEncode(s, ev) ==
  CASE ev.k = "start"    -> EnsureStart(s)
    [] ev.k = "part"     -> OpenBlock(EnsureStart(s), ev.i, ev.y, ev.p)
    [] ev.k = "partstop" -> CloseBlock(s, ev.i)
    [] ev.k = "delta"    ->
         LET e == EnsureStart(s)
             o == IF ev.i \in DOMAIN e.enc.open /\ e.enc.open[ev.i] = ev.y THEN e
                  ELSE OpenBlock(e, ev.i, ev.y, 0)
         IN  Write(o, O("delta", o.enc.map[ev.i], ev.y, 0, <<ev.t>>))
    [] ev.k = "stop"     -> [s EXCEPT !.enc.stopped = TRUE]
    [] ev.k = "use"      -> [s EXCEPT !.enc.used = TRUE]
    [] OTHER             -> s

AnthropicFinish(s) ==
  LET e == EnsureStart(s)
      c == FoldLeft(CloseBlock, e, SetToSortSeq(DOMAIN e.enc.open, <))
  IN  Write(Write(c, O("finish", 0, IF c.enc.used THEN "usage" ELSE "none", 0, <<>>)),
            Mark("done"))

\* The call being gathered is sent.
FlushCall(s) ==
  IF s.enc.pend = <<>> THEN s
  ELSE Write([s EXCEPT !.enc.pend = <<>>],
             O("call", 0, "tool", s.enc.pend[1].p, s.enc.pend[1].args))

Gathered(s, t) == [s EXCEPT !.enc.pend[1].args = Append(@, t)]
Gather(p)      == <<[p |-> p, args |-> <<>>]>>

GeminiEncode(s, ev) ==
  CASE ev.k = "part" /\ ev.y = "tool"  -> [s EXCEPT !.enc.pend = Gather(ev.p)]
    [] ev.k = "delta" /\ ev.y = "tool" -> IF s.enc.pend = <<>> THEN s ELSE Gathered(s, ev.t)
    [] ev.k = "delta"                  -> Write(s, O("delta", 0, ev.y, 0, <<ev.t>>))
    [] ev.k = "partstop"               -> FlushCall(s)
    [] ev.k = "use"                    -> [s EXCEPT !.enc.used = TRUE]
    [] OTHER                           -> s

GeminiFinish(s) == Write(s, O("finish", 0, IF s.enc.used THEN "usage" ELSE "none", 0, <<>>))

Mut_Aggregate_NoFlush(s, ev) ==
  CASE ev.k = "part"                   -> [s EXCEPT !.enc.pend = Gather(ev.p)]
    [] ev.k = "delta" /\ ev.y = "tool" ->
         Gathered(IF s.enc.pend = <<>> THEN [s EXCEPT !.enc.pend = Gather(0)] ELSE s, ev.t)
    [] ev.k = "delta"                  -> Write(s, O("delta", 0, ev.y, 0, <<ev.t>>))
    [] ev.k = "partstop"               -> FlushCall(s)
    [] ev.k = "use"                    -> [s EXCEPT !.enc.used = TRUE]
    [] OTHER                           -> s

\* AggregateState.Aggregate: one call is gathered at a time, whatever index
\* its arguments come at.
Aggregate(s, ev) ==
  CASE ev.k = "part"                   -> [FlushCall(s) EXCEPT !.enc.pend = Gather(ev.p)]
    [] ev.k = "delta" /\ ev.y = "tool" ->
         Gathered(IF s.enc.pend = <<>> THEN [s EXCEPT !.enc.pend = Gather(0)] ELSE s, ev.t)
    [] ev.k = "delta"                  -> Write(s, O("delta", 0, ev.y, 0, <<ev.t>>))
    [] ev.k = "partstop"               -> FlushCall(s)
    [] ev.k = "use"                    -> [s EXCEPT !.enc.used = TRUE]
    [] OTHER                           -> s

\* AggregateState.Result: thinking, then text, then the calls.
Result(s) ==
  LET f == FlushCall(s)
      Of(y) == SelectSeq(f.out, LAMBDA o : o.y = y)
  IN  Write([f EXCEPT !.out = Of("think") \o Of("text") \o Of("tool")],
            O("finish", 0, IF s.enc.used THEN "usage" ELSE "none", 0, <<>>))

Encode(s, ev) ==
  CASE to = "anthropic" -> AnthropicEncode(s, ev)
    [] to = "gemini"    -> GeminiEncode(s, ev)
    [] to = "openai"    -> OpenAIEncode(s, ev)
    [] OTHER            -> Aggregate(s, ev)

FinishWith(s) ==
  CASE to = "anthropic" -> AnthropicFinish(s)
    [] to = "gemini"    -> GeminiFinish(s)
    [] to = "openai"    -> OpenAIFinish(s)
    [] OTHER            -> Result(s)

-----------------------------------------------------------------------------
StreamInit ==
  /\ \E pair \in Pairs : from = pair[1] /\ to = pair[2]
  /\ ids \in (IF from \in {"anthropic", "commandcode"} THEN {TRUE} ELSE BOOLEAN)
  /\ said = <<>> /\ out = <<>> /\ end = "open"
  /\ dec = [met |-> <<>>, streamed |-> {}, started |-> ids /\ from = "grok", terminal |-> FALSE]
  /\ enc = [started |-> FALSE, map |-> <<>>, open |-> <<>>, next |-> 0,
            stopped |-> FALSE, used |-> FALSE, pend |-> <<>>]

\* One chunk is decoded, and each of its events encoded and flushed.
Receive ==
  /\ end = "open" /\ Len(said) < MaxChunks
  /\ \E c \in Says :
       /\ said' = Append(said, c)
       /\ dec' = Remembered(c)
       /\ IF DecodeFails(c)
          THEN end' = "error" /\ UNCHANGED <<enc, out>>
          ELSE \E s \in {FoldLeft(Encode, [enc |-> enc, out |-> out],
                                  Decode(c, Len(said) + 1))} :
                 enc' = s.enc /\ out' = s.out /\ UNCHANGED end
  /\ UNCHANGED <<from, to, ids>>

\* The body fails under the reader, or the client stops taking bytes.
Fail ==
  /\ end = "open" /\ end' = "error"
  /\ UNCHANGED <<from, to, ids, said, dec, enc, out>>

\* The body ends: termCheck, then finish.
Finish ==
  /\ end = "open"
  /\ IF from = "responses" /\ ~dec.terminal
     THEN end' = "error" /\ UNCHANGED <<enc, out>>
     ELSE \E s \in {FinishWith([enc |-> enc, out |-> out])} :
            end' = "clean" /\ enc' = s.enc /\ out' = s.out
  /\ UNCHANGED <<from, to, ids, said, dec>>

StreamNext == Receive \/ Fail \/ Finish

StreamSpec == StreamInit /\ [][StreamNext]_streamVars /\ WF_streamVars(Finish)

-----------------------------------------------------------------------------
(* What was said, and what the client puts together.                       *)

Indices(s, T(_)) == SelectSeq([n \in 1..Len(s) |-> n], LAMBDA n : T(s[n]))

SaidProse(y) == Indices(said, LAMBDA c : c.k = y)
HeardProse(y) ==
  FlattenSeq([n \in 1..Len(out) |-> IF out[n].k = "delta" /\ out[n].y = y THEN out[n].t ELSE <<>>])

\* The chunks that carry the arguments of call p.
SaidArgs(p) ==
  LET streamed == Indices(said, LAMBDA c : c.p = p /\ c.y = "tool" /\ (c.k = "args" \/ (c.k = "open" /\ c.full)))
      whole    == Indices(said, LAMBDA c : c.p = p /\ c.y = "tool" /\ (c.k = "whole" \/ c.full))
      opened   == \E n \in 1..Len(said) : said[n].p = p /\ said[n].k = "open"
  IN  IF streamed # <<>> \/ (opened /\ from = "commandcode") THEN streamed ELSE whole

CallsHeard == {n \in 1..Len(out) : out[n].k = "call" \/ (out[n].k = "begin" /\ out[n].y = "tool")}
HeardArgs(n) ==
  IF out[n].k = "call" THEN out[n].t
  ELSE FlattenSeq([m \in 1..Len(out) |->
         IF out[m].k = "delta" /\ out[m].y = "tool" /\ out[m].j = out[n].j
         THEN out[m].t ELSE <<>>])

\* Call p arrived, once, with its own arguments.
Arrived(p) ==
  \E n \in CallsHeard :
    /\ out[n].p = p /\ HeardArgs(n) = SaidArgs(p)
    /\ \A m \in CallsHeard \ {n} : out[m].p # p

\* Chunks of another call between two of one call.
Interleaved ==
  \E a, b, c \in 1..Len(said) :
    /\ a < b /\ b < c /\ 0 \notin {said[a].p, said[b].p}
    /\ said[a].p = said[c].p /\ said[b].p # said[a].p

Told == end = "clean" /\ Heard("fin")

-----------------------------------------------------------------------------
(* Properties.                                                             *)

\* An Anthropic client gets message_start first and once, blocks numbered in
\* the order they start, every delta inside an open block of its own type,
\* and every block stopped, once, before the end.
Blocked ==
  LET starts == Indices(out, LAMBDA o : o.k = "begin")
      StopOf(j) == {n \in 1..Len(out) : out[n].k = "stop" /\ out[n].j = j}
  IN  /\ out # <<>> => out[1].k = "role"
      /\ \A n \in 2..Len(out) : out[n].k # "role"
      /\ \A n \in 1..Len(starts) :
           /\ out[starts[n]].j = n - 1
           /\ Cardinality(StopOf(n - 1)) <= 1
           /\ \A m \in StopOf(n - 1) : starts[n] < m
           /\ end = "clean" => StopOf(n - 1) # {}
      /\ \A n \in 1..Len(out) : out[n].k = "delta" =>
           \E b \in 1..(n - 1) :
             /\ out[b].k = "begin" /\ out[b].j = out[n].j /\ out[b].y = out[n].y
             /\ \A m \in StopOf(out[n].j) : n < m

\* An OpenAI client gets tool calls numbered 0, 1, 2 in the order they begin,
\* arguments only for a call that has begun, at most one finish reason.
Chunked ==
  LET begins == Indices(out, LAMBDA o : o.k = "begin")
      ends   == Indices(out, LAMBDA o : o.k = "finish")
  IN  /\ \A n \in 1..Len(begins) : out[begins[n]].j = n - 1
      /\ \A n \in 1..Len(out) : out[n].k = "delta" /\ out[n].y = "tool" =>
           \E b \in 1..(n - 1) : out[b].k = "begin" /\ out[b].j = out[n].j
      /\ Len(ends) <= 1

\* Every stream a client gets is a legal stream of its format, and a clean
\* one ends with the format's terminator.
WellFormed ==
  /\ to = "anthropic" => Blocked
  /\ to = "openai" => Chunked
  /\ end = "clean" => Last(out).k = (IF to \in {"anthropic", "openai"} THEN "done" ELSE "finish")

\* A stream that says it finished delivers the text and the reasoning in full
\* and in order, and each tool call once, with its own name and arguments:
\* to OpenAI and Anthropic clients also when calls overlap; to Gemini clients
\* and aggregated replies when one call ends before the next begins.
Faithful ==
  Told =>
    /\ \A y \in {"text", "think"} : HeardProse(y) = SaidProse(y)
    /\ (\/ to \in {"openai", "anthropic"}
        \/ to = "reply" /\ ~Interleaved
        \/ to = "gemini" /\ from \in {"anthropic", "grok"} /\ ~Interleaved)
       => \A p \in ToolsSaid : Arrived(p)

\* A translated stream is legal in the client's format and tells what the
\* upstream told.
Translated == StreamTypeOK /\ WellFormed /\ Faithful

\* Violated: "Translation maps ... tool calls across all three formats."
CallsReachGemini == Told /\ to = "gemini" => \A p \in ToolsSaid : Arrived(p)

\* Violated: an error event in the stream reads as a clean end.
ErrorsSurface == Heard("error") => end # "clean"

\* Violated: a text block of an Anthropic stream begins a call nobody made.
NothingInvented == Told => \A n \in CallsHeard : out[n].p # 0
=============================================================================
