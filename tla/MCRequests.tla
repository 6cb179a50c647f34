----------------------------- MODULE MCRequests -----------------------------
(***************************************************************************)
(* TLC instance of the parts a request passes around its upstream calls:   *)
(* the memory it reserves, the cache of idempotent results, the order of a *)
(* combo (by rotation, by measured speed, by difficulty) and the           *)
(* translation of a streamed answer.  The parts share no state, so a       *)
(* behaviour runs the one in focus and the others rest in an initial       *)
(* state.                                                                  *)
(***************************************************************************)
EXTENDS ByteBudget, Idempotency, RoundRobin, TaskOrder, TLC, MCRoutePlans

CONSTANTS
  MaxTools, MaxChunks

VARIABLES
  focus,
  upstream, to, ids, said, dec, enc, out, end

-----------------------------------------------------------------------------
\* The order of the combo, and the one in which task routing puts the last
\* target first.
Tasked == {[i \in 0 .. (N - 1) |-> i], [i \in 0 .. (N - 1) |-> (i + N - 1) % N]}

\* Upstream and client formats; "reply" is a stream collected into one answer.
Clients == {"openai", "anthropic", "gemini"}
Formats ==
  {pair \in (Clients \cup {"responses", "grok", "commandcode"}) \X Clients : pair[1] # pair[2]}
  \cup ({"openai", "grok", "commandcode"} \X {"reply"})

Wire == INSTANCE WireStream WITH Pairs <- Formats, from <- upstream

wire == <<upstream, to, ids, said, dec, enc, out, end>>

MCInit ==
  /\ focus \in {"budget", "idem", "rota", "wire", "speed", "task"}
  /\ Init /\ RotaInit /\ SpeedInit
  /\ CacheInit /\ (focus # "idem" => \A r \in Callers : key[r] = CHOOSE k \in Keys : TRUE)
  /\ Wire!StreamInit /\ (focus # "wire" => upstream = "openai" /\ to = "gemini" /\ ids)
  /\ TaskInit
  /\ focus # "task" => /\ legs = CHOOSE l \in Combos : TRUE
                       /\ kit = CHOOSE k \in Kits : TRUE
                       /\ chars = CHOOSE n \in Texts : TRUE
                       /\ words = {} /\ ~image

MCNext ==
  \/ focus = "budget" /\ Next /\ UNCHANGED <<focus, cacheVars, rotaVars, wire, speedVars, talkVars>>
  \/ focus = "idem" /\ CacheNext /\ UNCHANGED <<focus, vars, rotaVars, wire, speedVars, talkVars>>
  \/ focus = "rota" /\ RotaNext /\ UNCHANGED <<focus, vars, cacheVars, wire, speedVars, talkVars>>
  \/ focus = "wire" /\ Wire!StreamNext /\ UNCHANGED <<focus, vars, cacheVars, rotaVars, speedVars, talkVars>>
  \/ focus = "speed" /\ SpeedNext /\ UNCHANGED <<focus, vars, cacheVars, rotaVars, wire, talkVars>>
  \/ focus = "task" /\ TaskNext /\ UNCHANGED <<focus, vars, cacheVars, rotaVars, wire, speedVars>>

\* In a part at rest no fair action is enabled.
MCSpec ==
  MCInit /\ [][MCNext]_<<focus, vars, cacheVars, rotaVars, wire, speedVars, talkVars>> /\ Fairness /\ CacheFairness
-----------------------------------------------------------------------------
\* Nobody waits for ever: a queued request leaves the queue (ByteBudget), and
\* a retry is not held (Idempotency).
WaitsEnd == QueueEnds /\ WaitIsBounded

\* A translated stream is a legal one of the client's format and says what
\* the upstream said (WireStream).
Translated == Wire!Translated
=============================================================================
