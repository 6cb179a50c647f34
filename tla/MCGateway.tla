----------------------------- MODULE MCGateway ------------------------------
(***************************************************************************)
(* TLC instance of what happens to one request between its plan and the    *)
(* last byte of its answer: Execute's loop in full, the gateway's pipeline *)
(* and its relays.  The two share no state, so a behaviour runs the one in *)
(* focus and the other rests in a state in which nothing is left to do.    *)
(***************************************************************************)
EXTENDS Gateway, RouterExecute, MCRoutePlans

VARIABLE focus

Relayed(path, same, sse, failover, ndjson, text) ==
  [path |-> path, same |-> same, sse |-> sse, named |-> TRUE, failover |-> failover,
   text |-> text, ndjson |-> ndjson]

\* Gemini's stream has no error frame.
Req(surface, whole, combo, m) ==
  [surface |-> surface, whole |-> whole, combo |-> combo,
   mode |-> [m EXCEPT !.named = surface # "gemini"]]

\* Direct and combo routes, same format and translated, streamed and whole.
AllRequests ==
  {Req("openai", TRUE, FALSE, Relayed("pipe", TRUE, TRUE, FALSE, FALSE, TRUE)),
   Req("openai", FALSE, FALSE, Relayed("pipe", TRUE, FALSE, FALSE, FALSE, FALSE)),
   Req("openai", TRUE, TRUE, Relayed("pipe", TRUE, TRUE, TRUE, FALSE, TRUE)),
   Req("gemini", TRUE, TRUE, Relayed("pipe", FALSE, TRUE, TRUE, FALSE, TRUE)),
   Req("openai", TRUE, TRUE, Relayed("pipe", FALSE, TRUE, FALSE, TRUE, TRUE)),
   Req("openai", TRUE, FALSE, Relayed("aggregate", FALSE, FALSE, FALSE, FALSE, TRUE)),
   Req("openai", TRUE, FALSE, Relayed("buffered", FALSE, FALSE, FALSE, FALSE, TRUE))}

-----------------------------------------------------------------------------
\* What the proofs about Execute assume of the plans.
ASSUME ExecBounds == RouterAssumption

MCInit ==
  /\ focus \in {"gateway", "execute"}
  /\ Handed /\ stage = IF focus = "gateway" THEN "start" ELSE "done"
  /\ ExecEntry /\ place = IF focus = "execute" THEN "target" ELSE "returned"
  /\ focus # "gateway" => req = CHOOSE r \in Requests : TRUE
  /\ focus # "execute" => /\ plan = CHOOSE p \in Plans : TRUE
                          /\ ready = [t \in DOMAIN plan.targets |-> {}]

MCNext ==
  \/ focus = "gateway" /\ Next /\ UNCHANGED <<focus, execVars>>
  \/ focus = "execute" /\ ExecNext /\ UNCHANGED <<focus, vars>>

\* In a part at rest no fair action is enabled.
MCSpec ==
  MCInit /\ [][MCNext]_<<focus, vars, execVars>> /\ Fairness /\ ExecFairness
=============================================================================
