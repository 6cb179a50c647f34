----------------------------- MODULE MCControl -----------------------------
(***************************************************************************)
(* TLC instance of what the operator changes under a running gateway: the  *)
(* lines of its file, the edits and reloads that overlap, the state a      *)
(* reload carries over, the trackers that poll the vendors across one, and *)
(* the sessions of the dashboard.  They share no state, so a behaviour     *)
(* runs the one in focus and the others rest in an initial state.          *)
(***************************************************************************)
EXTENDS ConfigEdit, AdminSessions, StateReload, Subquota, TLC

CONSTANTS
  Files, Edits, MaxEdits

VARIABLES
  focus,
  toml, asked, edits, answer

Text  == INSTANCE ConfigText WITH file <- toml
Given == INSTANCE MCConfigText WITH Files <- {}, Edits <- {}, file <- toml

\* The hand-written files and the requests of ConfigText's instance.
MCFiles == Given!MCFiles
MCEdits == Given!MCEdits

\* What the proofs about edits assume of their editors.
ASSUME EditBounds == EditAssumption

\* Nothing tells one reload, or one edit, from another but its name.
Alike == Permutations(Reloaders) \cup Permutations(Editors)

text == <<toml, asked, edits, answer>>

MCInit ==
  /\ focus \in {"text", "counters", "marks", "conf", "visitors", "drains", "keys"}
  /\ IF focus = "text" THEN Text!Init
     ELSE toml = <<>> /\ asked = Text!NoEdit /\ edits = 0 /\ answer = "ok"
  /\ StateInit /\ Init /\ GuardInit /\ PollInit
  /\ focus # "conf" => writable /\ file["pw"] = Old

\* A state's counters and its marks are never read together: one of them moves.
Counters == StateNext /\ refused' = "no"
Marks    == StateNext /\ booked' = 0 /\ beside' = 0

\* Of the polled accounts one is drained now and then, or one changes its credential
\* while no vendor has anything to say: what a probe read and where its snapshot is
\* kept are never read together either.  Another account answers at once, but where
\* it holds up the second tracker's first poll.
One == CHOOSE a \in Subscribed : TRUE
AtOnce(t) ==
  \A a \in Subscribed \ {One} : probe[t][a].at = "idle" \/ probe'[t][a] # probe[t][a]

Drains ==
  /\ PollNext /\ UNCHANGED key /\ pollNow' < MaxPollTime
  /\ \A a \in Subscribed \ {One} : vendor'[a] = "spendable"
  /\ AtOnce(1) /\ AtOnce(2)

Keys ==
  /\ PollNext /\ UNCHANGED vendor
  /\ \A a \in Subscribed \ {One} : key'[a] = key[a]
  /\ \A t \in Trackers, a \in Subscribed : probe'[t][a].saw = "failed"
  /\ AtOnce(1) /\ \A a \in Subscribed : probe[2][a].at = "stored" => probe'[2][a].at = "idle"

MCNext ==
  \/ focus = "text" /\ Text!Next /\ UNCHANGED <<focus, stateVars, vars, guardVars, pollVars>>
  \/ focus = "counters" /\ Counters /\ UNCHANGED <<focus, text, vars, guardVars, pollVars>>
  \/ focus = "marks" /\ Marks /\ UNCHANGED <<focus, text, vars, guardVars, pollVars>>
  \/ focus = "conf" /\ Next /\ UNCHANGED <<focus, text, stateVars, guardVars, pollVars>>
  \/ focus = "visitors" /\ GuardNext /\ UNCHANGED <<focus, text, stateVars, vars, pollVars>>
  \/ focus = "drains" /\ Drains /\ UNCHANGED <<focus, text, stateVars, vars, guardVars>>
  \/ focus = "keys" /\ Keys /\ UNCHANGED <<focus, text, stateVars, vars, guardVars>>

MCSpec == MCInit /\ [][MCNext]_<<focus, text, stateVars, vars, guardVars, pollVars>>
-----------------------------------------------------------------------------
\* An edit does to the configuration what was asked, and nothing else (ConfigText).
EditsMean == Text!EditsMean

\* A comment on a line of its own goes only with a table that the edit drops
\* (ConfigText).
NotesKept == Text!NotesKept
=============================================================================
