---------------------------- MODULE StateReload -----------------------------
(***************************************************************************)
(* apply (server.go): a reload builds a new state beside the live one,     *)
(* inherits the live quota counters, carries the terminal account marks    *)
(* over, swaps the state and stops the old trackers, while requests that   *)
(* hold the old state go on.  An admin edit applies under cfgMu, SIGHUP    *)
(* does not: two reloads may overlap.  A restart seeds the quota counters  *)
(* from the store (internal/quota, store/quota.go), whose usage rows are   *)
(* of whole hours and of every node; how much of the use has reached them  *)
(* when they are read is UsagePipeline's matter, and left open here.       *)
(*                                                                         *)
(* One provider with one credential and windows on a fixed grid (calendar  *)
(* or anchored); a generation is one built state.                          *)
(***************************************************************************)
EXTENDS Naturals

CONSTANTS
  Reloaders,   \* SIGHUP, an admin edit
  Requests,
  MaxGen,      \* bound: states built
  MaxWindow,   \* bound: quota windows
  MaxBooked,   \* bound: observations in a window, and use beside it
  MaxRestart   \* bound: crashes

ASSUME StateAssumption == MaxGen \in Nat \ {0}

Gens == 1..MaxGen

VARIABLES
  serving,   \* the generation requests see
  built,     \* generations built so far
  gen,       \* each generation: its window's counter, terminal mark, tracker
  reload,    \* where each reloader's apply stands
  req,       \* each request: the state it took, when
  window,    \* the current quota window
  row,       \* the provider's row in quota_state
  booked,    \* history: observations in the current window
  beside,    \* history: other use in the hours of the window, the one it began in included
  strayed,   \* history: observations the live counter may be missing
  refused,   \* history: the vendor refused the credential, "carried" or "late"
  crashes    \* bound

stateVars ==
  <<serving, built, gen, reload, req, window, row, booked, beside, strayed, refused, crashes>>

NoWindow == [start |-> 0, used |-> 0]
Fresh == [quota |-> NoWindow, dead |-> FALSE, stopped |-> FALSE]
NoReload == [at |-> "idle", gen |-> 1, old |-> 1]
Away == [at |-> "idle", gen |-> 1, stamp |-> 1]

StateInit ==
  /\ serving = 1 /\ built = 1 /\ gen = [g \in Gens |-> Fresh]
  /\ reload = [l \in Reloaders |-> NoReload] /\ req = [r \in Requests |-> Away]
  /\ window = 1 /\ row = NoWindow
  /\ booked = 0 /\ beside = 0 /\ strayed = 0 /\ refused = "no" /\ crashes = 0

-----------------------------------------------------------------------------
\* Quota counters (quota.go).

\* roll, then the addition.  A stamp of an earlier window rolls back.
Observed(q, stamp) ==
  IF q.start = stamp THEN [q EXCEPT !.used = @ + 1] ELSE [start |-> stamp, used |-> 1]

\* rollupSum: whole hours, of every node, as far as they are flushed.
Rollups == 0..(booked + beside)

\* A plausible bug: the rollups are added to the persisted row.
Mut_seed_Adds(sum) ==
  IF row.start = window THEN [row EXCEPT !.used = @ + sum]
  ELSE IF sum > 0 THEN [start |-> window, used |-> sum] ELSE NoWindow

\* seed: the persisted row while its window is current, else the rollups.
seed(sum) ==
  IF row.start = window THEN row
  ELSE IF sum > 0 THEN [start |-> window, used |-> sum] ELSE NoWindow

\* What a tracker counts of the current window (Status).
Used(q) == IF q.start = window THEN q.used ELSE 0

\* flush: the row is replaced, if anything was ever observed.
Saved(q) == IF q.start = 0 THEN row ELSE q

-----------------------------------------------------------------------------
\* A request: it takes the live state, and later books its use in that
\* state's tracker or learns that its account is refused for good.
Take(r) ==
  /\ req[r].at = "idle"
  /\ req' = [req EXCEPT ![r] = [at |-> "busy", gen |-> serving, stamp |-> window]]
  /\ UNCHANGED <<serving, built, gen, reload, window, row,
                 booked, beside, strayed, refused, crashes>>

\* Some reload has read what this request is about to write.
ReadBy(stages) == \E l \in Reloaders : reload[l].at \in stages

\* quota.Tracker.Observe.  A write the next live tracker will not see, or one
\* stamped before the window turned, makes the live count uncertain; the use of
\* the latter may lie in the hour in which the window turned.
Observe(r) ==
  LET g == req[r].gen
      current == req[r].stamp = window
      seen == current /\ g = serving /\ ~ReadBy({"inherited", "carried"})
  IN  /\ req[r].at = "busy" /\ booked < MaxBooked
      /\ req' = [req EXCEPT ![r] = Away]
      /\ gen' = [gen EXCEPT ![g].quota = Observed(@, req[r].stamp)]
      /\ booked' = booked + IF current THEN 1 ELSE 0
      /\ beside' \in {beside, beside + IF current THEN 0 ELSE 1}
      /\ strayed' = IF ~current THEN booked ELSE strayed + IF seen THEN 0 ELSE 1
      /\ UNCHANGED <<serving, built, reload, window, row, refused, crashes>>

\* accountPool.invalidate on the pool the request holds.
Refuse(r) ==
  LET g == req[r].gen IN
  /\ req[r].at = "busy"
  /\ req' = [req EXCEPT ![r] = Away]
  /\ gen' = [gen EXCEPT ![g].dead = TRUE]
  /\ refused' = IF refused = "carried" \/ (g = serving /\ ~ReadBy({"carried"}))
                THEN "carried" ELSE "late"
  /\ UNCHANGED <<serving, built, reload, window, row, booked, beside, strayed, crashes>>

-----------------------------------------------------------------------------
\* apply, one step for each read or write of shared state.
Build(l) ==
  /\ reload[l].at = "idle" /\ built < MaxGen
  /\ built' = built + 1
  /\ \E sum \in Rollups : gen' = [gen EXCEPT ![built + 1] = [Fresh EXCEPT !.quota = seed(sum)]]
  /\ reload' = [reload EXCEPT ![l] = [at |-> "built", gen |-> built + 1, old |-> 1]]
  /\ UNCHANGED <<serving, req, window, row, booked, beside, strayed, refused, crashes>>

\* A plausible bug: the inherited counter is added to the seeded one.
Mut_Inherited_Adds(mine, theirs) ==
  IF theirs.start = 0 THEN mine ELSE [theirs EXCEPT !.used = @ + Used(mine)]

\* A plausible bug: only a tracker without a seed inherits.
Mut_Inherited_SeedWins(mine, theirs) == IF mine.start = 0 THEN theirs ELSE mine

\* Tracker.Inherit: the live counter replaces the seed, if it ever counted.
Inherited(mine, theirs) == IF theirs.start = 0 THEN mine ELSE theirs

Inherit(l) ==
  LET g == reload[l].gen IN
  /\ reload[l].at = "built"
  /\ gen' = [gen EXCEPT ![g].quota = Inherited(@, gen[serving].quota)]
  /\ reload' = [reload EXCEPT ![l].at = "inherited"]
  /\ UNCHANGED <<serving, built, req, window, row, booked, beside, strayed, refused, crashes>>

\* A plausible bug (#80): a reload resurrects a refused credential.
Mut_Carried_Not(mine, theirs) == mine

Carried(mine, theirs) == mine \/ theirs

\* CarryInvalidated, from the state live at this moment.
CarryInvalidated(l) ==
  LET g == reload[l].gen IN
  /\ reload[l].at = "inherited"
  /\ gen' = [gen EXCEPT ![g].dead = Carried(@, gen[serving].dead)]
  /\ reload' = [reload EXCEPT ![l].at = "carried", ![l].old = serving]
  /\ UNCHANGED <<serving, built, req, window, row, booked, beside, strayed, refused, crashes>>

\* A state stored over a younger one takes with it what that one learned.
Store(l) ==
  /\ reload[l].at = "carried"
  /\ serving' = reload[l].gen
  /\ reload' = [reload EXCEPT ![l].at = "stored"]
  /\ refused' = IF refused = "carried" /\ reload[l].old # serving /\ ~gen[reload[l].gen].dead
                THEN "late" ELSE refused
  /\ UNCHANGED <<built, gen, req, window, row, booked, beside, strayed, crashes>>

\* Stop, with the last flush, of the state CarryInvalidated saw.
StopOld(l) ==
  LET o == reload[l].old IN
  /\ reload[l].at = "stored"
  /\ row' = IF gen[o].stopped THEN row ELSE Saved(gen[o].quota)
  /\ gen' = [gen EXCEPT ![o].stopped = TRUE]
  /\ reload' = [reload EXCEPT ![l] = NoReload]
  /\ UNCHANGED <<serving, built, req, window, booked, beside, strayed, refused, crashes>>

-----------------------------------------------------------------------------
\* The loop of any tracker not stopped, the live one or not.
Flush(g) ==
  /\ g <= built /\ ~gen[g].stopped /\ row' = Saved(gen[g].quota) /\ row' # row
  /\ UNCHANGED <<serving, built, gen, reload, req, window,
                 booked, beside, strayed, refused, crashes>>

\* Another node used the provider; its rows are in the same store.
NodeReports ==
  /\ beside < MaxBooked /\ beside' = beside + 1
  /\ UNCHANGED <<serving, built, gen, reload, req, window, row, booked,
                 strayed, refused, crashes>>

\* It turns within an hour: whatever of the old use lies in that hour is in the
\* rows of the new window too.
WindowTurns ==
  /\ window < MaxWindow /\ window' = window + 1
  /\ beside' \in Rollups /\ booked' = 0 /\ strayed' = 0
  /\ UNCHANGED <<serving, built, gen, reload, req, row, refused, crashes>>

\* Restart: what the store has of the window is what is left.
Restart ==
  /\ crashes < MaxRestart /\ crashes' = crashes + 1
  /\ serving' = 1 /\ built' = 1
  /\ \E sum \in Rollups :
       LET q == seed(sum) IN
       /\ gen' = [g \in Gens |-> IF g = 1 THEN [Fresh EXCEPT !.quota = q] ELSE Fresh]
       /\ strayed' = IF booked > Used(q) THEN booked - Used(q) ELSE 0
  /\ reload' = [l \in Reloaders |-> NoReload] /\ req' = [r \in Requests |-> Away]
  /\ refused' = "no"
  /\ UNCHANGED <<window, row, booked, beside>>

StateNext ==
  \/ \E r \in Requests : Take(r) \/ Observe(r) \/ Refuse(r)
  \/ \E l \in Reloaders : \/ Build(l) \/ Inherit(l) \/ CarryInvalidated(l)
                          \/ Store(l) \/ StopOld(l)
  \/ \E g \in Gens : Flush(g)
  \/ NodeReports \/ WindowTurns \/ Restart

StateSpec == StateInit /\ [][StateNext]_stateVars

-----------------------------------------------------------------------------
(* The live counter is never above what was observed in the window, but    *)
(* for what the store's rows hold beside it: use of the hour in which the  *)
(* window turned, and of other nodes.  Seed, inherited counter and rollups *)
(* describe the same use and are never added up, whatever overlaps         *)
(* (quota.seed, Inherit, apply); an overcount closes a provider that still *)
(* has quota.                                                              *)
NeverOvercount == Used(gen[serving].quota) <= booked + beside

(* "Counters seed from the store and inherit live state across hot         *)
(* reloads" (apply), up to the observations made while an apply is between *)
(* its Inherit and its Store, in a state already replaced, or stamped      *)
(* before the window turned; after a restart, up to the unflushed ones.    *)
QuotaSurvives == Used(gen[serving].quota) + strayed >= booked

(* "Terminal billing state survives a reload" (apply), when the refusal    *)
(* came before CarryInvalidated and no overlapping reload stores an older  *)
(* state over a younger one.                                               *)
TerminalSurvives == refused = "carried" => gen[serving].dead

(* A reload neither loses, nor adds up twice, what its predecessor knew.   *)
StateCarried == NeverOvercount /\ QuotaSurvives /\ TerminalSurvives
=============================================================================
