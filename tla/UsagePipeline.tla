---------------------------- MODULE UsagePipeline ----------------------------
(***************************************************************************)
(* Usage accounting: requests observed into a tracker's counters, flush    *)
(* windows written to the store, a hot reload that swaps the tracker, and  *)
(* a crash.  UsagePush has the export of the windows.                      *)
(*                                                                         *)
(* One rollup key; a count stands for the row's counters, which move       *)
(* together.  Tracker 1 is live until the reload makes tracker 2 current.  *)
(* Each has its own flush loop.                                            *)
(***************************************************************************)
EXTENDS Naturals

CONSTANTS
  Observers,   \* handler goroutines finishing requests
  MaxObs,      \* bound: observations
  MaxCrash     \* bound: crashes

Trackers == 1..2

VARIABLES
  cur,      \* the tracker in the live state snapshot
  obs,      \* each observer's Observe: where it stands, on which tracker
  mem,      \* the bucket's atomic counter, per tracker
  scan,     \* each loop's flush: where it stands, the window it holds
  stop,     \* Tracker.stop closed
  ended,    \* the loop has returned
  db,       \* the store's counter
  booked,   \* observations made
  crashes,  \* crashes so far
  tally     \* where observations and windows went

vars == <<cur, obs, mem, scan, stop, ended, db, booked, crashes, tally>>

Free == [at |-> "idle", tracker |-> 1]
NoWindow == [at |-> "idle", n |-> 0, final |-> FALSE]

Causes == {"raced", "late", "sink", "crashed"}

TypeOK ==
  /\ cur \in Trackers
  /\ obs \in [Observers -> [at : {"idle", "taken", "pointed"}, tracker : Trackers]]
  /\ mem \in [Trackers -> Nat]
  /\ scan \in [Trackers -> [at : {"idle", "loaded", "zeroed", "sunk"}, n : Nat,
                              final : BOOLEAN]]
  /\ {stop, ended} \subseteq [Trackers -> BOOLEAN]
  /\ {db, booked, crashes} \subseteq Nat
  /\ tally \in [Causes -> Nat]

Init ==
  /\ cur = 1 /\ obs = [o \in Observers |-> Free] /\ mem = [t \in Trackers |-> 0]
  /\ scan = [t \in Trackers |-> NoWindow]
  /\ stop = [t \in Trackers |-> FALSE] /\ ended = [t \in Trackers |-> FALSE]
  /\ db = 0
  /\ booked = 0 /\ crashes = 0 /\ tally = [x \in Causes |-> 0]

-----------------------------------------------------------------------------
(* Observe: take the snapshot's tracker, find the bucket under the shard   *)
(* lock, add to its counters after the unlock.                             *)

Take(o) ==
  /\ obs[o].at = "idle" /\ booked < MaxObs
  /\ obs' = [obs EXCEPT ![o] = [at |-> "taken", tracker |-> cur]]
  /\ UNCHANGED <<cur, mem, scan, stop, ended, db, booked, crashes, tally>>

Point(o) ==
  /\ obs[o].at = "taken" /\ scan[obs[o].tracker].at # "loaded"
  /\ obs' = [obs EXCEPT ![o].at = "pointed"]
  /\ UNCHANGED <<cur, mem, scan, stop, ended, db, booked, crashes, tally>>

Add(o) ==
  /\ obs[o].at = "pointed"
  /\ obs' = [obs EXCEPT ![o] = Free]
  /\ mem' = [mem EXCEPT ![obs[o].tracker] = @ + 1]
  /\ booked' = booked + 1
  /\ tally' = [tally EXCEPT !["late"] = @ + IF stop[obs[o].tracker] THEN 1 ELSE 0]
  /\ UNCHANGED <<cur, scan, stop, ended, db, crashes>>

-----------------------------------------------------------------------------
(* flushOnce: under the shard lock the counters are loaded, then stored    *)
(* to zero; then the sink, then the pusher.                                *)

\* The loop's select: a tick, or the closed stop channel, which makes this
\* flush the last one.
Load(t, final) ==
  /\ scan[t].at = "idle" /\ ~ended[t] /\ (t = cur \/ stop[t]) /\ (final => stop[t])
  /\ scan' = [scan EXCEPT ![t] = [at |-> "loaded", n |-> mem[t], final |-> final]]
  /\ UNCHANGED <<cur, obs, mem, stop, ended, db, booked, crashes, tally>>

\* A stopped loop returns without its last flush.
Mut_LoadLast_Returns(t) ==
  /\ scan[t].at = "idle" /\ ~ended[t] /\ stop[t]
  /\ ended' = [ended EXCEPT ![t] = TRUE]
  /\ UNCHANGED <<cur, obs, mem, scan, stop, db, booked, crashes, tally>>

LoadLast(t) == Load(t, TRUE)

\* The counters are read, never cleared.
Mut_Zero_Keeps(t) ==
  /\ scan[t].at = "loaded"
  /\ scan' = [scan EXCEPT ![t].at = "zeroed"]
  /\ UNCHANGED <<cur, obs, mem, stop, ended, db, booked, crashes, tally>>

\* An Add between the load and this store is wiped with it.
Zero(t) ==
  /\ scan[t].at = "loaded"
  /\ scan' = [scan EXCEPT ![t].at = "zeroed"]
  /\ mem' = [mem EXCEPT ![t] = 0]
  /\ tally' = [tally EXCEPT !["raced"] = @ + (mem[t] - scan[t].n)]
  /\ UNCHANGED <<cur, obs, stop, ended, db, booked, crashes>>

\* Store.FlushBuckets commits the window or, its error ignored, loses it.
Sink(t) ==
  /\ scan[t].at = "zeroed"
  /\ scan' = [scan EXCEPT ![t].at = "sunk"]
  /\ \/ db' = db + scan[t].n /\ UNCHANGED tally
     \/ tally' = [tally EXCEPT !["sink"] = @ + scan[t].n] /\ UNCHANGED db
  /\ UNCHANGED <<cur, obs, mem, stop, ended, booked, crashes>>

\* The window goes to the pusher; after the last flush the loop returns.
AfterFlush(t) ==
  /\ scan[t].at = "sunk"
  /\ scan' = [scan EXCEPT ![t] = NoWindow]
  /\ ended' = [ended EXCEPT ![t] = scan[t].final]
  /\ UNCHANGED <<cur, obs, mem, stop, db, booked, crashes, tally>>

-----------------------------------------------------------------------------
\* apply: the new tracker is live, then the old one is stopped.
Swap ==
  /\ cur = 1 /\ cur' = 2 /\ stop' = [stop EXCEPT ![1] = TRUE]
  /\ UNCHANGED <<obs, mem, scan, ended, db, booked, crashes, tally>>

Unsunk(t) == IF scan[t].at = "zeroed" THEN scan[t].n ELSE 0
Owed == mem[1] + mem[2] + Unsunk(1) + Unsunk(2)

\* The process dies and starts again: what was committed remains.
Crash ==
  /\ crashes < MaxCrash /\ crashes' = crashes + 1
  /\ tally' = [tally EXCEPT !["crashed"] = @ + Owed]
  /\ cur' = 1 /\ obs' = [o \in Observers |-> Free] /\ mem' = [t \in Trackers |-> 0]
  /\ scan' = [t \in Trackers |-> NoWindow] /\ stop' = [t \in Trackers |-> FALSE]
  /\ ended' = [t \in Trackers |-> FALSE]
  /\ UNCHANGED <<db, booked>>

Next ==
  \/ \E o \in Observers : Take(o) \/ Point(o) \/ Add(o)
  \/ \E t \in Trackers : Load(t, FALSE) \/ LoadLast(t) \/ Zero(t) \/ Sink(t) \/ AfterFlush(t)
  \/ Swap \/ Crash

Spec == Init /\ [][Next]_vars

\* The loops are scheduled; a select that keeps
\* finding the stop channel closed takes it some time (it picks at random).
Fairness ==
  \A t \in Trackers :
    SF_vars(LoadLast(t)) /\ WF_vars(Zero(t) \/ Sink(t) \/ AfterFlush(t))

FairSpec == Spec /\ Fairness

-----------------------------------------------------------------------------
\* The store is an implementation of the ledger: no interleaving of adds,
\* flushes, the swap and a crash records an observation twice.
L == INSTANCE Ledger WITH seen <- booked, owed <- Owed, recorded <- db

Records == L!Spec

\* Every observation is in the store, in memory, or in a loss with a name:
\* wiped between load and store, refused by the sink, or in a crash.
Explained ==
  booked = db + Owed + tally["raced"] + tally["sink"] + tally["crashed"]

\* A replaced tracker's loop leaves nothing behind: what its counters still
\* hold when it has returned was added after the reload stopped it.
OldFlushed == \A t \in Trackers : (ended[t] /\ tally["late"] = 0) => mem[t] = 0

\* Tracker.Stop returns, so the reload does.
Stopping == stop[1] /\ ~ended[1]
StopReturns == Stopping ~> ~Stopping

\* No observation is forgotten in silence, neither by the ledger as a whole
\* nor by a tracker that a reload replaced.
Kept == TypeOK /\ Explained /\ OldFlushed
=============================================================================
