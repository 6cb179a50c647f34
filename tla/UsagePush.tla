------------------------------ MODULE UsagePush ------------------------------
(***************************************************************************)
(* Pusher: flushed windows delivered to a remote aggregator by one         *)
(* goroutine at a time, two attempts a batch, windows that finish while it *)
(* is busy summed into the next batch.  The aggregator imports a batch as  *)
(* a delta in one transaction; its answer may be lost.                     *)
(***************************************************************************)
EXTENDS Naturals

CONSTANTS
  Sizes,      \* requests a flush window can hold
  MaxWindows  \* bound: windows

ASSUME PushAssumption == Sizes \subseteq Nat

VARIABLES
  sending,    \* a delivery goroutine runs
  batch,      \* the rows it delivers
  attempt,    \* attempts made for the batch
  pending,    \* windows flushed meanwhile, summed per key
  agg,        \* the aggregator's counter
  windows,    \* windows flushed
  handed, givenUp, doubled   \* requests handed over, given up, imported twice

pushVars == <<sending, batch, attempt, pending, agg, windows, handed, givenUp, doubled>>

PushInit ==
  /\ sending = FALSE /\ batch = 0 /\ attempt = 0 /\ pending = 0
  /\ agg = 0 /\ windows = 0 /\ handed = 0 /\ givenUp = 0 /\ doubled = 0

-----------------------------------------------------------------------------
\* The window of a busy pusher replaces the one that waits.
Mut_sumRows_Replaces(dst, src) == src

\* sumRows: rows of one key add up.
sumRows(dst, src) == dst + src

\* AfterFlush: never blocks the flush loop.
AfterPush(n) ==
  /\ windows < MaxWindows
  /\ windows' = windows + 1 /\ handed' = handed + n
  /\ IF sending
     THEN pending' = sumRows(pending, n) /\ UNCHANGED <<sending, batch, attempt>>
     ELSE sending' = TRUE /\ batch' = n /\ attempt' = 0 /\ UNCHANGED pending
  /\ UNCHANGED <<agg, givenUp, doubled>>

\* A drained worker leaves itself marked in flight.
Mut_NextBatch_StaysMarked ==
  /\ pending' = 0 /\ attempt' = 0
  /\ IF pending = 0 THEN batch' = 0 /\ UNCHANGED sending
     ELSE batch' = pending /\ UNCHANGED sending

\* worker: the pending windows are the next batch, or the goroutine ends.
NextBatch ==
  /\ pending' = 0 /\ attempt' = 0
  /\ IF pending = 0 THEN sending' = FALSE /\ batch' = 0
     ELSE batch' = pending /\ UNCHANGED sending

\* deliver: the aggregator answers 200.
Delivered ==
  /\ sending /\ agg' = agg + batch /\ NextBatch
  /\ UNCHANGED <<windows, handed, givenUp, doubled>>

\* deliver: the attempt fails; the batch may have been imported all the same
\* (handleUsageImport, a delta is summed).
Failed ==
  /\ sending
  /\ \E arrived \in BOOLEAN :
       /\ agg' = IF arrived THEN agg + batch ELSE agg
       /\ IF attempt = 0
          THEN /\ attempt' = 1
               /\ doubled' = IF arrived THEN doubled + batch ELSE doubled
               /\ UNCHANGED <<sending, batch, pending, givenUp>>
          ELSE /\ NextBatch
               /\ givenUp' = givenUp + IF arrived THEN 0 ELSE batch
               /\ UNCHANGED doubled
  /\ UNCHANGED <<windows, handed>>

PushNext == (\E n \in Sizes : AfterPush(n)) \/ Delivered \/ Failed

PushSpec == PushInit /\ [][PushNext]_pushVars

\* The goroutine's request ends within the client's timeout, either way.
PushFairness == WF_pushVars(Delivered \/ Failed)

FairPushSpec == PushSpec /\ PushFairness

-----------------------------------------------------------------------------
\* Every window handed over is at the aggregator, on its way, or given up;
\* only a batch whose answer was lost is there twice.
PushAccounted ==
  agg + batch + pending + givenUp = handed + doubled

\* The goroutine ends when nothing is left, so a later window starts another.
Undelivered == sending \/ pending # 0
PushRests == Undelivered ~> ~Undelivered
=============================================================================
