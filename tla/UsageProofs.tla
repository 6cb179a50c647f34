----------------------------- MODULE UsageProofs -----------------------------
(***************************************************************************)
(* Usage accounting implements the ledger, and every observation it made   *)
(* is stored, owed or lost for a named cause, for any number of observers. *)
(* What is owed sits in two counters and in at most two windows, so a step *)
(* of the code is a step of the ledger as soon as a window never holds     *)
(* more than the counter it was read from (Windows).                       *)
(*                                                                         *)
(* The push of the windows adds up, because a pusher that is not running   *)
(* has nothing left to deliver (PushInv).                                  *)
(***************************************************************************)
EXTENDS UsagePipeline, UsagePush, TLAPS

(* A window under way: what it holds is still in the counter until the     *)
(* counter is cleared, and a last window leaves nothing behind it but what *)
(* came after the stop.                                                    *)
Windows ==
  \A t \in Trackers :
    /\ scan[t].at = "loaded" => scan[t].n <= mem[t]
    /\ scan[t].final => stop[t]
    /\ scan[t].final /\ scan[t].at \in {"zeroed", "sunk"} /\ tally["late"] = 0 => mem[t] = 0
    /\ ended[t] => stop[t]

IInv == TypeOK /\ Windows /\ Explained /\ OldFlushed

-----------------------------------------------------------------------------
(* What is owed is a number, and the code's two trackers are all there is. *)
LEMMA OwedType ==
  ASSUME TypeOK
  PROVE  /\ Owed \in Nat /\ Unsunk(1) \in Nat /\ Unsunk(2) \in Nat
         /\ 1 \in Trackers /\ 2 \in Trackers /\ \A t \in Trackers : t = 1 \/ t = 2
BY DEF TypeOK, Owed, Unsunk, Trackers

(* How the parts of what is owed change when one tracker's do.             *)
LEMMA OwedParts ==
  ASSUME TypeOK, TypeOK', NEW t \in Trackers,
         \A u \in Trackers : u # t => mem'[u] = mem[u] /\ scan'[u] = scan[u]
  PROVE  Owed' - Owed = (mem'[t] + Unsunk(t)') - (mem[t] + Unsunk(t))
<1>1. CASE t = 1
  <2>1. mem'[2] = mem[2] /\ scan'[2] = scan[2] BY <1>1, OwedType
  <2> QED BY <1>1, <2>1 DEF TypeOK, Owed, Unsunk, Trackers
<1>2. CASE t = 2
  <2>1. mem'[1] = mem[1] /\ scan'[1] = scan[1] BY <1>2, OwedType
  <2> QED BY <1>2, <2>1 DEF TypeOK, Owed, Unsunk, Trackers
<1> QED BY <1>1, <1>2, OwedType

(* Well-typed states stay well typed.                                      *)
LEMMA StepTypes == ASSUME IInv, [Next]_vars PROVE TypeOK'
<1> USE DEF IInv, TypeOK
<1>1. ASSUME NEW o \in Observers, Take(o) \/ Point(o) PROVE TypeOK' BY <1>1 DEF Take, Point
<1>2. ASSUME NEW o \in Observers, Add(o) PROVE TypeOK' BY <1>2 DEF Add, Free, Trackers, Causes
<1>3. ASSUME NEW t \in Trackers, NEW final \in BOOLEAN, Load(t, final) PROVE TypeOK' BY <1>3 DEF Load
<1>4. ASSUME NEW t \in Trackers, Zero(t) PROVE TypeOK'
  <2>1. mem[t] - scan[t].n \in Nat BY <1>4 DEF Zero, Windows
  <2>2. tally' \in [Causes -> Nat] BY <1>4, <2>1 DEF Zero, Causes
  <2>3. mem' \in [Trackers -> Nat] BY <1>4 DEF Zero
  <2> QED BY <1>4, <2>2, <2>3 DEF Zero
<1>5. ASSUME NEW t \in Trackers, Sink(t) PROVE TypeOK'
  <2>1. tally' \in [Causes -> Nat] BY <1>5 DEF Sink, Causes
  <2>2. db' \in Nat BY <1>5 DEF Sink
  <2> QED BY <1>5, <2>1, <2>2 DEF Sink
<1>6. ASSUME NEW t \in Trackers, AfterFlush(t) PROVE TypeOK' BY <1>6 DEF AfterFlush, NoWindow
<1>7. CASE Swap BY <1>7 DEF Swap, Trackers
<1>8. CASE Crash
  <2>1. tally' \in [Causes -> Nat] BY <1>8, OwedType DEF Crash, Causes
  <2> QED BY <1>8, <2>1 DEF Crash, Free, NoWindow, Trackers
<1>9. CASE UNCHANGED vars BY <1>9 DEF vars
<1> QED BY <1>1, <1>2, <1>3, <1>4, <1>5, <1>6, <1>7, <1>8, <1>9 DEF Next, LoadLast

(* Only its own flush clears a counter, so a window stays within it; what  *)
(* is added to a stopped tracker is late.                                  *)
LEMMA StepWindows == ASSUME IInv, [Next]_vars PROVE Windows' /\ OldFlushed'
<1> USE DEF IInv, TypeOK, Windows, OldFlushed
<1>1. ASSUME NEW o \in Observers, Take(o) \/ Point(o) PROVE Windows' /\ OldFlushed' BY <1>1 DEF Take, Point
<1>2. ASSUME NEW o \in Observers, Add(o) PROVE Windows' /\ OldFlushed'
  <2>1. obs[o].tracker \in Trackers /\ tally["late"] \in Nat BY DEF Causes
  <2>2. tally'["late"] = tally["late"] + IF stop[obs[o].tracker] THEN 1 ELSE 0 BY <1>2 DEF Add, Causes
  <2>3. \A t \in Trackers : mem'[t] = IF t = obs[o].tracker THEN mem[t] + 1 ELSE mem[t] BY <1>2 DEF Add
  <2> QED BY <1>2, <2>1, <2>2, <2>3 DEF Add
<1>3. ASSUME NEW t \in Trackers, NEW final \in BOOLEAN, Load(t, final) PROVE Windows' /\ OldFlushed' BY <1>3 DEF Load
<1>4. ASSUME NEW t \in Trackers, Zero(t) PROVE Windows' /\ OldFlushed'
  <2>1. tally'["late"] = tally["late"] BY <1>4 DEF Zero, Causes
  <2> QED BY <1>4, <2>1 DEF Zero
<1>5. ASSUME NEW t \in Trackers, Sink(t) PROVE Windows' /\ OldFlushed'
  <2>1. tally'["late"] = tally["late"] BY <1>5 DEF Sink, Causes
  <2> QED BY <1>5, <2>1 DEF Sink
<1>6. ASSUME NEW t \in Trackers, AfterFlush(t) PROVE Windows' /\ OldFlushed' BY <1>6 DEF AfterFlush, NoWindow
<1>7. CASE Swap BY <1>7 DEF Swap, Trackers
<1>8. CASE Crash BY <1>8 DEF Crash, NoWindow
<1>9. CASE UNCHANGED vars BY <1>9 DEF vars
<1> QED BY <1>1, <1>2, <1>3, <1>4, <1>5, <1>6, <1>7, <1>8, <1>9 DEF Next, LoadLast

(* Every step is a step of the ledger or none, and moves what it takes     *)
(* from what is owed to the store or to a named loss.                      *)
LEMMA StepLedger ==
  ASSUME IInv, [Next]_vars
  PROVE  Explained' /\ [L!Next]_(L!ledgerVars)
<1> DEFINE Goal == Explained' /\ [L!Next]_(L!ledgerVars)
<1>0. TypeOK /\ TypeOK' BY StepTypes DEF IInv
<1>01. Owed \in Nat /\ Owed' \in Nat
  <2>1. Owed \in Nat BY <1>0, OwedType
  <2>2. Owed' \in Nat BY <1>0 DEF TypeOK, Owed, Unsunk, Trackers
  <2> QED BY <2>1, <2>2
<1>02. /\ booked \in Nat /\ db \in Nat
       /\ tally["raced"] \in Nat /\ tally["sink"] \in Nat /\ tally["crashed"] \in Nat
       /\ booked = db + Owed + tally["raced"] + tally["sink"] + tally["crashed"]
  BY <1>0 DEF IInv, TypeOK, Causes, Explained
\* The three ways a step can go.
<1>03. ASSUME booked' = booked + 1, Owed' = Owed + 1, db' = db,
              tally'["raced"] = tally["raced"], tally'["sink"] = tally["sink"], tally'["crashed"] = tally["crashed"]
       PROVE  Goal
  BY <1>01, <1>02, <1>03 DEF Explained, L!Next, L!Observe
<1>04. ASSUME NEW k \in Nat, booked' = booked, Owed' = Owed - k, db' = db + k,
              tally'["raced"] = tally["raced"], tally'["sink"] = tally["sink"], tally'["crashed"] = tally["crashed"]
       PROVE  Goal
  <2>1. Explained' BY <1>01, <1>02, <1>04 DEF Explained
  <2>2. CASE k = 0 BY <2>1, <2>2, <1>01, <1>02, <1>04 DEF L!ledgerVars
  <2>3. CASE k > 0
    <3>1. k \in 1 .. Owed BY <2>3, <1>01, <1>04
    <3> QED BY <2>1, <3>1, <1>04 DEF L!Next, L!Record
  <2> QED BY <2>2, <2>3
<1>05. ASSUME NEW k \in Nat, booked' = booked, Owed' = Owed - k, db' = db,
              tally'["raced"] + tally'["sink"] + tally'["crashed"] = tally["raced"] + tally["sink"] + tally["crashed"] + k,
              tally'["raced"] \in Nat, tally'["sink"] \in Nat, tally'["crashed"] \in Nat
       PROVE  Goal
  <2>1. Explained' BY <1>01, <1>02, <1>05 DEF Explained
  <2>2. CASE k = 0 BY <2>1, <2>2, <1>01, <1>02, <1>05 DEF L!ledgerVars
  <2>3. CASE k > 0
    <3>1. k \in 1 .. Owed BY <2>3, <1>01, <1>05
    <3> QED BY <2>1, <3>1, <1>05 DEF L!Next, L!Lose
  <2> QED BY <2>2, <2>3
<1>06. ASSUME UNCHANGED <<booked, Owed, db, tally>> PROVE Goal
  BY <1>02, <1>06 DEF Explained, L!ledgerVars
<1>1. ASSUME NEW o \in Observers, Take(o) \/ Point(o) PROVE Goal
  <2>1. UNCHANGED <<booked, mem, scan, db, tally>> BY <1>1 DEF Take, Point
  <2> QED BY <2>1, <1>06 DEF Owed, Unsunk
<1>2. ASSUME NEW o \in Observers, Add(o) PROVE Goal
  <2>1. PICK t \in Trackers : t = obs[o].tracker BY <1>0 DEF TypeOK
  <2>2. /\ \A u \in Trackers : u # t => mem'[u] = mem[u] /\ scan'[u] = scan[u]
        /\ mem'[t] = mem[t] + 1 /\ Unsunk(t)' = Unsunk(t) /\ mem[t] \in Nat /\ Unsunk(t) \in Nat
    BY <1>0, <1>2, <2>1 DEF Add, Unsunk, TypeOK
  <2>3. Owed' = Owed + 1 BY <1>0, <1>01, <2>1, <2>2, OwedParts
  <2> QED BY <1>0, <1>2, <1>03, <2>3 DEF Add, TypeOK, Causes
<1>3. ASSUME NEW t \in Trackers, NEW final \in BOOLEAN, Load(t, final) PROVE Goal
  <2>1. /\ \A u \in Trackers : u # t => mem'[u] = mem[u] /\ scan'[u] = scan[u]
        /\ mem'[t] = mem[t] /\ Unsunk(t)' = 0 /\ Unsunk(t) = 0 /\ mem[t] \in Nat
    BY <1>0, <1>3 DEF Load, Unsunk, TypeOK
  <2>2. Owed' = Owed BY <1>0, <1>01, <2>1, OwedParts
  <2> QED BY <1>3, <1>06, <2>2 DEF Load
<1>4. ASSUME NEW t \in Trackers, Zero(t) PROVE Goal
  <2>1. scan[t].n \in Nat /\ mem[t] \in Nat /\ scan[t].n <= mem[t] BY <1>0, <1>4 DEF IInv, Windows, Zero, TypeOK
  <2> PICK k \in Nat : k = mem[t] - scan[t].n BY <2>1
  <2>2. /\ \A u \in Trackers : u # t => mem'[u] = mem[u] /\ scan'[u] = scan[u]
        /\ mem'[t] = 0 /\ Unsunk(t)' = scan[t].n /\ Unsunk(t) = 0
    BY <1>0, <1>4 DEF Zero, Unsunk, TypeOK
  <2>3. Owed' - Owed = (mem'[t] + Unsunk(t)') - (mem[t] + Unsunk(t)) BY <1>0, <2>2, OwedParts
  <2>4. Owed' = Owed - k BY <1>01, <2>1, <2>2, <2>3
  <2>5. /\ tally'["raced"] = tally["raced"] + k
        /\ tally'["sink"] = tally["sink"] /\ tally'["crashed"] = tally["crashed"]
    BY <1>0, <1>4 DEF Zero, TypeOK, Causes
  <2> QED BY <1>02, <1>4, <1>05, <2>1, <2>4, <2>5 DEF Zero
<1>5. ASSUME NEW t \in Trackers, Sink(t) PROVE Goal
  <2>1. PICK k \in Nat : k = scan[t].n BY <1>0 DEF TypeOK
  <2>2. /\ \A u \in Trackers : u # t => mem'[u] = mem[u] /\ scan'[u] = scan[u]
        /\ mem'[t] = mem[t] /\ Unsunk(t)' = 0 /\ Unsunk(t) = k /\ mem[t] \in Nat
    BY <1>0, <1>5, <2>1 DEF Sink, Unsunk, TypeOK
  <2>3. Owed' - Owed = (mem'[t] + Unsunk(t)') - (mem[t] + Unsunk(t)) BY <1>0, <2>2, OwedParts
  <2>4. Owed' = Owed - k BY <1>01, <2>1, <2>2, <2>3
  <2>5. CASE db' = db + k /\ UNCHANGED tally BY <1>5, <1>04, <2>1, <2>4, <2>5 DEF Sink
  <2>6. CASE tally' = [tally EXCEPT !["sink"] = @ + k] /\ UNCHANGED db
    <3>1. /\ tally'["sink"] = tally["sink"] + k
          /\ tally'["raced"] = tally["raced"] /\ tally'["crashed"] = tally["crashed"]
      BY <1>0, <2>6 DEF TypeOK, Causes
    <3> QED BY <1>02, <1>5, <1>05, <2>1, <2>4, <2>6, <3>1 DEF Sink
  <2> QED BY <1>5, <2>1, <2>5, <2>6 DEF Sink
<1>6. ASSUME NEW t \in Trackers, AfterFlush(t) PROVE Goal
  <2>1. /\ \A u \in Trackers : u # t => mem'[u] = mem[u] /\ scan'[u] = scan[u]
        /\ mem'[t] = mem[t] /\ Unsunk(t)' = 0 /\ Unsunk(t) = 0 /\ mem[t] \in Nat
    BY <1>0, <1>6 DEF AfterFlush, NoWindow, Unsunk, TypeOK
  <2>2. Owed' = Owed BY <1>0, <1>01, <2>1, OwedParts
  <2> QED BY <1>6, <1>06, <2>2 DEF AfterFlush
<1>7. CASE Swap
  <2>1. UNCHANGED <<booked, mem, scan, db, tally>> BY <1>7 DEF Swap
  <2> QED BY <2>1, <1>06 DEF Owed, Unsunk
<1>8. CASE Crash
  <2>1. Owed' = 0 BY <1>8 DEF Crash, Owed, Unsunk, NoWindow, Trackers
  <2>2. /\ tally'["crashed"] = tally["crashed"] + Owed
        /\ tally'["raced"] = tally["raced"] /\ tally'["sink"] = tally["sink"]
    BY <1>0, <1>8 DEF Crash, TypeOK, Causes
  <2>3. booked' = booked /\ db' = db BY <1>8 DEF Crash
  <2> QED BY <1>01, <1>02, <1>05, <2>1, <2>2, <2>3
<1>9. CASE UNCHANGED vars
  <2>1. UNCHANGED <<booked, mem, scan, db, tally>> BY <1>9 DEF vars
  <2> QED BY <2>1, <1>06 DEF Owed, Unsunk
<1> QED BY <1>1, <1>2, <1>3, <1>4, <1>5, <1>6, <1>7, <1>8, <1>9 DEF Next, LoadLast

LEMMA InitIInv == ASSUME Init PROVE IInv /\ L!Init
<1> USE DEF Init, Free, NoWindow
<1>1. TypeOK BY DEF TypeOK, Trackers, Causes
<1>2. Windows /\ OldFlushed BY DEF Windows, OldFlushed
<1>3. Owed = 0 BY DEF Owed, Unsunk, Trackers
<1>4. Explained BY <1>3 DEF Explained, Causes
<1> QED BY <1>1, <1>2, <1>3, <1>4 DEF IInv, L!Init

LEMMA StepIInv == ASSUME IInv, [Next]_vars PROVE IInv'
BY StepTypes, StepWindows, StepLedger DEF IInv

-----------------------------------------------------------------------------
(* No observation is forgotten in silence: it is stored, owed or lost for  *)
(* a named cause, and a tracker that was replaced ends empty.              *)
THEOREM ObservationsKept == Spec => []Kept
<1>1. Init => IInv BY InitIInv
<1>2. IInv /\ [Next]_vars => IInv' BY StepIInv
<1>3. IInv => Kept BY DEF IInv, Kept
<1> QED BY <1>1, <1>2, <1>3, PTL DEF Spec

(* Usage accounting implements the ledger: an observation is recorded at   *)
(* most once, whatever interleaves with a flush and wherever it crashes.   *)
THEOREM ImplementsLedger == Spec => Records
<1>1. Init => IInv /\ L!Init BY InitIInv
<1>2. IInv /\ [Next]_vars => IInv' BY StepIInv
<1>3. IInv /\ [Next]_vars => [L!Next]_(L!ledgerVars) BY StepLedger
<1> QED BY <1>1, <1>2, <1>3, PTL DEF Spec, Records, L!Spec
-----------------------------------------------------------------------------
(* UsagePush.  A pusher without a goroutine has nothing to deliver, so the *)
(* window that starts one overwrites nothing.                              *)
PushInv ==
  /\ ~sending => batch = 0 /\ pending = 0
  /\ batch \in Nat /\ pending \in Nat /\ agg \in Nat
  /\ handed \in Nat /\ givenUp \in Nat /\ doubled \in Nat
  /\ PushAccounted

(* A batch that leaves, for the aggregator or for good, makes room for the *)
(* next one.                                                               *)
LEMMA Shift ==
  ASSUME NEW a \in Nat, NEW b \in Nat, NEW p \in Nat, NEW g \in Nat, NEW s \in Nat,
         NEW nb \in Nat, NEW np \in Nat, s = a + b + p + g, p = nb + np
  PROVE  s = (a + b) + nb + np + g /\ s = a + nb + np + (g + b)
OBVIOUS

LEMMA InitPush == PushInit => PushInv
BY DEF PushInit, PushInv, PushAccounted

(* The batch leaves for one place, and the next one comes out of pending.  *)
LEMMA NextBatchKeeps ==
  ASSUME PushInv, sending, NextBatch
  PROVE  /\ batch' \in Nat /\ pending' \in Nat
         /\ ~sending' => batch' = 0 /\ pending' = 0
         /\ pending = batch' + pending'
<1> USE DEF PushInv, NextBatch
<1>1. CASE pending = 0 BY <1>1
<1>2. CASE pending # 0 BY <1>2
<1> QED BY <1>1, <1>2

LEMMA StepPush == PushInv /\ [PushNext]_pushVars => PushInv'
<1> SUFFICES ASSUME PushInv, [PushNext]_pushVars PROVE PushInv'
    OBVIOUS
<1> USE DEF PushInv, PushAccounted
<1>1. ASSUME NEW n \in Sizes, AfterPush(n) PROVE PushInv'
  <2>1. n \in Nat BY PushAssumption
  <2>2. CASE sending BY <1>1, <2>1, <2>2 DEF AfterPush, sumRows
  <2>3. CASE ~sending BY <1>1, <2>1, <2>3 DEF AfterPush
  <2> QED BY <2>2, <2>3
<1>2. CASE Delivered
  <2>1. NextBatch /\ sending BY <1>2 DEF Delivered
  <2>2. agg' = agg + batch /\ UNCHANGED <<handed, givenUp, doubled>> BY <1>2 DEF Delivered
  <2>3. batch' \in Nat /\ pending' \in Nat /\ agg' \in Nat BY <2>1, <2>2, NextBatchKeeps
  <2>4. agg' + batch' + pending' + givenUp' = handed' + doubled' BY <2>1, <2>2, NextBatchKeeps
  <2>5. ~sending' => batch' = 0 /\ pending' = 0 BY <2>1, NextBatchKeeps
  <2> QED BY <2>2, <2>3, <2>4, <2>5
<1>3. CASE Failed
  <2>1. PICK arrived \in BOOLEAN :
          /\ agg' = IF arrived THEN agg + batch ELSE agg
          /\ IF attempt = 0
             THEN /\ attempt' = 1
                  /\ doubled' = IF arrived THEN doubled + batch ELSE doubled
                  /\ UNCHANGED <<sending, batch, pending, givenUp>>
             ELSE /\ NextBatch
                  /\ givenUp' = givenUp + IF arrived THEN 0 ELSE batch
                  /\ UNCHANGED doubled
    BY <1>3 DEF Failed
  <2>2. sending /\ handed' = handed BY <1>3 DEF Failed
  <2>3. CASE attempt = 0
    <3>1. UNCHANGED <<sending, batch, pending, givenUp>> BY <2>1, <2>3
    <3>2. CASE arrived
      <4>1. agg' = agg + batch /\ doubled' = doubled + batch BY <2>1, <2>3, <3>2
      <4> QED BY <2>2, <3>1, <4>1
    <3>3. CASE ~arrived
      <4>1. agg' = agg /\ doubled' = doubled BY <2>1, <2>3, <3>3
      <4> QED BY <2>2, <3>1, <4>1
    <3> QED BY <3>2, <3>3
  <2>4. CASE attempt # 0
    <3>0. NextBatch BY <2>1, <2>4
    <3>1. handed' = handed /\ doubled' = doubled BY <2>1, <2>2, <2>4
    <3>2. ~sending' => batch' = 0 /\ pending' = 0
      BY <2>2, <3>0, NextBatchKeeps
    <3>3. batch' \in Nat /\ pending' \in Nat /\ pending = batch' + pending'
      BY <2>2, <3>0, NextBatchKeeps
    <3> DEFINE s == handed + doubled
    <3>5. s \in Nat /\ s = agg + batch + pending + givenUp OBVIOUS
    <3> HIDE DEF s
    <3>6. s = (agg + batch) + batch' + pending' + givenUp BY <3>3, <3>5, Shift
    <3>7. s = agg + batch' + pending' + (givenUp + batch) BY <3>3, <3>5, Shift
    <3>8. CASE arrived
      <4>1. agg' = agg + batch BY <2>1, <2>4, <3>8
      <4>2. givenUp' = givenUp BY <2>1, <2>4, <3>8
      <4>3. agg' \in Nat /\ givenUp' \in Nat BY <4>1, <4>2
      <4>4. agg' + batch' + pending' + givenUp' = handed' + doubled' BY <3>1, <3>6, <4>1, <4>2 DEF s
      <4> QED BY <3>1, <3>2, <3>3, <4>3, <4>4
    <3>9. CASE ~arrived
      <4>1. agg' = agg BY <2>1, <2>4, <3>9
      <4>2. givenUp' = givenUp + batch BY <2>1, <2>4, <3>9
      <4>3. agg' \in Nat /\ givenUp' \in Nat BY <4>1, <4>2
      <4>4. agg' + batch' + pending' + givenUp' = handed' + doubled' BY <3>1, <3>7, <4>1, <4>2 DEF s
      <4> QED BY <3>1, <3>2, <3>3, <4>3, <4>4
    <3> QED BY <3>8, <3>9
  <2> QED BY <2>3, <2>4
<1>4. CASE UNCHANGED pushVars BY <1>4 DEF pushVars
<1> QED BY <1>1, <1>2, <1>3, <1>4 DEF PushNext

(* For windows of any sizes: what was flushed is at the aggregator, on its *)
(* way or given up, and only a batch whose answer was lost is there twice  *)
(* (Pusher.AfterFlush, worker, deliver).                                   *)
THEOREM PushesAddUp == PushSpec => []PushAccounted
<1>1. PushInv => PushAccounted BY DEF PushInv
<1> QED BY <1>1, InitPush, StepPush, PTL DEF PushSpec
=============================================================================
