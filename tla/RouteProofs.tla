---------------------------- MODULE RouteProofs -----------------------------
(***************************************************************************)
(* What holds of the targets of a request, for any tables, legs, accounts, *)
(* answers and bounds: the plan a name gets, the order its legs are tried  *)
(* in, and what Router.Execute carries through that chain.                 *)
(*                                                                         *)
(* Execute (RoutesHold).  The history keeps the last two calls, so the     *)
(* argument says at every place of the loop what the last call allows: an  *)
(* answer ends the request (Answers), a combo without fallback has no live *)
(* target behind it (FirstLive), a target that retries for ever was left   *)
(* on its refusal (LeftForRefusal).  That a gate never surfaces is a       *)
(* count: a gated account leaves the pool, so the rotations and what is    *)
(* left of the pool never exceed it (GateCount).                           *)
(*                                                                         *)
(* Names (NamesMean).  What Validate accepted is loaded, and nothing else  *)
(* (NamesInv).  Resolve walks an alias from its own name and Validate from *)
(* the name behind it, so one walk is a hop behind the other (HopsBehind), *)
(* and where Validate's ends both stay (HopsStay).  A pause takes places   *)
(* out of the group that serves a bare name: while the first is left it is *)
(* the first of what is left (LeastLeft).                                  *)
(*                                                                         *)
(* Order (OrderSteers).  A stable sort by a weak order is a permutation    *)
(* (SortPlaces); that the clocks give one is a matter of fractions         *)
(* (BetterRanks), and an average lies between the slowest and the fastest  *)
(* sample (SpeedInv), so it ranks as they do.  Of the score of a leg the   *)
(* proof keeps what it loses by its power and by its gates: two legs cross *)
(* over at most once as the class grows (OffCrosses), and no loss by power *)
(* outweighs a gate (GateScores).                                          *)
(***************************************************************************)
EXTENDS RouterExecute, Routes, TaskOrder, FiniteSetTheorems, SequenceTheorems,
        WellFoundedInduction, TLAPS

InLeg == place \in {"pick", "call", "wait"}
Last  == calls[Len(calls)]

\* Execute's locals inside the attempt loop.
Loop ==
  /\ InLeg => ~refusal /\ rotated <= Cardinality(Credentials)
  /\ InLeg \/ place = "legEnd" => triedLive
  /\ place = "call" => InLoop

\* The last two calls, in the order of the chain.
History ==
  /\ made \in Nat /\ calls \in Seq([to : 1..Len(Targets), got : Outcomes])
  /\ Len(calls) <= 2 /\ (made = 0 <=> Len(calls) = 0)
  /\ made # 0 => Last.to <= pos
  /\ made # 0 /\ place = "target" => Last.to < pos

\* An answer ends the request.
Answers == OneAnswer /\ (made # 0 /\ Last.got \in {"ok", "committed"} => place = "returned")

\* Without fallback, the leg that is tried is the first live one.
FirstLive ==
  /\ NoSilentSwitch
  /\ IsCombo /\ ~FallbackOn /\ (InLeg \/ (place = "target" /\ ~triedLive)) =>
       \A t \in 1..(pos - 1) : Targets[t].kind # "live"

\* A target that retries for ever is behind only after its refusal.
LeftForRefusal ==
  /\ NoDowngrade
  /\ IsCombo /\ InExecute =>
       /\ made # 0 /\ Last.to < pos /\ Targets[Last.to].forever => Last.got = "legRefusal"
       /\ place = "legEnd" /\ T.forever =>
            IF refusal THEN made # 0 /\ Last.to = pos /\ Last.got = "legRefusal"
                       ELSE lastErr # "none"

\* The rotations spent and the accounts left are no more than the pool has.
GateCount ==
  recovered = 0 =>
    /\ lastErr = "gated" => InLeg /\ rotated > 0
    /\ place \in {"pick", "wait"} => rotated + Cardinality(ready[pos]) <= Cardinality(Credentials)
    /\ place = "call" => rotated + Cardinality(ready[pos] \ {chosen}) + 1 <= Cardinality(Credentials)

IInv == ExecTypeOK /\ Loop /\ History /\ Answers /\ FirstLive /\ LeftForRefusal /\ GateCount
-----------------------------------------------------------------------------
(* What the configuration gives.                                           *)

LEMMA Given ==
  ASSUME RouterAssumption, ExecTypeOK
  PROVE  /\ Targets \in Seq([kind : {"live", "disabled", "unknown"}, forever : BOOLEAN])
         /\ Len(Targets) \in Nat /\ IsCombo \in BOOLEAN /\ FallbackOn \in BOOLEAN
         /\ IsFiniteSet(Credentials) /\ Cardinality(Credentials) \in Nat
         /\ MaxAttempts \in Nat /\ Budget \in Nat \ {0}
         /\ pos \in Nat /\ attempt \in Nat /\ rotated \in Nat /\ recovered \in Nat
  BY FS_CardinalityType DEF RouterAssumption, ExecTypeOK, Targets, IsCombo, FallbackOn, Budget

\* The last call is one of the chain's.
LEMMA LastCall ==
  ASSUME History, made # 0
  PROVE  Last \in [to : 1..Len(Targets), got : Outcomes] /\ Len(calls) \in 1..2
<1> DEFINE R == [to : 1..Len(Targets), got : Outcomes]
<1>1. calls \in Seq(R) /\ Len(calls) # 0 /\ Len(calls) <= 2
  BY DEF History
<1> HIDE DEF R
<1>2. Len(calls) \in Nat
  BY <1>1
<1>3. ASSUME NEW n \in Nat, n # 0, n <= 2 PROVE n \in 1..2 /\ n \in 1..n
  BY <1>3
<1>4. Len(calls) \in 1..2 /\ Len(calls) \in 1..Len(calls)
  BY <1>1, <1>2, <1>3
<1>5. calls[Len(calls)] \in R
  BY <1>1, <1>4
<1> QED
  BY <1>4, <1>5 DEF Last, R

LEMMA StartTargetInv == ASSUME RouterAssumption, IInv, StartTarget PROVE IInv'
<1>0. /\ ExecTypeOK /\ Loop /\ History /\ Answers /\ FirstLive /\ LeftForRefusal /\ GateCount
      /\ UNCHANGED <<made, calls, gates, plan>> /\ Targets' = Targets /\ Indices' = Indices /\ Last' = Last
      /\ IsCombo' = IsCombo /\ FallbackOn' = FallbackOn
  BY DEF IInv, StartTarget, Outside, past, Targets, Indices, Last, IsCombo, FallbackOn
<1>g. /\ Targets \in Seq([kind : {"live", "disabled", "unknown"}, forever : BOOLEAN])
      /\ Len(Targets) \in Nat /\ IsCombo \in BOOLEAN /\ FallbackOn \in BOOLEAN
      /\ IsFiniteSet(Credentials) /\ Cardinality(Credentials) \in Nat
      /\ MaxAttempts \in Nat /\ Budget \in Nat \ {0} /\ Budget' = Budget
      /\ pos \in Nat /\ attempt \in Nat /\ rotated \in Nat /\ recovered \in Nat
  BY <1>0, Given DEF Budget
<1>v. /\ place = "target" /\ UNCHANGED <<ready, chosen, hungUp, recovered>>
      /\ \/ /\ place' = "returned" /\ UNCHANGED <<pos, triedLive, attempt, rotated, refusal>>
            /\ lastErr' \in {lastErr, "no_route", "benched", "client_closed"}
         \/ /\ pos <= Len(Targets) /\ place' = "target" /\ pos' = pos + 1
            /\ UNCHANGED <<triedLive, attempt, rotated, refusal>>
            /\ lastErr' \in {"disabled", "unknown", "benched"}
            /\ lastErr' # "benched" => Targets[pos].kind # "live"
            /\ lastErr' = "benched" => ~(IsCombo /\ ~FallbackOn)
         \/ /\ pos <= Len(Targets) /\ ~(triedLive /\ IsCombo /\ ~FallbackOn)
            /\ place' = "pick" /\ triedLive' = TRUE /\ attempt' = 0 /\ rotated' = 0
            /\ refusal' = FALSE /\ UNCHANGED <<pos, lastErr>>
  <2>1. pos \in 1..Len(Targets) => T.kind \in {"live", "disabled", "unknown"}
    <3> DEFINE K == [kind : {"live", "disabled", "unknown"}, forever : BOOLEAN]
    <3>1. Targets \in Seq(K)
      BY <1>g
    <3> HIDE DEF K
    <3>2. pos \in 1..Len(Targets) => Targets[pos] \in K
      BY <3>1
    <3> QED
      BY <3>2 DEF K, T
  <2>2. T = Targets[pos]
    BY DEF T
  <2>3. pos <= Len(Targets) => pos \in 1..Len(Targets)
    BY <1>0, <1>g DEF ExecTypeOK
  <2>4. place = "target" /\ UNCHANGED <<ready, chosen, hungUp, recovered>>
    BY DEF StartTarget, Outside
  <2>5. CASE pos > Len(Targets) \/ (triedLive /\ IsCombo /\ ~FallbackOn)
    BY <1>g, <2>4, <2>5 DEF StartTarget, Finish
  <2>6. CASE pos <= Len(Targets) /\ ~(triedLive /\ IsCombo /\ ~FallbackOn)
    <3>1. CASE T.kind # "live" /\ Skip(T.kind)
      BY <2>1, <2>2, <2>3, <2>4, <2>6, <3>1 DEF Skip
    <3>2. CASE Enter
      BY <2>4, <2>6, <3>2 DEF Enter
    <3>3. CASE Benched
      BY <2>4, <2>6, <3>3 DEF Benched, Finish, Skip
    <3>4. CASE Finish("client_closed")
      BY <2>4, <3>4 DEF Finish
    <3>5. ~(pos > Len(Targets))
      BY <1>g, <2>6
    <3> QED
      BY <2>6, <3>1, <3>2, <3>3, <3>4, <3>5 DEF StartTarget
  <2> QED
    BY <1>g, <2>5, <2>6 DEF StartTarget
<1>1. ExecTypeOK'
  <2>1. /\ pos' \in 1..(Len(Targets) + 1) /\ rotated' \in 0..(Cardinality(Credentials) + 1)
        /\ attempt' \in Nat /\ place' = "pick" => pos' <= Len(Targets) /\ attempt' <= Budget
    BY <1>0, <1>g, <1>v DEF ExecTypeOK
  <2>2. triedLive' \in BOOLEAN /\ refusal' \in BOOLEAN /\ hungUp' \in BOOLEAN
    BY <1>0, <1>v DEF ExecTypeOK
  <2> QED
    BY <1>0, <1>g, <1>v, <2>1, <2>2 DEF ExecTypeOK
<1>2. Loop'
  BY <1>0, <1>g, <1>v DEF Loop, InLeg
<1>3. History'
  <2>1. made # 0 => Last \in [to : 1..Len(Targets), got : Outcomes]
    BY <1>0, LastCall
  <2> QED
    BY <1>0, <1>g, <1>v, <2>1 DEF History
<1>4. Answers'
  BY <1>0, <1>v DEF Answers, OneAnswer
<1>5. FirstLive'
  BY <1>0, <1>g, <1>v DEF ExecTypeOK, FirstLive, NoSilentSwitch, InLeg
<1>6. LeftForRefusal'
  BY <1>0, <1>g, <1>v DEF LeftForRefusal, NoDowngrade, History, InExecute
<1>7. GateCount'
  <2>1. CASE place' = "pick"
    <3>1. ready[pos] \subseteq Credentials
      BY <1>0, <1>g, <1>v, <2>1 DEF ExecTypeOK, Indices
    <3>2. Cardinality(ready[pos]) <= Cardinality(Credentials) /\ Cardinality(ready[pos]) \in Nat
      BY <1>g, <3>1, FS_Subset, FS_CardinalityType
    <3> QED
      BY <1>0, <1>g, <1>v, <2>1, <3>2 DEF GateCount, InLeg
  <2>2. CASE place' # "pick"
    BY <1>0, <1>v, <2>2 DEF GateCount, InLeg
  <2> QED
    BY <2>1, <2>2
<1> QED
  BY <1>1, <1>2, <1>3, <1>4, <1>5, <1>6, <1>7 DEF IInv

LEMMA PickInv == ASSUME RouterAssumption, IInv, PickAccount PROVE IInv'
<1>0. /\ ExecTypeOK /\ Loop /\ History /\ Answers /\ FirstLive /\ LeftForRefusal /\ GateCount
      /\ UNCHANGED <<made, calls, gates, plan>> /\ Targets' = Targets /\ Indices' = Indices /\ Last' = Last
      /\ IsCombo' = IsCombo /\ FallbackOn' = FallbackOn
  BY DEF IInv, PickAccount, Outside, past, Targets, Indices, Last, IsCombo, FallbackOn
<1>g. /\ Targets \in Seq([kind : {"live", "disabled", "unknown"}, forever : BOOLEAN])
      /\ Len(Targets) \in Nat /\ IsCombo \in BOOLEAN /\ FallbackOn \in BOOLEAN
      /\ IsFiniteSet(Credentials) /\ Cardinality(Credentials) \in Nat
      /\ MaxAttempts \in Nat /\ Budget \in Nat \ {0} /\ Budget' = Budget
      /\ pos \in Nat /\ attempt \in Nat /\ rotated \in Nat /\ recovered \in Nat
  BY <1>0, Given DEF Budget
<1>v. /\ place = "pick" /\ UNCHANGED <<pos, triedLive, attempt, rotated, ready, hungUp, recovered>>
      /\ \/ ~InLoop /\ place' = "legEnd" /\ lastErr' = lastErr /\ refusal' = refusal /\ chosen' = chosen
         \/ InLoop /\ place' = "call" /\ chosen' \in ready[pos] /\ UNCHANGED <<lastErr, refusal>>
         \/ place' = "wait" /\ UNCHANGED <<chosen, lastErr, refusal>>
         \/ ~T.forever /\ place' = "legEnd" /\ lastErr' = "pool_empty" /\ refusal' = refusal /\ chosen' = chosen
      /\ InLoop' = InLoop /\ T' = T
  BY <1>0, <1>g DEF PickAccount, LeaveLeg, locals, InLoop, T
<1>1. ExecTypeOK'
  BY <1>0, <1>g DEF ExecTypeOK, Loop, PickAccount, LeaveLeg, InLoop, T, locals, past, Indices
<1>2. Loop'
  BY <1>0, <1>g, <1>v DEF Loop, InLeg
<1>3. History'
  BY <1>0, <1>g DEF ExecTypeOK, History, PickAccount, LeaveLeg, InLoop, T, locals, past
<1>4. Answers'
  BY <1>0, <1>g DEF ExecTypeOK, Answers, OneAnswer, PickAccount, LeaveLeg, InLoop, T, locals, past
<1>5. FirstLive'
  BY <1>0, <1>g DEF ExecTypeOK, FirstLive, NoSilentSwitch, Loop, InLeg, Indices, PickAccount, LeaveLeg, InLoop, T, locals, past
<1>6. LeftForRefusal'
  BY <1>0, <1>g DEF ExecTypeOK, LeftForRefusal, NoDowngrade, History, Loop, InLeg, InExecute, PickAccount, LeaveLeg, InLoop, T, locals, past
<1>7. GateCount'
  <2>1. ready[pos] \subseteq Credentials /\ IsFiniteSet(ready[pos]) /\ Cardinality(ready[pos]) \in Nat
    <3>1. ready[pos] \subseteq Credentials
      BY <1>0, <1>g, <1>v DEF ExecTypeOK, Indices
    <3> QED
      BY <1>g, <3>1, FS_Subset, FS_CardinalityType
  <2>2. CASE place' = "call"
    <3>1. chosen' \in ready[pos]
      BY <1>v, <2>2
    <3>2. Cardinality(ready[pos] \ {chosen'}) = Cardinality(ready[pos]) - 1
      BY <2>1, <3>1, FS_RemoveElement
    <3> QED
      BY <1>0, <1>g, <1>v, <2>1, <2>2, <3>2 DEF GateCount, InLeg
  <2>3. CASE place' = "wait"
    BY <1>0, <1>v, <2>3 DEF GateCount, InLeg
  <2>4. CASE place' = "legEnd"
    BY <1>0, <1>g, <1>v, <2>4 DEF GateCount, InLoop
  <2> QED
    BY <1>v, <2>2, <2>3, <2>4
<1> QED
  BY <1>1, <1>2, <1>3, <1>4, <1>5, <1>6, <1>7 DEF IInv

LEMMA WaitInv == ASSUME RouterAssumption, IInv, Wait PROVE IInv'
<1>0. /\ ExecTypeOK /\ Loop /\ History /\ Answers /\ FirstLive /\ LeftForRefusal /\ GateCount
      /\ UNCHANGED <<made, calls, gates, plan>> /\ Targets' = Targets /\ Indices' = Indices /\ Last' = Last
      /\ IsCombo' = IsCombo /\ FallbackOn' = FallbackOn
  BY DEF IInv, Wait, Outside, past, Targets, Indices, Last, IsCombo, FallbackOn
<1>g. /\ Targets \in Seq([kind : {"live", "disabled", "unknown"}, forever : BOOLEAN])
      /\ Len(Targets) \in Nat /\ IsCombo \in BOOLEAN /\ FallbackOn \in BOOLEAN
      /\ IsFiniteSet(Credentials) /\ Cardinality(Credentials) \in Nat
      /\ MaxAttempts \in Nat /\ Budget \in Nat \ {0} /\ Budget' = Budget
      /\ pos \in Nat /\ attempt \in Nat /\ rotated \in Nat /\ recovered \in Nat
  BY <1>0, Given DEF Budget
<1>1. ExecTypeOK'
  BY <1>0, <1>g DEF ExecTypeOK, Loop, Wait, Finish, Outside, T, locals, past, Indices
<1>2. Loop'
  <2>1. /\ place = "wait" /\ place' \in {"pick", "returned"}
        /\ UNCHANGED <<triedLive, rotated, refusal>>
    BY DEF Wait, Finish, locals
  <2> QED
    BY <1>0, <2>1 DEF Loop, InLeg
<1>3. History'
  BY <1>0, <1>g DEF ExecTypeOK, History, Wait, Finish, Outside, T, locals, past
<1>4. Answers'
  BY <1>0, <1>g DEF ExecTypeOK, Answers, OneAnswer, Wait, Finish, Outside, T, locals, past
<1>5. FirstLive'
  BY <1>0, <1>g DEF ExecTypeOK, FirstLive, NoSilentSwitch, Loop, InLeg, Indices, Wait, Finish, Outside, T, locals, past
<1>6. LeftForRefusal'
  BY <1>0, <1>g DEF ExecTypeOK, LeftForRefusal, NoDowngrade, History, Loop, InLeg, InExecute, Wait, Finish, Outside, T, locals, past
<1>7. GateCount'
  BY <1>0, <1>g, FS_Subset, FS_RemoveElement DEF ExecTypeOK, GateCount, Loop, InLeg, Wait, Finish, Outside, T, locals, past
<1> QED
  BY <1>1, <1>2, <1>3, <1>4, <1>5, <1>6, <1>7 DEF IInv

LEMMA EndLegInv == ASSUME RouterAssumption, IInv, EndLeg PROVE IInv'
<1>0. /\ ExecTypeOK /\ Loop /\ History /\ Answers /\ FirstLive /\ LeftForRefusal /\ GateCount
      /\ UNCHANGED <<made, calls, gates, plan>> /\ Targets' = Targets /\ Indices' = Indices /\ Last' = Last
      /\ IsCombo' = IsCombo /\ FallbackOn' = FallbackOn
  BY DEF IInv, EndLeg, Outside, past, Targets, Indices, Last, IsCombo, FallbackOn
<1>g. /\ Targets \in Seq([kind : {"live", "disabled", "unknown"}, forever : BOOLEAN])
      /\ Len(Targets) \in Nat /\ IsCombo \in BOOLEAN /\ FallbackOn \in BOOLEAN
      /\ IsFiniteSet(Credentials) /\ Cardinality(Credentials) \in Nat
      /\ MaxAttempts \in Nat /\ Budget \in Nat \ {0} /\ Budget' = Budget
      /\ pos \in Nat /\ attempt \in Nat /\ rotated \in Nat /\ recovered \in Nat
  BY <1>0, Given DEF Budget
<1>v. /\ place = "legEnd" /\ UNCHANGED <<triedLive, attempt, rotated, refusal, lastErr, ready, chosen, hungUp, recovered>>
      /\ \/ LeftForever /\ place' = "panicked" /\ pos' = pos
         \/ ~LeftForever /\ place' = "target" /\ pos' = pos + 1
  BY <1>0 DEF EndLeg, Outside
<1>1. ExecTypeOK'
  BY <1>0, <1>g DEF ExecTypeOK, Loop, EndLeg, LeftForever, Outside, T, locals, past, Indices
<1>2. Loop'
  BY <1>0, <1>g DEF ExecTypeOK, Loop, InLeg, EndLeg, LeftForever, Outside, T, locals, past
<1>3. History'
  <2>1. made # 0 => Last \in [to : 1..Len(Targets), got : Outcomes]
    BY <1>0, LastCall
  <2> QED
    BY <1>0, <1>g, <1>v, <2>1 DEF History
<1>4. Answers'
  BY <1>0, <1>g DEF ExecTypeOK, Answers, OneAnswer, EndLeg, LeftForever, Outside, T, locals, past
<1>5. FirstLive'
  BY <1>0, <1>g DEF ExecTypeOK, FirstLive, NoSilentSwitch, Loop, InLeg, Indices, EndLeg, LeftForever, Outside, T, locals, past
<1>6. LeftForRefusal'
  <2>1. made # 0 => Last \in [to : 1..Len(Targets), got : Outcomes]
    BY <1>0, LastCall
  <2>2. NoDowngrade'
    BY <1>0 DEF LeftForRefusal, NoDowngrade
  <2>3. CASE place' = "panicked"
    BY <2>2, <2>3 DEF LeftForRefusal, InExecute
  <2>4. CASE place' = "target" /\ pos' = pos + 1 /\ ~LeftForever
    <3>1. ASSUME IsCombo, made # 0, Last.to < pos + 1, Targets[Last.to].forever
          PROVE  Last.got = "legRefusal"
      <4>1. CASE Last.to < pos
        BY <1>0, <1>v, <3>1, <4>1 DEF LeftForRefusal, InExecute
      <4>2. CASE Last.to = pos
        BY <1>0, <1>v, <2>4, <3>1, <4>2 DEF LeftForRefusal, LeftForever, InExecute, T
      <4> QED
        BY <1>g, <2>1, <3>1, <4>1, <4>2
    <3> QED
      BY <1>0, <2>2, <2>4, <3>1 DEF LeftForRefusal
  <2> QED
    BY <1>v, <2>3, <2>4
<1>7. GateCount'
  BY <1>0, <1>g, FS_Subset, FS_RemoveElement DEF ExecTypeOK, GateCount, Loop, InLeg, EndLeg, LeftForever, Outside, T, locals, past
<1> QED
  BY <1>1, <1>2, <1>3, <1>4, <1>5, <1>6, <1>7 DEF IInv

LEMMA CoolInv == ASSUME RouterAssumption, IInv, Cool PROVE IInv'
<1>0. /\ ExecTypeOK /\ Loop /\ History /\ Answers /\ FirstLive /\ LeftForRefusal /\ GateCount
      /\ UNCHANGED <<made, calls, gates, plan>> /\ Targets' = Targets /\ Indices' = Indices /\ Last' = Last
      /\ IsCombo' = IsCombo /\ FallbackOn' = FallbackOn
  BY DEF IInv, Cool, Outside, past, Targets, Indices, Last, IsCombo, FallbackOn
<1>g. /\ Targets \in Seq([kind : {"live", "disabled", "unknown"}, forever : BOOLEAN])
      /\ Len(Targets) \in Nat /\ IsCombo \in BOOLEAN /\ FallbackOn \in BOOLEAN
      /\ IsFiniteSet(Credentials) /\ Cardinality(Credentials) \in Nat
      /\ MaxAttempts \in Nat /\ Budget \in Nat \ {0} /\ Budget' = Budget
      /\ pos \in Nat /\ attempt \in Nat /\ rotated \in Nat /\ recovered \in Nat
  BY <1>0, Given DEF Budget
<1>1. ExecTypeOK'
  BY <1>0, <1>g DEF ExecTypeOK, Loop, Cool, InExecute, T, locals, past, Indices
<1>2. Loop'
  <2>1. UNCHANGED <<place, pos, triedLive, attempt, rotated, refusal>> /\ T' = T
    BY <1>0 DEF Cool, locals, T
  <2> QED
    BY <1>0, <1>g, <2>1 DEF Loop, InLeg, InLoop
<1>3. History'
  BY <1>0, <1>g DEF ExecTypeOK, History, Cool, InExecute, T, locals, past
<1>4. Answers'
  BY <1>0, <1>g DEF ExecTypeOK, Answers, OneAnswer, Cool, InExecute, T, locals, past
<1>5. FirstLive'
  BY <1>0, <1>g DEF ExecTypeOK, FirstLive, NoSilentSwitch, Loop, InLeg, Indices, Cool, InExecute, T, locals, past
<1>6. LeftForRefusal'
  BY <1>0, <1>g DEF ExecTypeOK, LeftForRefusal, NoDowngrade, History, Loop, InLeg, InExecute, Cool, InExecute, T, locals, past
<1>7. GateCount'
  <2>1. PICK t \in Indices : \E a \in ready[t] : ready' = [ready EXCEPT ![t] = @ \ {a}]
    BY DEF Cool
  <2>2. PICK a \in ready[t] : ready' = [ready EXCEPT ![t] = @ \ {a}]
    BY <2>1
  <2>3. UNCHANGED <<place, pos, rotated, lastErr, chosen, recovered>>
    BY DEF Cool, locals
  <2>4. ASSUME InLeg
        PROVE  /\ Cardinality(ready'[pos]) <= Cardinality(ready[pos])
               /\ Cardinality(ready'[pos] \ {chosen}) <= Cardinality(ready[pos] \ {chosen})
               /\ Cardinality(ready[pos]) \in Nat /\ Cardinality(ready'[pos]) \in Nat
               /\ Cardinality(ready[pos] \ {chosen}) \in Nat /\ Cardinality(ready'[pos] \ {chosen}) \in Nat
    <3>1. pos \in Indices
      BY <1>0, <1>g, <2>4 DEF ExecTypeOK, InLeg, Indices
    <3>2. ready[pos] \subseteq Credentials /\ ready'[pos] \subseteq ready[pos]
      BY <1>0, <2>2, <3>1 DEF ExecTypeOK
    <3>3. /\ IsFiniteSet(ready[pos]) /\ IsFiniteSet(ready[pos] \ {chosen})
          /\ IsFiniteSet(ready'[pos]) /\ IsFiniteSet(ready'[pos] \ {chosen})
      BY <1>g, <3>2, FS_Subset
    <3>4. ready'[pos] \ {chosen} \subseteq ready[pos] \ {chosen}
      BY <3>2
    <3>5. /\ Cardinality(ready'[pos]) <= Cardinality(ready[pos])
          /\ Cardinality(ready'[pos] \ {chosen}) <= Cardinality(ready[pos] \ {chosen})
      BY <3>2, <3>3, <3>4, FS_Subset
    <3> QED
      BY <3>3, <3>5, FS_CardinalityType
  <2>5. (InLeg)' = InLeg
    BY <2>3 DEF InLeg
  <2> QED
    BY <1>0, <1>g, <2>3, <2>4, <2>5 DEF GateCount, InLeg
<1> QED
  BY <1>1, <1>2, <1>3, <1>4, <1>5, <1>6, <1>7 DEF IInv

LEMMA RecoverInv == ASSUME RouterAssumption, IInv, Recover PROVE IInv'
<1>0. /\ ExecTypeOK /\ Loop /\ History /\ Answers /\ FirstLive /\ LeftForRefusal /\ GateCount
      /\ UNCHANGED <<made, calls, gates, plan>> /\ Targets' = Targets /\ Indices' = Indices /\ Last' = Last
      /\ IsCombo' = IsCombo /\ FallbackOn' = FallbackOn
  BY DEF IInv, Recover, Outside, past, Targets, Indices, Last, IsCombo, FallbackOn
<1>g. /\ Targets \in Seq([kind : {"live", "disabled", "unknown"}, forever : BOOLEAN])
      /\ Len(Targets) \in Nat /\ IsCombo \in BOOLEAN /\ FallbackOn \in BOOLEAN
      /\ IsFiniteSet(Credentials) /\ Cardinality(Credentials) \in Nat
      /\ MaxAttempts \in Nat /\ Budget \in Nat \ {0} /\ Budget' = Budget
      /\ pos \in Nat /\ attempt \in Nat /\ rotated \in Nat /\ recovered \in Nat
  BY <1>0, Given DEF Budget
<1>1. ExecTypeOK'
  <2>1. PICK t \in Indices : \E a \in Credentials \ ready[t] : ready' = [ready EXCEPT ![t] = @ \cup {a}]
    BY DEF Recover
  <2>2. ready' \in [Indices -> SUBSET Credentials] /\ recovered' \in 0..MaxRecover
    BY <1>0, <1>g, <2>1 DEF ExecTypeOK, Recover, RouterAssumption
  <2>3. UNCHANGED <<place, pos, triedLive, attempt, rotated, refusal, hungUp, chosen>> /\ T' = T
    BY <1>0 DEF Recover, locals, T
  <2> QED
    BY <1>0, <1>g, <2>2, <2>3 DEF ExecTypeOK
<1>2. Loop'
  <2>1. UNCHANGED <<place, pos, triedLive, attempt, rotated, refusal>> /\ T' = T
    BY <1>0 DEF Recover, locals, T
  <2> QED
    BY <1>0, <1>g, <2>1 DEF Loop, InLeg, InLoop
<1>3. History'
  BY <1>0, <1>g DEF ExecTypeOK, History, Recover, InExecute, T, locals, past
<1>4. Answers'
  BY <1>0, <1>g DEF ExecTypeOK, Answers, OneAnswer, Recover, InExecute, T, locals, past
<1>5. FirstLive'
  BY <1>0, <1>g DEF ExecTypeOK, FirstLive, NoSilentSwitch, Loop, InLeg, Indices, Recover, InExecute, T, locals, past
<1>6. LeftForRefusal'
  BY <1>0, <1>g DEF ExecTypeOK, LeftForRefusal, NoDowngrade, History, Loop, InLeg, InExecute, Recover, InExecute, T, locals, past
<1>7. GateCount'
  BY <1>0, <1>g, FS_Subset, FS_RemoveElement DEF ExecTypeOK, GateCount, Loop, InLeg, Recover, InExecute, T, locals, past
<1> QED
  BY <1>1, <1>2, <1>3, <1>4, <1>5, <1>6, <1>7 DEF IInv

LEMMA HangUpInv == ASSUME RouterAssumption, IInv, HangUp PROVE IInv'
<1>0. /\ ExecTypeOK /\ Loop /\ History /\ Answers /\ FirstLive /\ LeftForRefusal /\ GateCount
      /\ UNCHANGED <<made, calls, gates, plan>> /\ Targets' = Targets /\ Indices' = Indices /\ Last' = Last
      /\ IsCombo' = IsCombo /\ FallbackOn' = FallbackOn
  BY DEF IInv, HangUp, Outside, past, Targets, Indices, Last, IsCombo, FallbackOn
<1>g. /\ Targets \in Seq([kind : {"live", "disabled", "unknown"}, forever : BOOLEAN])
      /\ Len(Targets) \in Nat /\ IsCombo \in BOOLEAN /\ FallbackOn \in BOOLEAN
      /\ IsFiniteSet(Credentials) /\ Cardinality(Credentials) \in Nat
      /\ MaxAttempts \in Nat /\ Budget \in Nat \ {0} /\ Budget' = Budget
      /\ pos \in Nat /\ attempt \in Nat /\ rotated \in Nat /\ recovered \in Nat
  BY <1>0, Given DEF Budget
<1>1. ExecTypeOK'
  BY <1>0, <1>g DEF ExecTypeOK, Loop, HangUp, InExecute, T, locals, past, Indices
<1>2. Loop'
  <2>1. UNCHANGED <<place, pos, triedLive, attempt, rotated, refusal>> /\ T' = T
    BY <1>0 DEF HangUp, locals, T
  <2> QED
    BY <1>0, <1>g, <2>1 DEF Loop, InLeg, InLoop
<1>3. History'
  BY <1>0, <1>g DEF ExecTypeOK, History, HangUp, InExecute, T, locals, past
<1>4. Answers'
  BY <1>0, <1>g DEF ExecTypeOK, Answers, OneAnswer, HangUp, InExecute, T, locals, past
<1>5. FirstLive'
  BY <1>0, <1>g DEF ExecTypeOK, FirstLive, NoSilentSwitch, Loop, InLeg, Indices, HangUp, InExecute, T, locals, past
<1>6. LeftForRefusal'
  BY <1>0, <1>g DEF ExecTypeOK, LeftForRefusal, NoDowngrade, History, Loop, InLeg, InExecute, HangUp, InExecute, T, locals, past
<1>7. GateCount'
  BY <1>0, <1>g, FS_Subset, FS_RemoveElement DEF ExecTypeOK, GateCount, Loop, InLeg, HangUp, InExecute, T, locals, past
<1> QED
  BY <1>1, <1>2, <1>3, <1>4, <1>5, <1>6, <1>7 DEF IInv
-----------------------------------------------------------------------------
(* A call upstream.                                                        *)

\* Where an answer leaves the loop.
Outcome(got) ==
  /\ UNCHANGED <<pos, triedLive>>
  /\ \/ /\ place' = "returned" /\ UNCHANGED <<attempt, rotated, refusal>> /\ lastErr' # "gated"
     \/ /\ got \notin {"ok", "committed"} /\ ~T.forever
        /\ place' = "legEnd" /\ lastErr' = got /\ got # "gated" /\ refusal' \in {refusal, FALSE}
        /\ UNCHANGED <<attempt, rotated>>
     \/ /\ got = "legRefusal" /\ place' = "legEnd" /\ lastErr' = got /\ refusal' = TRUE
        /\ UNCHANGED <<attempt, rotated>>
     \/ /\ got = "gated" /\ place' = IF rotated + 1 > Cardinality(Credentials) THEN "legEnd" ELSE "pick"
        /\ lastErr' = "gated" /\ rotated' = rotated + 1 /\ UNCHANGED <<attempt, refusal>>
     \/ /\ got \notin {"ok", "committed", "gated"}
        /\ place' \in {"pick", "wait"} /\ lastErr' = got /\ attempt' = attempt + 1
        /\ UNCHANGED <<rotated, refusal>>

LEMMA DispatchOutcome ==
  ASSUME RouterAssumption, NEW got \in Outcomes, Dispatch(got) PROVE Outcome(got)
<1>1. got \in {"ok", "committed", "corrupt", "legRefusal", "terminal", "gated", "fallback",
               "wall", "transient"}
  BY DEF RouterAssumption
<1>2. CASE got \in {"ok", "committed"}
  BY <1>2 DEF Dispatch, Outcome, AnswerGiven, Finish
<1>3. CASE got = "corrupt" /\ ~T.forever
  BY <1>3 DEF Dispatch, Outcome, LeaveLeg
<1>4. CASE got = "corrupt" /\ T.forever
  BY <1>4 DEF Dispatch, Outcome, Again, Retried
<1>5. CASE got = "legRefusal"
  BY <1>5 DEF Dispatch, Outcome, LeaveLeg
<1>6. CASE got = "terminal"
  BY <1>6 DEF Dispatch, Outcome, Finish
<1>7. CASE got = "gated"
  BY <1>7 DEF Dispatch, Outcome, Gated, GateSpent, Finish
<1>8. CASE got = "wall"
  BY <1>8 DEF Dispatch, Outcome, Walled, Again, Retried, LeaveLeg
<1>9. CASE got \in {"fallback", "transient"}
  BY <1>9 DEF Dispatch, Outcome, Again, Retried
<1> QED
  BY <1>1, <1>2, <1>3, <1>4, <1>5, <1>6, <1>7, <1>8, <1>9

\* A history of one call and the next one.
LEMMA Appended ==
  ASSUME NEW S, NEW s \in Seq(S), NEW b \in S
  PROVE  \A i \in 1..Len(s) : Append(s, b)[i] = s[i]
  BY AppendProperties

LEMMA Pair ==
  ASSUME NEW S, NEW a \in S, NEW b \in S
  PROVE  Append(<<a>>, b) = <<a, b>> /\ Len(<<a, b>>) = 2 /\ <<a, b>> \in Seq(S)
<1>1. <<a>> \in Seq(S) /\ Len(<<a>>) = 1 /\ <<a>>[1] = a
  OBVIOUS
<1>2. <<a, b>> \in Seq(S) /\ Len(<<a, b>>) = 2 /\ <<a, b>>[1] = a /\ <<a, b>>[2] = b
  OBVIOUS
<1> DEFINE s == <<a>>
           t == <<a, b>>
           u == Append(s, b)
<1>3. s \in Seq(S) /\ Len(s) = 1 /\ s[1] = a /\ t \in Seq(S) /\ Len(t) = 2 /\ t[1] = a /\ t[2] = b
  BY <1>1, <1>2
<1> HIDE DEF s, t
<1>4. u \in Seq(S) /\ Len(u) = 2 /\ u[1] = a /\ u[2] = b
  <2>1. u \in Seq(S) /\ Len(u) = Len(s) + 1
    BY <1>3, AppendProperties
  <2>2. s \in Seq(S) /\ b \in S
    BY <1>3
  <2>3. \A i \in 1..Len(s) : u[i] = s[i]
    BY <2>2, Appended, Zenon
  <2>4. u[Len(s) + 1] = b
    BY <1>3, AppendProperties
  <2> HIDE DEF u
  <2> QED
    BY <1>3, <2>1, <2>3, <2>4
<1> HIDE DEF u
<1>5. ASSUME NEW i \in {1, 2} PROVE u[i] = t[i]
  BY <1>3, <1>4, <1>5
<1>6. Len(u) = 2 /\ 1..2 = {1, 2}
  BY <1>3, <1>4
<1>7. u = t
  BY <1>3, <1>4, <1>5, <1>6, SeqEqual
<1> QED
  BY <1>3, <1>7 DEF s, t, u

LEMMA CallInv == ASSUME RouterAssumption, IInv, CallUpstream PROVE IInv'
<1> DEFINE R == [to : 1..Len(Targets), got : Outcomes]
<1> HIDE DEF R
<1>0. /\ ExecTypeOK /\ Loop /\ History /\ Answers /\ FirstLive /\ LeftForRefusal /\ GateCount
      /\ UNCHANGED <<plan, chosen, hungUp, recovered>> /\ place = "call" /\ made' = made + 1
      /\ Targets' = Targets /\ Indices' = Indices /\ IsCombo' = IsCombo /\ FallbackOn' = FallbackOn
  BY DEF IInv, CallUpstream, Targets, Indices, IsCombo, FallbackOn
<1>g. /\ Len(Targets) \in Nat /\ IsCombo \in BOOLEAN /\ FallbackOn \in BOOLEAN
      /\ IsFiniteSet(Credentials) /\ Cardinality(Credentials) \in Nat
      /\ Budget \in Nat \ {0} /\ Budget' = Budget
      /\ pos \in Nat /\ attempt \in Nat /\ rotated \in Nat /\ recovered \in Nat
  BY <1>0, Given DEF Budget
<1>l. /\ InLoop /\ ~refusal /\ triedLive /\ rotated <= Cardinality(Credentials)
      /\ pos \in 1..Len(Targets) /\ made \in Nat /\ ready[pos] \subseteq Credentials
  BY <1>0, <1>g DEF Loop, InLeg, ExecTypeOK, History, Indices
<1>p. PICK got \in Outcomes :
        /\ Outcome(got)
        /\ calls' = Append(IF made = 0 THEN <<>> ELSE <<calls[Len(calls)]>>, [to |-> pos, got |-> got])
        /\ ready' = [ready EXCEPT ![pos] = @ \ {chosen}] \/ (got # "gated" /\ UNCHANGED ready)
  BY DispatchOutcome DEF CallUpstream
<1>r. [to |-> pos, got |-> got] \in R
  BY <1>l DEF R
<1>c. /\ Last' = [to |-> pos, got |-> got] /\ calls' \in Seq(R)
      /\ \/ made = 0 /\ Len(calls') = 1 /\ calls'[1] = Last'
         \/ made # 0 /\ Len(calls') = 2 /\ calls'[1] = Last /\ calls'[2] = Last'
  <2>1. CASE made = 0
    <3>1. calls' = <<[to |-> pos, got |-> got]>>
      BY <1>p, <2>1
    <3> QED
      BY <1>r, <2>1, <3>1 DEF Last
  <2>2. CASE made # 0
    <3>1. Last \in R
      BY <1>0, <2>2, LastCall DEF R
    <3>2. calls' = <<Last, [to |-> pos, got |-> got]>>
      BY <1>r, <1>p, <2>2, <3>1, Pair DEF Last
    <3> QED
      BY <1>r, <2>2, <3>1, <3>2, Pair DEF Last
  <2> QED
    BY <2>1, <2>2
<1>t. made # 0 => Last.to \in 1..Len(Targets) /\ Last.got \in Outcomes
  BY <1>0, LastCall
<1>1. ExecTypeOK'
  <2>1. ready' \in [Indices -> SUBSET Credentials]
    BY <1>0, <1>p DEF ExecTypeOK
  <2>0. /\ rotated' \in {rotated, rotated + 1} /\ attempt' \in {attempt, attempt + 1}
        /\ place' \in {"pick", "wait", "legEnd", "returned"}
    BY <1>p DEF Outcome
  <2>2. rotated' \in 0..(Cardinality(Credentials) + 1) /\ attempt' \in Nat
    BY <1>g, <1>l, <2>0
  <2>3. triedLive' \in BOOLEAN /\ refusal' \in BOOLEAN /\ hungUp' \in BOOLEAN
    BY <1>0, <1>p DEF ExecTypeOK, Outcome
  <2>4. T.forever \/ rotated' > 0 \/ attempt' <= Budget
    <3>1. CASE rotated' = rotated + 1
      BY <1>g, <3>1
    <3>2. CASE rotated' = rotated
      BY <1>g, <1>l, <2>0, <3>2 DEF InLoop
    <3> QED
      BY <2>0, <3>1, <3>2
  <2>5. pos' = pos /\ T' = T
    BY <1>0, <1>p DEF Outcome, T
  <2> QED
    BY <1>0, <1>g, <1>l, <2>0, <2>1, <2>2, <2>3, <2>4, <2>5 DEF ExecTypeOK
<1>2. Loop'
  <2>1. place' # "call" /\ triedLive'
    BY <1>l, <1>p DEF Outcome
  <2>2. place' \in {"pick", "wait"} => ~refusal' /\ rotated' <= Cardinality(Credentials)
    <3>1. CASE rotated' = rotated + 1 /\ refusal' = refusal
      BY <1>g, <1>l, <1>p, <3>1 DEF Outcome
    <3>2. CASE rotated' = rotated /\ refusal' = refusal
      BY <1>l, <3>2
    <3>3. CASE place' = "legEnd"
      BY <3>3
    <3> QED
      BY <1>p, <3>1, <3>2, <3>3 DEF Outcome
  <2> QED
    BY <2>1, <2>2 DEF Loop, InLeg
<1>3. History'
  <2>1. pos' = pos /\ place' # "target"
    BY <1>p DEF Outcome
  <2>2. Last'.to = pos
    BY <1>c
  <2>0. ASSUME NEW n \in {1, 2} PROVE n <= 2 /\ n # 0
    BY <2>0
  <2>3. Len(calls') <= 2 /\ Len(calls') # 0
    BY <1>c, <2>0
  <2>4. made' \in Nat /\ made' # 0
    BY <1>0, <1>l
  <2> QED
    BY <1>0, <1>c, <1>l, <2>1, <2>2, <2>3, <2>4 DEF History, R
<1>4. Answers'
  <2>1. Last'.got = got
    BY <1>c
  <2>2. got \in {"ok", "committed"} => place' = "returned"
    BY <1>p DEF Outcome
  <2>3. made # 0 => Last.got \notin {"ok", "committed"}
    BY <1>0 DEF Answers
  <2>4. OneAnswer'
    <3> SUFFICES ASSUME NEW i \in 1..Len(calls'), calls'[i].got \in {"ok", "committed"}
                 PROVE  i = Len(calls')
      BY DEF OneAnswer
    <3>1. CASE made = 0
      <4>1. Len(calls') = 1
        BY <1>c, <3>1
      <4> QED
        BY <4>1
    <3>2. CASE made # 0 /\ Len(calls') = 2 /\ calls'[1] = Last
      <4>1. i \in {1, 2}
        BY <3>2
      <4>2. i # 1
        BY <2>3, <3>2
      <4> QED
        BY <3>2, <4>1, <4>2
    <3> QED
      BY <1>c, <3>1, <3>2
  <2> QED
    BY <2>1, <2>2, <2>4 DEF Answers
<1>5. FirstLive'
  <2> SUFFICES ASSUME IsCombo, ~FallbackOn PROVE FirstLive'
    BY <1>0 DEF FirstLive, NoSilentSwitch
  <2>1. \A t \in 1..(pos - 1) : Targets[t].kind # "live"
    BY <1>0 DEF FirstLive, InLeg
  <2>2. pos' = pos /\ triedLive'
    BY <1>l, <1>p DEF Outcome
  <2>3. Last'.to = pos
    BY <1>c
  <2>4. made # 0 => Last.to <= pos
    BY <1>0 DEF History
  <2>5. ASSUME NEW i \in 1..Len(calls'), NEW t \in Indices, t < calls'[i].to
        PROVE  Targets[t].kind # "live"
    <3>1. calls'[i].to <= pos
      BY <1>c, <1>l, <2>3, <2>4
    <3>2. calls'[i].to \in Nat
      BY <1>c, <1>t, <1>l, <2>3
    <3>3. t \in 1..(pos - 1)
      BY <1>g, <2>5, <3>1, <3>2 DEF Indices
    <3> QED
      BY <2>1, <3>3
  <2>6. NoSilentSwitch'
    BY <1>0, <2>5 DEF NoSilentSwitch
  <2> QED
    BY <1>0, <2>1, <2>2, <2>6 DEF FirstLive
<1>6. LeftForRefusal'
  <2> SUFFICES ASSUME IsCombo PROVE LeftForRefusal'
    BY <1>0 DEF LeftForRefusal, NoDowngrade
  <2>1. made # 0 /\ Last.to < pos /\ Targets[Last.to].forever => Last.got = "legRefusal"
    BY <1>0 DEF LeftForRefusal, InExecute
  <2>2. Last'.to = pos /\ Last'.got = got /\ pos' = pos /\ ~(pos < pos)
    BY <1>c, <1>p, <1>l DEF Outcome
  <2>3. NoDowngrade'
    <3> SUFFICES ASSUME NEW i \in 2..Len(calls'), calls'[i - 1].to < calls'[i].to,
                        Targets[calls'[i - 1].to].forever
                 PROVE  calls'[i - 1].got = "legRefusal"
      BY <1>0 DEF NoDowngrade
    <3>1. made # 0 /\ i = 2
      BY <1>c
    <3>2. calls'[i - 1] = Last /\ calls'[i] = Last'
      BY <1>c, <3>1
    <3> QED
      BY <2>1, <2>2, <3>1, <3>2
  <2>4. place' = "legEnd" /\ T.forever =>
          IF refusal' THEN got = "legRefusal" ELSE lastErr' # "none"
    BY <1>l, <1>p DEF Outcome
  <2>5. T' = T
    BY <1>0, <2>2 DEF T
  <2> QED
    BY <1>0, <1>l, <2>2, <2>3, <2>4, <2>5 DEF LeftForRefusal
<1>7. GateCount'
  <2> SUFFICES ASSUME recovered = 0 PROVE GateCount'
    BY <1>0 DEF GateCount
  <2>0. pos' = pos /\ pos \in Indices
    BY <1>l, <1>p DEF Outcome, Indices
  <2>1. rotated + Cardinality(ready[pos] \ {chosen}) + 1 <= Cardinality(Credentials)
    BY <1>0 DEF GateCount
  <2>2. /\ IsFiniteSet(ready[pos]) /\ Cardinality(ready[pos]) \in Nat
        /\ Cardinality(ready[pos] \ {chosen}) \in Nat
        /\ Cardinality(ready[pos]) <= Cardinality(ready[pos] \ {chosen}) + 1
    <3>1. IsFiniteSet(ready[pos])
      BY <1>g, <1>l, FS_Subset
    <3>2. IsFiniteSet(ready[pos] \ {chosen})
      BY <3>1, FS_RemoveElement
    <3>3. Cardinality(ready[pos]) \in Nat /\ Cardinality(ready[pos] \ {chosen}) \in Nat
      BY <3>1, <3>2, FS_CardinalityType
    <3>4. Cardinality(ready[pos] \ {chosen}) = IF chosen \in ready[pos] THEN Cardinality(ready[pos]) - 1 ELSE Cardinality(ready[pos])
      BY <3>1, FS_RemoveElement
    <3> QED
      BY <3>1, <3>3, <3>4
  <2>3. ready'[pos] = ready[pos] \ {chosen} \/ (got # "gated" /\ ready'[pos] = ready[pos])
    BY <1>0, <1>p, <2>0 DEF ExecTypeOK
  <2>4. CASE got = "gated"
    <3>1. ~(rotated + 1 > Cardinality(Credentials))
      BY <1>g, <2>1, <2>2
    <3>2. ready'[pos] = ready[pos] \ {chosen}
      BY <2>3, <2>4
    <3> QED
      BY <1>0, <1>g, <1>p, <2>0, <2>1, <2>2, <2>4, <3>1, <3>2 DEF GateCount, InLeg, Outcome
  <2>5. CASE got # "gated"
    <3>1. lastErr' # "gated" /\ place' \in {"returned", "legEnd", "pick", "wait"} /\ rotated' = rotated
      BY <1>p, <2>5 DEF Outcome
    <3>2. rotated + Cardinality(ready'[pos]) <= Cardinality(Credentials)
      <4>1. CASE ready'[pos] = ready[pos] \ {chosen}
        <5>1. Cardinality(ready'[pos]) = Cardinality(ready[pos] \ {chosen})
          BY <4>1
        <5> QED
          BY <1>g, <2>1, <2>2, <5>1
      <4>2. CASE ready'[pos] = ready[pos]
        <5>1. Cardinality(ready'[pos]) = Cardinality(ready[pos])
          BY <4>2
        <5> QED
          BY <1>g, <2>1, <2>2, <5>1
      <4> QED
        BY <2>3, <4>1, <4>2
    <3> QED
      BY <1>0, <2>0, <3>1, <3>2 DEF GateCount
  <2> QED
    BY <2>4, <2>5
<1> QED
  BY <1>1, <1>2, <1>3, <1>4, <1>5, <1>6, <1>7 DEF IInv

-----------------------------------------------------------------------------
LEMMA InitIInv == ASSUME RouterAssumption, ExecInit PROVE IInv
<1>1. ExecTypeOK
  <2>1. chosen \in Credentials
    BY DEF RouterAssumption, ExecInit, ExecEntry
  <2>2. /\ Len(Targets) \in Nat /\ Cardinality(Credentials) \in Nat /\ MaxRecover \in Nat
    BY FS_CardinalityType DEF RouterAssumption, ExecInit, ExecEntry, Targets
  <2>3. pos = 1 /\ 1 \in 1..(Len(Targets) + 1) /\ 0 \in 0..(Cardinality(Credentials) + 1)
    BY <2>2 DEF ExecInit, ExecEntry
  <2>4. plan \in Plans /\ ready \in [Indices -> SUBSET Credentials]
    BY DEF ExecInit, ExecEntry
  <2>5. triedLive \in BOOLEAN /\ refusal \in BOOLEAN /\ hungUp \in BOOLEAN
    BY DEF ExecInit, ExecEntry
  <2>6. place = "target" /\ attempt = 0 /\ rotated = 0 /\ recovered = 0
    BY DEF ExecInit, ExecEntry
  <2> QED
    BY <2>1, <2>2, <2>3, <2>4, <2>5, <2>6 DEF ExecTypeOK
<1>2. Loop /\ GateCount
  BY DEF ExecInit, ExecEntry, Loop, GateCount, InLeg
<1>3. History
  BY DEF ExecInit, ExecEntry, History
<1>4. Answers /\ FirstLive /\ LeftForRefusal
  BY DEF ExecInit, ExecEntry, Answers, FirstLive, LeftForRefusal, OneAnswer, NoSilentSwitch, NoDowngrade, InLeg
<1> QED
  BY <1>1, <1>2, <1>3, <1>4 DEF IInv

LEMMA StepIInv == ASSUME RouterAssumption, IInv, [ExecNext]_execVars PROVE IInv'
<1>1. ASSUME UNCHANGED execVars PROVE IInv'
  <2>1. /\ UNCHANGED <<plan, place, pos, triedLive, attempt, rotated, refusal, lastErr, ready, chosen>>
        /\ UNCHANGED <<hungUp, recovered, made, calls, gates>>
    BY <1>1 DEF execVars, locals, past
  <2>2. /\ ExecTypeOK /\ Loop /\ History /\ Answers /\ FirstLive /\ LeftForRefusal /\ GateCount
    BY DEF IInv
  <2>3. ExecTypeOK' /\ Loop' /\ History' /\ GateCount'
    BY <2>1, <2>2 DEF ExecTypeOK, Loop, History, GateCount, InLeg, InLoop, T, Budget, Last, Targets, Indices
  <2>4. Answers' /\ FirstLive' /\ LeftForRefusal'
    BY <2>1, <2>2 DEF Answers, FirstLive, LeftForRefusal, OneAnswer, NoSilentSwitch, NoDowngrade,
                      InLeg, T, Last, InExecute, Targets, Indices, IsCombo, FallbackOn
  <2> QED
    BY <2>3, <2>4 DEF IInv
<1> QED
  BY <1>1, StartTargetInv, PickInv, WaitInv, CallInv, EndLegInv, CoolInv, RecoverInv, HangUpInv
     DEF ExecNext, Execute

(* One answer, of a model the client may get: nothing is called behind an  *)
(* answer, a combo without fallback never switches in silence, a target    *)
(* that retries for ever is left on its refusal only, and a gated 403 is   *)
(* never the verdict on a pool (Router.Execute).                           *)
THEOREM RoutesHold == ASSUME RouterAssumption PROVE ExecSpec => []Routed
<1>1. IInv => Routed
  <2>1. Loop /\ GateCount => NoRawGate
    BY DEF GateCount, NoRawGate, InLeg
  <2> QED
    BY <2>1 DEF IInv, Answers, FirstLive, LeftForRefusal, Routed
<1>2. ExecInit => IInv
  BY InitIInv
<1>3. IInv /\ [ExecNext]_execVars => IInv'
  BY StepIInv
<1> QED
  BY <1>1, <1>2, <1>3, PTL DEF ExecSpec

-----------------------------------------------------------------------------
(* Names.  The least of a set of places.                                   *)
LEMMA LeastIs ==
  ASSUME NEW S \in SUBSET Nat, S # {}
  PROVE  Least(S) \in S /\ \A y \in S : Least(S) <= y
<1>1. PICK x \in S : \A y \in S : ~(<<y, x>> \in OpToRel(<, Nat))
  BY NatLessThanWellFounded, WFMin
<1>2. ASSUME NEW y \in Nat, y < x PROVE <<y, x>> \in OpToRel(<, Nat)
  <2>1. <<y, x>> \in Nat \X Nat /\ <<y, x>>[1] < <<y, x>>[2]
    BY <1>2
  <2> QED BY <2>1, Zenon DEF OpToRel
<1>3. ASSUME NEW y \in S PROVE x <= y
  <2>1. ~(y < x)
    BY <1>1, <1>2
  <2> QED BY <2>1
<1> QED
  BY <1>3 DEF Least

\* f is the walk from name, as far as hop m.
Walk(t, name, m, f) == f = [k \in 0 .. m |-> IF k = 0 THEN name ELSE Hop(t, f[k - 1])]

\* There is a walk of any length: otherwise there is a shortest that is not.
LEMMA WalkExists ==
  ASSUME NEW t, NEW name, NEW m \in Nat
  PROVE  \E f : Walk(t, name, m, f)
<1> DEFINE S == {k \in Nat : ~\E f : Walk(t, name, k, f)}
<1> SUFFICES ASSUME S # {} PROVE FALSE
  OBVIOUS
<1>1. Least(S) \in S /\ \A y \in S : Least(S) <= y
  BY LeastIs
<1> DEFINE l == Least(S)
<1>2. l \in Nat /\ ~\E f : Walk(t, name, l, f)
  BY <1>1
<1>3. \A k \in Nat : k < l => \E f : Walk(t, name, k, f)
  BY <1>1, <1>2
<1> HIDE DEF l, S
<1>4. CASE l = 0
  <2> DEFINE f == [k \in 0 .. 0 |-> name]
  <2>1. \A k \in 0 .. 0 : name = IF k = 0 THEN name ELSE Hop(t, f[k - 1])
    OBVIOUS
  <2>2. f = [k \in 0 .. 0 |-> IF k = 0 THEN name ELSE Hop(t, f[k - 1])]
    BY <2>1
  <2> HIDE DEF f
  <2>3. Walk(t, name, 0, f)
    BY <2>2 DEF Walk
  <2> QED BY <1>2, <1>4, <2>3
<1>5. CASE l # 0
  <2>1. l - 1 \in Nat /\ l - 1 < l
    BY <1>2, <1>5
  <2>2. PICK f : Walk(t, name, l - 1, f)
    BY <1>3, <2>1
  <2> DEFINE g == [k \in 0 .. l |-> IF k = l THEN Hop(t, f[l - 1]) ELSE f[k]]
  <2>3. \A k \in 0 .. l : g[k] = IF k = 0 THEN name ELSE Hop(t, g[k - 1])
    <3>1. \A k \in 0 .. (l - 1) : f[k] = IF k = 0 THEN name ELSE Hop(t, f[k - 1])
      BY <2>1, <2>2 DEF Walk
    <3>2. \A k \in 0 .. (l - 1) : g[k] = f[k]
      BY <1>2, <1>5
    <3>3. g[l] = Hop(t, f[l - 1])
      BY <1>2
    <3> HIDE DEF g
    <3> QED BY <1>2, <1>5, <3>1, <3>2, <3>3
  <2>4. g = [k \in 0 .. l |-> IF k = 0 THEN name ELSE Hop(t, g[k - 1])]
    <3>1. g = [k \in 0 .. l |-> g[k]]
      OBVIOUS
    <3> HIDE DEF g
    <3> QED BY <2>3, <3>1
  <2>5. Walk(t, name, l, g)
    <3> HIDE DEF g
    <3> QED BY <2>4 DEF Walk
  <2> QED BY <1>2, <2>5
<1> QED
  BY <1>4, <1>5

\* What Hops is.
LEMMA HopsAt ==
  ASSUME NEW t, NEW name
  PROVE  /\ Hops(t, name)[0] = name
         /\ \A k \in 1 .. MaxAliasHops : Hops(t, name)[k] = Hop(t, Hops(t, name)[k - 1])
<1>1. MaxAliasHops \in Nat
  BY RoutesAssumption
<1>2. Hops(t, name) = CHOOSE f : f = [k \in 0 .. MaxAliasHops |-> IF k = 0 THEN name ELSE Hop(t, f[k - 1])]
  BY DEF Hops
<1>3. Hops(t, name) = CHOOSE f : Walk(t, name, MaxAliasHops, f)
  BY <1>2 DEF Walk
<1>4. Walk(t, name, MaxAliasHops, Hops(t, name))
  BY <1>1, <1>3, WalkExists
<1> DEFINE h == Hops(t, name)
<1>5. h = [k \in 0 .. MaxAliasHops |-> IF k = 0 THEN name ELSE Hop(t, h[k - 1])]
  BY <1>4 DEF Walk
<1> HIDE DEF h
<1>6. \A k \in 0 .. MaxAliasHops : h[k] = IF k = 0 THEN name ELSE Hop(t, h[k - 1])
  BY <1>5
<1>7. h[0] = name /\ \A k \in 1 .. MaxAliasHops : h[k] = Hop(t, h[k - 1])
  BY <1>1, <1>6
<1> QED
  BY <1>7 DEF h

\* The walk from where the first hop leads is one hop behind.
LEMMA HopsBehind ==
  ASSUME NEW t, NEW a \in DOMAIN t
  PROVE  \A k \in 0 .. (MaxAliasHops - 1) : Hops(t, t[a])[k] = Hops(t, a)[k + 1]
<1>0. MaxAliasHops \in Nat \ {0}
  BY RoutesAssumption
<1> DEFINE h == Hops(t, a)
           e == Hops(t, t[a])
           S == {k \in 0 .. (MaxAliasHops - 1) : e[k] # h[k + 1]}
<1>1. /\ h[0] = a /\ \A k \in 1 .. MaxAliasHops : h[k] = Hop(t, h[k - 1])
      /\ e[0] = t[a] /\ \A k \in 1 .. MaxAliasHops : e[k] = Hop(t, e[k - 1])
  BY HopsAt
<1> HIDE DEF h, e
<1>2. S = {}
  <2> SUFFICES ASSUME S # {} PROVE FALSE
    OBVIOUS
  <2>1. S \in SUBSET Nat
    BY <1>0
  <2> DEFINE l == Least(S)
  <2>2. l \in S /\ \A y \in S : l <= y
    BY <2>1, LeastIs
  <2>3. l \in 0 .. (MaxAliasHops - 1) /\ e[l] # h[l + 1]
    BY <2>2
  <2>4. l # 0
    <3>1. h[1] = Hop(t, a) /\ Hop(t, a) = t[a]
      BY <1>0, <1>1 DEF Hop
    <3> QED BY <1>1, <2>3, <3>1
  <2>5. l - 1 \in 0 .. (MaxAliasHops - 1) /\ l - 1 \notin S
    <3>1. l \in Nat /\ l - 1 \in 0 .. (MaxAliasHops - 1)
      BY <1>0, <2>3, <2>4
    <3>2. ~(l <= l - 1)
      BY <3>1
    <3> QED BY <2>2, <3>1, <3>2
  <2>6. e[l - 1] = h[l]
    BY <2>3, <2>5
  <2> HIDE DEF l, S
  <2>7. e[l] = Hop(t, e[l - 1]) /\ h[l + 1] = Hop(t, h[l])
    BY <1>0, <1>1, <2>3, <2>4
  <2> QED BY <2>3, <2>6, <2>7
<1>3. \A k \in 0 .. (MaxAliasHops - 1) : e[k] = h[k + 1]
  BY <1>2
<1> QED
  BY <1>3 DEF e, h

\* A name that is no alias stays.
LEMMA HopsStay ==
  ASSUME NEW t, NEW name, name \notin DOMAIN t
  PROVE  \A k \in 0 .. MaxAliasHops : Hops(t, name)[k] = name
<1>0. MaxAliasHops \in Nat \ {0}
  BY RoutesAssumption
<1> DEFINE h == Hops(t, name)
           S == {k \in 0 .. MaxAliasHops : h[k] # name}
<1>1. h[0] = name /\ \A k \in 1 .. MaxAliasHops : h[k] = Hop(t, h[k - 1])
  BY HopsAt
<1> HIDE DEF h
<1>2. S = {}
  <2> SUFFICES ASSUME S # {} PROVE FALSE
    OBVIOUS
  <2>1. S \in SUBSET Nat
    BY <1>0
  <2> DEFINE l == Least(S)
  <2>2. l \in S /\ \A y \in S : l <= y
    BY <2>1, LeastIs
  <2>3. l \in 0 .. MaxAliasHops /\ h[l] # name /\ l # 0
    BY <1>1, <2>2
  <2>4. l - 1 \in 0 .. MaxAliasHops /\ l - 1 \notin S
    <3>1. l \in Nat /\ l - 1 \in 0 .. MaxAliasHops
      BY <1>0, <2>3
    <3>2. ~(l <= l - 1)
      BY <3>1
    <3> QED BY <2>2, <3>1, <3>2
  <2>5. h[l - 1] = name
    BY <2>4
  <2> HIDE DEF l, S
  <2>6. h[l] = Hop(t, h[l - 1])
    BY <1>0, <1>1, <2>3
  <2> QED BY <2>3, <2>5, <2>6 DEF Hop
<1> QED
  BY <1>2 DEF h

\* Where the name of an accepted alias leads within the hop cap: to the
\* end of its chain, which is a combo or a provider's.
LEMMA AliasFollowed ==
  ASSUME Validate(aliases), DOMAIN aliases \subseteq Aliases, NEW a \in DOMAIN aliases, ~CapSpent(aliases, a)
  PROVE  /\ Followed(aliases, a) = End(aliases, a)
         /\ Followed(aliases, End(aliases, a)) = End(aliases, a)
         /\ \/ End(aliases, a) \in DOMAIN ComboTable
            \/ ~Bare(End(aliases, a)) /\ Head(End(aliases, a)) \in ProviderNames
<1> DEFINE K == MaxAliasHops
           e == End(aliases, a)
           h == Hops(aliases, a)
<1>1. K \in Nat \ {0} /\ a \notin DOMAIN ComboTable
  BY RoutesAssumption
<1>2. /\ e \notin DOMAIN aliases
      /\ e \in DOMAIN ComboTable \/ (~Bare(e) /\ Head(e) \in ProviderNames)
  BY DEF Validate, Settles
<1>3. e = h[K]
  <2>1. K - 1 \in 0 .. (K - 1) /\ (K - 1) + 1 = K
    BY <1>1
  <2>2. Hops(aliases, aliases[a])[K - 1] = Hops(aliases, a)[(K - 1) + 1]
    BY <2>1, HopsBehind
  <2> QED BY <2>1, <2>2 DEF End
<1>4. Followed(aliases, a) = e
  BY <1>1, <1>3 DEF Followed
<1>5. Followed(aliases, e) = e
  <2>1. \A k \in 0 .. K : Hops(aliases, e)[k] = e
    BY <1>2, HopsStay
  <2>2. K \in 0 .. K /\ K - 1 \in 0 .. K
    BY <1>1
  <2>3. Hops(aliases, e)[K - 1] = e /\ Hops(aliases, e)[K] = e
    BY <2>1, <2>2
  <2> HIDE DEF e
  <2> QED BY <1>2, <2>3 DEF Followed, CapSpent
<1> QED
  BY <1>2, <1>4, <1>5

LEMMA AliasesServe ==
  ASSUME Validate(aliases), DOMAIN aliases \subseteq Aliases
  PROVE  AliasMeansItsEnd
<1> SUFFICES ASSUME NEW a \in DOMAIN aliases, ~CapSpent(aliases, a)
             PROVE  Serves(a) /\ Now(a) = Now(End(aliases, a))
  BY DEF AliasMeansItsEnd
<1> DEFINE e == End(aliases, a)
<1>1. /\ Followed(aliases, a) = e /\ Followed(aliases, e) = e
      /\ e \in DOMAIN ComboTable \/ (~Bare(e) /\ Head(e) \in ProviderNames)
  BY AliasFollowed
<1> HIDE DEF e
<1>2. Now(a) = Now(e)
  BY <1>1 DEF Now, Resolve
<1>3. Now(a).err = "none"
  BY <1>1 DEF Now, Resolve, Plan
<1> QED
  BY <1>2, <1>3 DEF Serves, e

\* Places in the config order.
LEMMA LiveAre ==
  ASSUME NEW off
  PROVE  /\ LiveProviders(off) \in SUBSET Nat
         /\ LiveProviders(off) \subseteq DOMAIN Providers
         /\ \A p : LiveProviders(off \cup {p}) = {i \in LiveProviders(off) : Providers[i].name # p}
<1>1. DOMAIN Providers \subseteq Nat
  <2>1. Providers \in Seq({Providers[i] : i \in DOMAIN Providers})
    BY RoutesAssumption
  <2> QED BY <2>1
<1> QED
  BY <1>1 DEF LiveProviders

\* Who is left of a set of places when p pauses: the first stays the first,
\* unless it is p's.
LEMMA LeastLeft ==
  ASSUME NEW S \in SUBSET Nat, NEW R \in SUBSET S, Least(S) \in R
  PROVE  Least(R) = Least(S)
<1>1. S # {} /\ R # {} /\ R \in SUBSET Nat
  OBVIOUS
<1>2. Least(S) \in S /\ \A y \in S : Least(S) <= y
  BY <1>1, LeastIs
<1>3. Least(R) \in R /\ \A y \in R : Least(R) <= y
  BY <1>1, LeastIs
<1>4. Least(R) <= Least(S) /\ Least(S) <= Least(R) /\ Least(S) \in Nat /\ Least(R) \in Nat
  BY <1>2, <1>3
<1> QED
  BY <1>4

\* What one group of a bare name's takers does: it serves by its first.
Group(S, name) == Plan(<<Target(Providers[Least(S)].name, name)>>)

Besides(S, p) == {i \in S : Providers[i].name # p}

LEMMA GroupLeft ==
  ASSUME NEW S \in SUBSET Nat, NEW p, NEW name, S # {},
         Besides(S, p) = {} \/ Group(Besides(S, p), name) # Group(S, name)
  PROVE  Group(S, name).err = "none" /\ Group(S, name).targets[1].provider = p
<1>1. Least(S) \in S
  BY LeastIs
<1>2. Providers[Least(S)].name = p
  <2> SUFFICES ASSUME Providers[Least(S)].name # p PROVE FALSE
    OBVIOUS
  <2>1. Least(S) \in Besides(S, p) /\ Besides(S, p) \in SUBSET S
    BY <1>1 DEF Besides
  <2>2. Least(Besides(S, p)) = Least(S)
    BY <2>1, LeastLeft
  <2> QED BY <2>1, <2>2 DEF Group
<1> QED
  BY <1>2 DEF Group, Plan, Target

LEMMA GroupTakes ==
  ASSUME NEW S \in SUBSET Nat, S # {}, NEW name
  PROVE  Group(S, name).targets[1].provider = Providers[Least(S)].name /\ Least(S) \in S
BY LeastIs DEF Group, Plan, Target

\* A pause of p moves a bare name only if p served it, and to a live one.
LEMMA BareMoves ==
  ASSUME NEW off, NEW p, NEW name
  PROVE  LET now  == ServeBare(LiveProviders(off), name)
             then == ServeBare(LiveProviders(off \cup {p}), name)
         IN  /\ then # now => now.err = "none" /\ now.targets[1].provider = p
             /\ then.err = "none" => then.targets[1].provider \notin off \cup {p}
<1> DEFINE live == LiveProviders(off)
           left == LiveProviders(off \cup {p})
           now  == ServeBare(live, name)
           then == ServeBare(left, name)
           C    == Claimants(live, name)
           A    == Advertisers(live, name)
           P    == PassThrough(live)
           Left(S) == Besides(S, p)
<1>1. /\ left = Left(live) /\ live \in SUBSET Nat /\ left \in SUBSET Nat
      /\ \A i \in left : Providers[i].name \notin off \cup {p}
  BY LiveAre DEF LiveProviders, Besides
<1> HIDE DEF live, left
<1>2. /\ Claimants(left, name) = Left(C) /\ Advertisers(left, name) = Left(A) /\ PassThrough(left) = Left(P)
      /\ C \in SUBSET Nat /\ A \in SUBSET Nat /\ P \in SUBSET Nat
      /\ Left(C) \subseteq left /\ Left(A) \subseteq left /\ Left(P) \subseteq left
  BY <1>1 DEF Claimants, Advertisers, PassThrough, Besides
<1>3. now = IF C # {} THEN Group(C, name) ELSE IF A # {} THEN Group(A, name)
            ELSE IF P # {} THEN Group(P, name) ELSE NoPlan("model_not_found")
  BY DEF ServeBare, Group
<1>4. then = IF Left(C) # {} THEN Group(Left(C), name) ELSE IF Left(A) # {} THEN Group(Left(A), name)
             ELSE IF Left(P) # {} THEN Group(Left(P), name) ELSE NoPlan("model_not_found")
  BY <1>2 DEF ServeBare, Group
<1>5. \A S \in SUBSET Nat :
        S # {} /\ (Left(S) = {} \/ Group(Left(S), name) # Group(S, name))
          => Group(S, name).err = "none" /\ Group(S, name).targets[1].provider = p
  <2> SUFFICES ASSUME NEW S \in SUBSET Nat, S # {}, Left(S) = {} \/ Group(Left(S), name) # Group(S, name)
               PROVE  Group(S, name).err = "none" /\ Group(S, name).targets[1].provider = p
    OBVIOUS
  <2> QED BY GroupLeft
<1>6. \A S \in SUBSET Nat : Left(S) # {} /\ Left(S) \subseteq left
        => Group(Left(S), name).targets[1].provider \notin off \cup {p}
  <2> SUFFICES ASSUME NEW S \in SUBSET Nat, Left(S) # {}, Left(S) \subseteq left
               PROVE  Group(Left(S), name).targets[1].provider \notin off \cup {p}
    OBVIOUS
  <2>1. Left(S) \in SUBSET Nat
    BY DEF Besides
  <2> HIDE DEF Left
  <2>2. Group(Left(S), name).targets[1].provider = Providers[Least(Left(S))].name /\ Least(Left(S)) \in Left(S)
    BY <2>1, GroupTakes
  <2> QED BY <1>1, <2>2
<1>7. \A S : S = {} => Left(S) = {}
  BY DEF Besides
<1> HIDE DEF now, then, C, A, P, Left
<1>8. then # now => now.err = "none" /\ now.targets[1].provider = p
  BY <1>2, <1>3, <1>4, <1>5, <1>7
<1>9. then.err = "none" => then.targets[1].provider \notin off \cup {p}
  <2>1. NoPlan("model_not_found").err # "none"
    BY DEF NoPlan
  <2> QED BY <1>2, <1>4, <1>6, <2>1
<1> QED
  BY <1>8, <1>9 DEF now, then, live, left

LEMMA PauseMoves == PauseMovesItsOwn
<1> SUFFICES ASSUME NEW name \in Names, NEW p \in ProviderNames \ paused
             PROVE  LET now  == Now(name)
                        bare == /\ Bare(Followed(aliases, name))
                                /\ Followed(aliases, name) \notin DOMAIN ComboTable
                        then == Resolve(aliases, paused \cup {p}, name)
                    IN  /\ then # now => now.err = "none" /\ now.targets[1].provider = p
                        /\ bare /\ then.err = "none" => then.targets[1].provider \notin paused \cup {p}
  BY DEF PauseMovesItsOwn
<1> DEFINE n == Followed(aliases, name)
<1>1. CASE Bare(n) /\ n \notin DOMAIN ComboTable
  <2>1. /\ Now(name) = ServeBare(LiveProviders(paused), n)
        /\ Resolve(aliases, paused \cup {p}, name) = ServeBare(LiveProviders(paused \cup {p}), n)
    BY <1>1 DEF Now, Resolve
  <2> HIDE DEF n
  <2> QED BY <2>1, BareMoves
<1>2. CASE ~(Bare(n) /\ n \notin DOMAIN ComboTable)
  <2>1. Resolve(aliases, paused \cup {p}, name) = Now(name)
    BY <1>2 DEF Now, Resolve
  <2> QED BY <1>2, <2>1
<1> QED
  BY <1>1, <1>2

LEMMA ServedKnown == ServedIsKnown
<1> SUFFICES ASSUME NEW name \in Names, Serves(name),
                    Claimants(LiveProviders(paused), Followed(aliases, name)) = {}
             PROVE  KnownModel(aliases, paused, name)
  BY DEF ServedIsKnown
<1> DEFINE n == Followed(aliases, name)
<1>1. CASE n \in DOMAIN ComboTable
  BY <1>1 DEF KnownModel
<1>2. CASE n \notin DOMAIN ComboTable /\ Bare(n)
  <2>1. ServeBare(LiveProviders(paused), n).err = "none"
    BY <1>2 DEF Serves, Now, Resolve
  <2>2. Advertisers(LiveProviders(paused), n) # {} \/ PassThrough(LiveProviders(paused)) # {}
    BY <2>1 DEF ServeBare, NoPlan
  <2>3. Advertisers(LiveProviders(paused), n) # {} => n \in Advertised
    BY LiveAre DEF Advertisers, Advertised
  <2> QED BY <1>2, <2>2, <2>3 DEF KnownModel
<1>3. CASE n \notin DOMAIN ComboTable /\ ~Bare(n)
  <2>1. Head(n) \in ProviderNames
    BY <1>3 DEF Serves, Now, Resolve, NoPlan
  <2> QED BY <1>3, <2>1 DEF KnownModel
<1> QED
  BY <1>1, <1>2, <1>3

(* The inductive invariant of the names: what is loaded was validated.     *)
NamesInv == RoutesTypeOK /\ Validate(aliases)

LEMMA NamesInvStep ==
  ASSUME NamesInv, [RoutesNext]_nameVars
  PROVE  NamesInv'
<1>1. CASE UNCHANGED nameVars
  BY <1>1 DEF nameVars, NamesInv, RoutesTypeOK
<1>2. CASE SetAliases
  <2>1. PICK a \in Aliases :
          LET rest == [b \in DOMAIN aliases \ {a} |-> aliases[b]]
          IN  \E new \in {rest} \cup {[b \in DOMAIN rest \cup {a} |-> IF b = a THEN e ELSE rest[b]] : e \in Ends} :
                Validate(new) /\ aliases' = new
    BY <1>2 DEF SetAliases
  <2> DEFINE rest == [b \in DOMAIN aliases \ {a} |-> aliases[b]]
  <2>2. Validate(aliases')
    BY <2>1
  <2>3. DOMAIN rest \subseteq Aliases /\ \A b \in DOMAIN rest : rest[b] \in Ends
    BY DEF NamesInv, RoutesTypeOK
  <2>4. aliases' = rest \/ \E e \in Ends : aliases' = [b \in DOMAIN rest \cup {a} |-> IF b = a THEN e ELSE rest[b]]
    BY <2>1
  <2> HIDE DEF rest
  <2>5. DOMAIN aliases' \subseteq Aliases /\ \A b \in DOMAIN aliases' : aliases'[b] \in Ends
    BY <2>3, <2>4
  <2>6. paused' \subseteq ProviderNames
    BY <1>2 DEF SetAliases, NamesInv, RoutesTypeOK
  <2> QED BY <2>2, <2>5, <2>6 DEF NamesInv, RoutesTypeOK
<1>3. ASSUME NEW p \in ProviderNames, Toggle(p) PROVE NamesInv'
  <2>1. aliases' = aliases /\ paused' \subseteq ProviderNames
    BY <1>3 DEF Toggle, NamesInv, RoutesTypeOK
  <2> QED BY <2>1 DEF NamesInv, RoutesTypeOK
<1> QED
  BY <1>1, <1>2, <1>3 DEF RoutesNext

(* Names mean what the configuration says, for any tables and hop cap.     *)
THEOREM NamesMean == RoutesSpec => []NamesHold
<1>1. RoutesInit => NamesInv
  <2> SUFFICES ASSUME RoutesInit PROVE NamesInv
    OBVIOUS
  <2>1. DOMAIN aliases = {} /\ paused \subseteq ProviderNames
    BY DEF RoutesInit
  <2> QED BY <2>1 DEF NamesInv, RoutesTypeOK, Validate
<1>2. NamesInv => NamesHold
  BY AliasesServe, PauseMoves, ServedKnown DEF NamesInv, NamesHold, RoutesTypeOK
<1> QED
  BY <1>1, <1>2, NamesInvStep, PTL DEF RoutesSpec

-----------------------------------------------------------------------------
(* The order a stable sort gives is a total one: what is better first, and *)
(* what stands first among equals.                                         *)
Sorted(n, better) ==
  {p \in (1 .. n) \X (1 .. n) :
     p[1] # p[2] /\ (p \in better \/ (p[1] < p[2] /\ <<p[2], p[1]>> \notin better))}

\* better is a weak order.
Ranks(n, better) ==
  /\ \A i, j \in 1 .. n : <<i, j>> \in better => <<j, i>> \notin better
  /\ \A i, j, k \in 1 .. n : <<i, k>> \in better => <<i, j>> \in better \/ <<j, k>> \in better

LEMMA SortedTotal ==
  ASSUME NEW n \in Nat, NEW better, Ranks(n, better)
  PROVE  LET b == Sorted(n, better)
         IN  /\ \A i, j \in 1 .. n : <<i, j>> \in b <=>
                  i # j /\ (<<i, j>> \in better \/ (i < j /\ <<j, i>> \notin better))
             /\ \A i \in 1 .. n : <<i, i>> \notin b
             /\ \A i, j \in 1 .. n : i # j => <<i, j>> \in b \/ <<j, i>> \in b
             /\ \A i, j, k \in 1 .. n : <<i, j>> \in b /\ <<j, k>> \in b => <<i, k>> \in b
             /\ \A i, j \in 1 .. n : <<i, j>> \in b => <<j, i>> \notin b
<1> DEFINE b == Sorted(n, better)
<1>1. \A i, j \in 1 .. n : <<i, j>> \in b <=>
        i # j /\ (<<i, j>> \in better \/ (i < j /\ <<j, i>> \notin better))
  BY DEF Sorted
<1> HIDE DEF b
<1>2. \A i, j \in 1 .. n : i # j => <<i, j>> \in b \/ <<j, i>> \in b
  BY <1>1
<1>3. ASSUME NEW i \in 1 .. n, NEW j \in 1 .. n, NEW k \in 1 .. n, <<i, j>> \in b, <<j, k>> \in b
      PROVE  <<i, k>> \in b
  <2>1. CASE <<i, j>> \in better
    <3>1. <<k, j>> \notin better
      BY <1>1, <1>3 DEF Ranks
    <3>2. <<i, k>> \in better
      BY <2>1, <3>1 DEF Ranks
    <3>3. i # k
      BY <3>2 DEF Ranks
    <3> QED BY <1>1, <3>2, <3>3
  <2>2. CASE i < j /\ <<j, i>> \notin better
    <3>1. CASE <<j, k>> \in better
      <4>1. <<i, k>> \in better
        BY <2>2, <3>1 DEF Ranks
      <4>2. i # k
        BY <4>1 DEF Ranks
      <4> QED BY <1>1, <4>1, <4>2
    <3>2. CASE j < k /\ <<k, j>> \notin better
      <4>1. <<k, i>> \notin better
        BY <2>2, <3>2 DEF Ranks
      <4>2. i < k
        BY <2>2, <3>2
      <4> QED BY <1>1, <4>1, <4>2
    <3> QED BY <1>1, <1>3, <3>1, <3>2
  <2> QED BY <1>1, <1>3, <2>1, <2>2
<1>4. \A i, j \in 1 .. n : <<i, j>> \in b => <<j, i>> \notin b
  BY <1>1 DEF Ranks
<1>5. \A i \in 1 .. n : <<i, i>> \notin b
  BY <1>1
<1> QED
  BY <1>1, <1>2, <1>3, <1>4, <1>5 DEF b

(* The place of an element in it: one more than what is before it.         *)
Before(n, better, i) ==
  {j \in (1 .. n) \ {i} : <<j, i>> \in better \/ (j < i /\ <<i, j>> \notin better)}

LEMMA SortPlaces ==
  ASSUME NEW n \in Nat, NEW better, Ranks(n, better), NEW rank,
         \A i \in 1 .. n : rank[i] = 1 + Cardinality(Before(n, better, i))
  PROVE  /\ \A i \in 1 .. n : rank[i] \in 1 .. n
         /\ {rank[i] : i \in 1 .. n} = 1 .. n
         /\ \A i, j \in 1 .. n :
              rank[i] < rank[j] <=> i # j /\ (<<i, j>> \in better \/ (i < j /\ <<j, i>> \notin better))
<1> DEFINE I == 1 .. n
           b == Sorted(n, better)
           ahead(i) == {j \in I : <<j, i>> \in b}
<1>1. /\ \A i, j \in I : <<i, j>> \in b <=> i # j /\ (<<i, j>> \in better \/ (i < j /\ <<j, i>> \notin better))
      /\ \A i \in I : <<i, i>> \notin b
      /\ \A i, j \in I : i # j => <<i, j>> \in b \/ <<j, i>> \in b
      /\ \A i, j, k \in I : <<i, j>> \in b /\ <<j, k>> \in b => <<i, k>> \in b
  BY SortedTotal
<1> HIDE DEF b
<1>2. \A i \in I : rank[i] = 1 + Cardinality(ahead(i))
  <2> SUFFICES ASSUME NEW i \in I PROVE rank[i] = 1 + Cardinality(ahead(i))
    OBVIOUS
  <2>1. ahead(i) = Before(n, better, i)
    BY <1>1 DEF Before
  <2> QED BY <2>1
<1>3. IsFiniteSet(I) /\ Cardinality(I) = n
  <2>1. 1 \in Int /\ n \in Int
    OBVIOUS
  <2>2. IsFiniteSet(I) /\ Cardinality(I) = IF 1 > n THEN 0 ELSE n - 1 + 1
    BY <2>1, FS_Interval, Zenon
  <2> QED BY <2>2
<1>4. ASSUME NEW i \in I
      PROVE  IsFiniteSet(ahead(i)) /\ Cardinality(ahead(i)) \in Nat /\ Cardinality(ahead(i)) < n
  <2>1. ahead(i) \subseteq I /\ ahead(i) # I
    BY <1>1
  <2>2. IsFiniteSet(ahead(i)) /\ Cardinality(ahead(i)) <= Cardinality(I) /\ Cardinality(ahead(i)) # Cardinality(I)
    BY <1>3, <2>1, FS_Subset
  <2>3. Cardinality(ahead(i)) \in Nat
    BY <2>2, FS_CardinalityType
  <2> QED BY <1>3, <2>2, <2>3
<1>5. ASSUME NEW i \in I, NEW j \in I, <<i, j>> \in b PROVE rank[i] < rank[j]
  <2>1. ahead(i) \subseteq ahead(j) /\ i \in ahead(j) /\ i \notin ahead(i)
    BY <1>1, <1>5
  <2>2. ahead(i) # ahead(j)
    BY <2>1
  <2>3. Cardinality(ahead(i)) <= Cardinality(ahead(j)) /\ Cardinality(ahead(i)) # Cardinality(ahead(j))
    BY <1>4, <2>1, <2>2, FS_Subset
  <2>4. Cardinality(ahead(i)) \in Nat /\ Cardinality(ahead(j)) \in Nat
    BY <1>4
  <2> HIDE DEF ahead
  <2> QED BY <1>2, <2>3, <2>4
<1>6. \A i \in I : rank[i] \in I
  <2> HIDE DEF ahead
  <2> QED BY <1>2, <1>4
<1>7. \A i, j \in I : rank[i] < rank[j] <=> <<i, j>> \in b
  <2> SUFFICES ASSUME NEW i \in I, NEW j \in I, rank[i] < rank[j] PROVE <<i, j>> \in b
    BY <1>5
  <2>1. i # j
    BY <1>6
  <2>2. ASSUME <<j, i>> \in b PROVE FALSE
    <3>1. rank[j] < rank[i]
      BY <1>5, <2>2
    <3> QED BY <1>6, <3>1
  <2> QED BY <1>1, <2>1, <2>2
<1>8. {rank[i] : i \in I} = I
  <2> DEFINE f == [i \in I |-> rank[i]]
  <2>1. f \in [I -> I]
    BY <1>6
  <2>2. \A i, j \in I : f[i] = f[j] => i = j
    <3> SUFFICES ASSUME NEW i \in I, NEW j \in I, rank[i] = rank[j], i # j PROVE FALSE
      OBVIOUS
    <3>1. rank[i] < rank[j] \/ rank[j] < rank[i]
      BY <1>1, <1>5
    <3> QED BY <1>6, <3>1
  <2>3. \A i \in I : f[i] = rank[i]
    OBVIOUS
  <2> HIDE DEF f, I
  <2>4. f \in Injection(I, I)
    BY <2>1, <2>2 DEF Injection, IsInjective
  <2>5. f \in Surjection(I, I)
    BY <1>3, <2>4, FS_Injection
  <2>6. \A k \in I : \E i \in I : f[i] = k
    BY <2>5 DEF Surjection
  <2> QED BY <1>6, <2>3, <2>6
<1> QED
  BY <1>1, <1>6, <1>7, <1>8


LEMMA TimesLess ==
  ASSUME NEW x \in Nat, NEW y \in Nat, NEW z \in Nat
  PROVE  /\ x <= y => x * z <= y * z
         /\ z > 0 /\ x < y => x * z < y * z
         /\ z > 0 /\ x * z <= y * z => x <= y
         /\ x * z \in Nat /\ x * z = z * x
<1>1. x * z \in Nat /\ y * z \in Nat /\ x * z = z * x
  OBVIOUS
<1>2. ASSUME x <= y PROVE x * z <= y * z
  <2>1. PICK d \in Nat : y = x + d
    <3>1. y - x \in Nat /\ y = x + (y - x)
      BY <1>2
    <3> QED BY <3>1
  <2>2. y * z = x * z + d * z /\ d * z \in Nat
    BY <2>1
  <2> QED BY <1>1, <2>2
<1>3. ASSUME z > 0, x < y PROVE x * z < y * z
  <2>1. PICK d \in Nat : y = x + 1 + d
    <3>1. y - x - 1 \in Nat /\ y = x + 1 + (y - x - 1)
      BY <1>3
    <3> QED BY <3>1
  <2>2. y * z = x * z + z + d * z /\ d * z \in Nat
    BY <2>1
  <2> QED BY <1>1, <1>3, <2>2
<1>4. ASSUME z > 0, x * z <= y * z PROVE x <= y
  <2> SUFFICES ASSUME y < x PROVE FALSE
    OBVIOUS
  <2>1. PICK d \in Nat : x = y + 1 + d
    <3>1. x - y - 1 \in Nat /\ x = y + 1 + (x - y - 1)
      OBVIOUS
    <3> QED BY <3>1
  <2>2. x * z = y * z + z + d * z /\ d * z \in Nat
    BY <2>1
  <2> QED BY <1>1, <1>4, <2>2
<1> QED
  BY <1>1, <1>2, <1>3, <1>4

\* Fractions are ordered.
LEMMA FractionsOrdered ==
  ASSUME NEW a \in Nat, NEW c \in Nat, NEW e \in Nat,
         NEW b \in Nat \ {0}, NEW d \in Nat \ {0}, NEW f \in Nat \ {0},
         a * d <= c * b, c * f <= e * d
  PROVE  a * f <= e * b
<1>1. (a * d) * f <= (c * b) * f
  BY TimesLess
<1>2. (c * f) * b <= (e * d) * b
  BY TimesLess
<1>3. (c * b) * f = (c * f) * b /\ (a * d) * f = (a * f) * d /\ (e * d) * b = (e * b) * d
  OBVIOUS
<1>4. /\ (a * f) * d \in Nat /\ (c * f) * b \in Nat /\ (e * b) * d \in Nat
      /\ a * f \in Nat /\ e * b \in Nat
  OBVIOUS
<1>5. (a * f) * d <= (e * b) * d
  BY <1>1, <1>2, <1>3, <1>4
<1> QED
  BY <1>4, <1>5, TimesLess

(* Quicker on both clocks, and the predicted time is shorter.              *)
LEMMA QuickerEnds ==
  ASSUME NEW n \in Nat \ {0}, NEW p \in Nat, NEW q \in Nat \ {0}, NEW d \in Nat, NEW e \in Nat \ {0},
         q < p, e < d
  PROVE  (n * d + p) * (q * e) < (n * e + q) * (p * d)
<1>1. (n * d + p) * (q * e) = ((n * d) * e) * q + (p * q) * e
  OBVIOUS
<1>2. (n * e + q) * (p * d) = ((n * d) * e) * p + (p * q) * d
  OBVIOUS
<1>3. n * d \in Nat /\ n * d > 0
  <2>1. d > 0 /\ n > 0
    OBVIOUS
  <2>2. 0 * d < n * d
    BY <2>1, TimesLess
  <2> QED BY <2>2
<1>4. (n * d) * e \in Nat /\ (n * d) * e > 0
  <2>1. 0 * e < (n * d) * e
    BY <1>3, TimesLess
  <2> QED BY <1>3, <2>1
<1>5. q * ((n * d) * e) < p * ((n * d) * e)
  BY <1>4, TimesLess
<1>6. p * q \in Nat
  OBVIOUS
<1>7. e * (p * q) <= d * (p * q)
  BY <1>6, TimesLess
<1>8. /\ ((n * d) * e) * q = q * ((n * d) * e) /\ ((n * d) * e) * p = p * ((n * d) * e)
      /\ (p * q) * e = e * (p * q) /\ (p * q) * d = d * (p * q)
  BY <1>4, <1>6
<1>9. /\ q * ((n * d) * e) \in Nat /\ p * ((n * d) * e) \in Nat
      /\ e * (p * q) \in Nat /\ d * (p * q) \in Nat
  BY <1>4, <1>6
<1>10. ASSUME NEW u \in Nat, NEW v \in Nat, NEW w \in Nat, NEW z \in Nat, u < v, w <= z PROVE u + w < v + z
  BY <1>10
<1> QED
  BY <1>1, <1>2, <1>5, <1>7, <1>8, <1>9, <1>10

(* The inductive invariant of the clocks: an average lies between the      *)
(* slowest and the fastest sample since the last long silence.             *)
Averaged(s) ==
  /\ s \in [n : Nat, v : Nat, age : Nat, lo : Nat, hi : Nat]
  /\ s.n = 0 => s.v = 0
  /\ s.n > 0 => s.lo > 0 /\ s.lo * Scale <= s.v /\ s.v <= s.hi * Scale

Clock(byModel) ==
  /\ IsFiniteSet(DOMAIN byModel) /\ DOMAIN byModel \subseteq Models /\ Cardinality(DOMAIN byModel) <= MapCap
  /\ \A m \in DOMAIN byModel : Averaged(byModel[m])

SpeedInv == Clock(decode) /\ Clock(prefill) /\ \A m \in DOMAIN prefill : prefill[m].n > 0

\* One more sample keeps an average between its bounds.
LEMMA Observed ==
  ASSUME NEW s, Averaged(s), NEW rate \in Nat
  PROVE  Averaged(observe(s, rate)) /\ (rate # Noise => observe(s, rate).n > 0)
<1>1. s.n \in Nat /\ s.v \in Nat /\ s.age \in Nat /\ s.lo \in Nat /\ s.hi \in Nat
  BY DEF Averaged
<1>2. CASE rate = Noise
  BY <1>2 DEF observe
<1>3. CASE rate # Noise
  <2> DEFINE v == IF Seeds(s) THEN rate * Scale ELSE (rate * Scale + 3 * s.v) \div 4
             lo == IF Silent(s) \/ rate < s.lo THEN rate ELSE s.lo
             hi == IF Silent(s) \/ rate > s.hi THEN rate ELSE s.hi
  <2>1. observe(s, rate) = [n |-> s.n + 1, age |-> 0, v |-> v, lo |-> lo, hi |-> hi]
    BY <1>3 DEF observe
  <2>2. rate > 0
    BY <1>3 DEF Noise
  <2>3. v \in Nat /\ lo \in Nat /\ hi \in Nat /\ lo > 0 /\ lo * Scale <= v /\ v <= hi * Scale
    <3>1. CASE Seeds(s)
      <4>1. v = rate * Scale /\ lo = rate /\ hi = rate
        BY <3>1 DEF Seeds, Silent
      <4> HIDE DEF v, lo, hi
      <4> QED BY <2>2, <4>1 DEF Scale
    <3>2. CASE ~Seeds(s)
      <4>1. ~Silent(s)
        BY <3>2 DEF Seeds, Silent
      <4>2. s.lo > 0 /\ s.lo * Scale <= s.v /\ s.v <= s.hi * Scale
        BY <1>1, <3>2 DEF Seeds, Averaged
      <4>3. v = (rate * 64 + 3 * s.v) \div 4
        BY <3>2 DEF Scale
      <4>4. lo \in Nat /\ hi \in Nat /\ lo > 0 /\ lo <= rate /\ lo <= s.lo /\ rate <= hi /\ s.hi <= hi
        BY <1>1, <2>2, <4>1, <4>2
      <4> HIDE DEF v, lo, hi
      <4> QED BY <1>1, <4>2, <4>3, <4>4 DEF Scale
    <3> QED BY <3>1, <3>2
  <2> HIDE DEF v, lo, hi
  <2> QED BY <1>1, <2>1, <2>3 DEF Averaged
<1> QED
  BY <1>2, <1>3

\* A sample is folded in where there is room.
LEMMA Folded ==
  ASSUME NEW byModel, Clock(byModel), NEW m \in Models, NEW rate \in Nat, Room(byModel, m)
  PROVE  /\ Clock(Fold(byModel, m, rate))
         /\ rate # Noise => Fold(byModel, m, rate)[m].n > 0
         /\ DOMAIN Fold(byModel, m, rate) = (DOMAIN byModel) \cup {m}
         /\ \A k \in DOMAIN byModel : k # m => Fold(byModel, m, rate)[k] = byModel[k]
<1> DEFINE D == (DOMAIN byModel) \cup {m}
           f == Fold(byModel, m, rate)
<1>1. DOMAIN f = D /\ \A k \in D : f[k] = IF k = m THEN observe(Sample(byModel, m), rate) ELSE byModel[k]
  BY DEF Fold
<1>2. Averaged(Sample(byModel, m))
  <2>1. Averaged(Fresh)
    BY DEF Averaged, Fresh
  <2> QED BY <2>1 DEF Sample, Clock
<1>3. Averaged(observe(Sample(byModel, m), rate)) /\ (rate # Noise => observe(Sample(byModel, m), rate).n > 0)
  BY <1>2, Observed
<1>4. IsFiniteSet(D) /\ Cardinality(D) <= MapCap /\ D \subseteq Models
  <2>1. IsFiniteSet(DOMAIN byModel)
    BY DEF Clock
  <2>2. /\ IsFiniteSet(D)
        /\ Cardinality(D) = IF m \in DOMAIN byModel THEN Cardinality(DOMAIN byModel) ELSE Cardinality(DOMAIN byModel) + 1
    BY <2>1, FS_AddElement
  <2>3. Cardinality(DOMAIN byModel) \in Nat
    BY <2>1, FS_CardinalityType
  <2>4. Cardinality(DOMAIN byModel) <= MapCap /\ DOMAIN byModel \subseteq Models /\ MapCap \in Nat
    BY SteeringAssumption DEF Clock
  <2> HIDE DEF D
  <2>5. Cardinality(D) <= MapCap
    BY <2>2, <2>3, <2>4 DEF Room
  <2> QED BY <2>2, <2>4, <2>5 DEF D
<1> HIDE DEF f
<1>5. Clock(f)
  BY <1>1, <1>3, <1>4 DEF Clock
<1> QED
  BY <1>1, <1>3, <1>5 DEF f

\* Age is no matter.
LEMMA OlderClock ==
  ASSUME NEW byModel, Clock(byModel)
  PROVE  /\ Clock(Older(byModel)) /\ DOMAIN Older(byModel) = DOMAIN byModel
         /\ \A m \in DOMAIN byModel : Older(byModel)[m].n = byModel[m].n
<1>1. DOMAIN Older(byModel) = DOMAIN byModel
  BY DEF Older
<1>2. ASSUME NEW m \in DOMAIN byModel
      PROVE  Averaged(Older(byModel)[m]) /\ Older(byModel)[m].n = byModel[m].n
  <2>1. Averaged(byModel[m])
    BY DEF Clock
  <2> DEFINE s == byModel[m]
             a == IF s.age > StaleAfter THEN s.age ELSE s.age + 1
  <2>2. Older(byModel)[m] = [s EXCEPT !.age = a]
    BY DEF Older
  <2>3. a \in Nat
    BY <2>1 DEF Averaged
  <2> HIDE DEF s, a
  <2>4. s \in [n : Nat, v : Nat, age : Nat, lo : Nat, hi : Nat]
    BY <2>1 DEF Averaged, s
  <2>5. /\ [s EXCEPT !.age = a] \in [n : Nat, v : Nat, age : Nat, lo : Nat, hi : Nat]
        /\ [s EXCEPT !.age = a].n = s.n /\ [s EXCEPT !.age = a].v = s.v
        /\ [s EXCEPT !.age = a].lo = s.lo /\ [s EXCEPT !.age = a].hi = s.hi
    BY <2>3, <2>4
  <2>6. Averaged(s)
    BY <2>1 DEF s
  <2> QED BY <2>2, <2>5, <2>6 DEF Averaged, s
<1> QED
  BY <1>1, <1>2 DEF Clock

LEMMA EmptyClock ==
  Clock(<<>>) /\ DOMAIN <<>> = {}
<1>1. DOMAIN <<>> = {}
  OBVIOUS
<1>2. IsFiniteSet({}) /\ Cardinality({}) = 0
  BY FS_EmptySet
<1> QED
  BY <1>1, <1>2, SteeringAssumption DEF Clock

LEMMA SpeedInvStep ==
  ASSUME SpeedInv, [SpeedNext]_speedVars
  PROVE  SpeedInv'
<1>1. CASE UNCHANGED speedVars
  BY <1>1 DEF speedVars, SpeedInv, Clock
<1>2. ASSUME NEW m \in Models, recordSuccess(m) PROVE SpeedInv'
  <2>1. \A rate \in Rates \cup {Noise} : rate \in Nat
    BY SteeringAssumption DEF Noise
  <2>2. Clock(decode')
    <3>1. CASE UNCHANGED decode
      BY <3>1 DEF SpeedInv
    <3>2. ASSUME NEW rate \in Rates \cup {Noise}, ObserveSpeed(m, rate) PROVE Clock(decode')
      <4>1. CASE Room(decode, m)
        <5>1. decode' = Fold(decode, m, rate)
          BY <3>2, <4>1 DEF ObserveSpeed
        <5>2. Clock(Fold(decode, m, rate))
          BY <2>1, <4>1, Folded DEF SpeedInv
        <5> QED BY <5>1, <5>2
      <4>2. CASE ~Room(decode, m)
        BY <3>2, <4>2 DEF ObserveSpeed, SpeedInv
      <4> QED BY <4>1, <4>2
    <3> QED BY <1>2, <3>1, <3>2 DEF recordSuccess
  <2>3. Clock(prefill') /\ \A k \in DOMAIN prefill' : prefill'[k].n > 0
    <3>1. CASE UNCHANGED prefill
      BY <3>1 DEF SpeedInv
    <3>2. ASSUME NEW rate \in Rates \cup {Noise}, ObservePrefill(m, rate)
          PROVE  Clock(prefill') /\ \A k \in DOMAIN prefill' : prefill'[k].n > 0
      <4>1. CASE rate # Noise /\ Room(prefill, m)
        <5>1. prefill' = Fold(prefill, m, rate)
          BY <3>2, <4>1 DEF ObservePrefill
        <5>2. /\ Clock(Fold(prefill, m, rate))
              /\ Fold(prefill, m, rate)[m].n > 0
              /\ DOMAIN Fold(prefill, m, rate) = (DOMAIN prefill) \cup {m}
              /\ \A k \in DOMAIN prefill : k # m => Fold(prefill, m, rate)[k] = prefill[k]
          BY <2>1, <4>1, Folded DEF SpeedInv
        <5> QED BY <5>1, <5>2 DEF SpeedInv
      <4>2. CASE ~(rate # Noise /\ Room(prefill, m))
        BY <3>2, <4>2 DEF ObservePrefill, SpeedInv
      <4> QED BY <4>1, <4>2
    <3> QED BY <1>2, <3>1, <3>2 DEF recordSuccess
  <2>4. SpeedInv' = (Clock(decode)' /\ Clock(prefill)' /\ \A k \in DOMAIN prefill' : prefill'[k].n > 0)
    BY DEF SpeedInv
  <2> QED BY <2>2, <2>3 DEF SpeedInv, Clock
<1>3. CASE Tick
  <2>1. decode' = Older(decode) /\ prefill' = Older(prefill)
    BY <1>3 DEF Tick
  <2>2. /\ Clock(Older(decode)) /\ Clock(Older(prefill)) /\ DOMAIN Older(prefill) = DOMAIN prefill
        /\ \A m \in DOMAIN prefill : Older(prefill)[m].n > 0
    BY OlderClock DEF SpeedInv
  <2>3. Clock(decode') /\ Clock(prefill') /\ \A m \in DOMAIN prefill' : prefill'[m].n > 0
    BY <2>1, <2>2
  <2> QED BY <2>3 DEF SpeedInv, Clock
<1>4. CASE Renewed
  <2>1. Clock(decode') /\ Clock(prefill') /\ \A m \in DOMAIN prefill' : prefill'[m].n > 0
    BY <1>4, EmptyClock DEF Renewed
  <2> QED BY <2>1 DEF SpeedInv, Clock
<1> QED
  BY <1>1, <1>2, <1>3, <1>4 DEF SpeedNext

\* What the clocks show of a leg.
LEMMA Shown ==
  ASSUME SpeedInv, NEW i \in LegIndices
  PROVE  /\ ModelTPS(i) \in Nat /\ ModelPrefillTPS(i) \in Nat /\ ModelPrefillSamples(i) \in Nat
         /\ Averaged(Sample(decode, Legs[i])) /\ Averaged(Sample(prefill, Legs[i]))
         /\ ModelPrefillSamples(i) > 0 <=> ModelPrefillTPS(i) > 0
<1>1. Averaged(Fresh)
  BY DEF Averaged, Fresh
<1>2. Averaged(Sample(decode, Legs[i])) /\ Averaged(Sample(prefill, Legs[i]))
  BY <1>1 DEF SpeedInv, Clock, Sample
<1>3. \A s : Averaged(s) => s.v \in Nat /\ s.n \in Nat /\ (s.n > 0 <=> s.v > 0)
  BY DEF Averaged, Scale
<1> QED
  BY <1>2, <1>3 DEF ModelTPS, ModelPrefillTPS, ModelPrefillSamples

\* A predicted time is a fraction.
LEMMA Fraction ==
  ASSUME SpeedInv, NEW i \in LegIndices, ModelPrefillTPS(i) > 0
  PROVE  PredictSeconds(i).num \in Nat /\ PredictSeconds(i).den \in Nat \ {0}
<1> DEFINE p == ModelPrefillTPS(i)
           d == ModelTPS(i)
<1>1. p \in Nat \ {0} /\ d \in Nat /\ LargeInput \in Nat
  BY Shown, SteeringAssumption
<1>2. CASE d > 0
  <2>1. PredictSeconds(i).num = LargeInput * d + p /\ PredictSeconds(i).den = p * d
    BY <1>2 DEF PredictSeconds
  <2> HIDE DEF p, d
  <2>2. 0 * d < p * d
    BY <1>1, <1>2, TimesLess
  <2> QED BY <1>1, <2>1, <2>2
<1>3. CASE ~(d > 0)
  BY <1>1, <1>3 DEF PredictSeconds
<1> QED
  BY <1>2, <1>3

\* The legs that are better, in the regime a request gets.
Betters(large) == {p \in LegIndices \X LegIndices : Better(large, p[1], p[2])}

LEMMA BetterRanks ==
  ASSUME SpeedInv, NEW large \in BOOLEAN
  PROVE  Ranks(Len(Legs), Betters(large))
<1> USE DEF LegIndices
<1>1. LegIndices = 1 .. Len(Legs) /\ Len(Legs) \in Nat
  BY SteeringAssumption
<1>2. \A i, j \in LegIndices : <<i, j>> \in Betters(large) <=> Better(large, i, j)
  BY DEF Betters
<1>3. CASE ~ByPrefill(large)
  <2>1. \A i, j \in LegIndices : Better(large, i, j) <=> ModelTPS(i) > ModelTPS(j)
    BY <1>3 DEF Better
  <2>2. \A i \in LegIndices : ModelTPS(i) \in Nat
    BY Shown
  <2> QED BY <1>1, <1>2, <2>1, <2>2 DEF Ranks
<1>4. CASE ByPrefill(large)
  <2>1. \A i, j \in LegIndices : Better(large, i, j) <=> Predicted(i, j)
    BY <1>4 DEF Better
  <2>2. \A i \in LegIndices : ModelPrefillTPS(i) \in Nat
    BY Shown
  <2> DEFINE num(i) == PredictSeconds(i).num
             den(i) == PredictSeconds(i).den
  <2>3. \A i \in LegIndices : ModelPrefillTPS(i) > 0 => num(i) \in Nat /\ den(i) \in Nat \ {0}
    BY Fraction
  <2>4. \A i, j \in LegIndices :
          Predicted(i, j) <=> /\ ModelPrefillTPS(i) > 0
                              /\ ModelPrefillTPS(j) = 0 \/ num(i) * den(j) < num(j) * den(i)
    BY DEF Predicted
  <2> HIDE DEF num, den
  <2>5. ASSUME NEW i \in LegIndices, NEW j \in LegIndices, Predicted(i, j) PROVE ~Predicted(j, i)
    <3>1. CASE ModelPrefillTPS(j) = 0
      BY <2>4, <3>1
    <3>2. CASE ModelPrefillTPS(j) # 0
      <4>1. ModelPrefillTPS(i) > 0 /\ ModelPrefillTPS(j) > 0 /\ num(i) * den(j) < num(j) * den(i)
        BY <2>2, <2>4, <2>5, <3>2
      <4>2. num(i) * den(j) \in Nat /\ num(j) * den(i) \in Nat
        BY <2>3, <4>1
      <4>3. ~(num(j) * den(i) < num(i) * den(j))
        BY <4>1, <4>2
      <4> QED BY <2>4, <3>2, <4>1, <4>3
    <3> QED BY <3>1, <3>2
  <2>6. ASSUME NEW i \in LegIndices, NEW j \in LegIndices, NEW k \in LegIndices,
               Predicted(i, k), ~Predicted(i, j), ~Predicted(j, k)
        PROVE  FALSE
    <3>1. ModelPrefillTPS(i) > 0 /\ ModelPrefillTPS(j) > 0 /\ ModelPrefillTPS(k) > 0
      BY <2>2, <2>4, <2>6
    <3>2. /\ num(i) \in Nat /\ num(j) \in Nat /\ num(k) \in Nat
          /\ den(i) \in Nat \ {0} /\ den(j) \in Nat \ {0} /\ den(k) \in Nat \ {0}
      BY <2>3, <3>1
    <3>3. /\ num(i) * den(j) \in Nat /\ num(j) * den(i) \in Nat /\ num(i) * den(k) \in Nat
          /\ num(k) * den(i) \in Nat /\ num(j) * den(k) \in Nat /\ num(k) * den(j) \in Nat
      BY <3>2
    <3>4. ~(num(i) * den(j) < num(j) * den(i)) /\ ~(num(j) * den(k) < num(k) * den(j))
      BY <2>4, <2>6, <3>1
    <3>5. num(k) * den(j) <= num(j) * den(k) /\ num(j) * den(i) <= num(i) * den(j)
      BY <3>3, <3>4
    <3>6. num(k) * den(i) <= num(i) * den(k)
      BY <3>2, <3>5, FractionsOrdered
    <3>7. num(i) * den(k) < num(k) * den(i)
      <4>1. ModelPrefillTPS(k) # 0
        BY <2>2, <3>1
      <4> QED BY <2>4, <2>6, <4>1
    <3> QED BY <3>3, <3>6, <3>7
  <2>7. \A i, j \in LegIndices : <<i, j>> \in Betters(large) <=> Predicted(i, j)
    BY <1>2, <2>1
  <2>8. \A i, j \in LegIndices : <<i, j>> \in Betters(large) => <<j, i>> \notin Betters(large)
    BY <2>5, <2>7
  <2>9. \A i, j, k \in LegIndices :
          <<i, k>> \in Betters(large) => <<i, j>> \in Betters(large) \/ <<j, k>> \in Betters(large)
    BY <2>6, <2>7
  <2> QED BY <1>1, <2>8, <2>9 DEF Ranks
<1> QED
  BY <1>3, <1>4

\* The order reorderBySpeed gives.
LEMMA SpeedPlaces ==
  ASSUME SpeedInv, NEW strategy, NEW large \in BOOLEAN
  PROVE  /\ {Place(strategy, large, i) : i \in LegIndices} = LegIndices
         /\ \A i, j \in LegIndices :
              Ahead(strategy, large, i, j) <=>
                IF Stands(strategy, large) THEN i < j
                ELSE i # j /\ (Better(large, i, j) \/ (i < j /\ ~Better(large, j, i)))
<1>1. LegIndices = 1 .. Len(Legs) /\ Len(Legs) \in Nat
  BY SteeringAssumption DEF LegIndices
<1>2. CASE Stands(strategy, large)
  <2>1. \A i \in LegIndices : Place(strategy, large, i) = i
    BY <1>2 DEF Place
  <2> QED BY <1>2, <2>1 DEF Ahead
<1>3. CASE ~Stands(strategy, large)
  <2> DEFINE n == Len(Legs)
             better == Betters(large)
             rank == [i \in 1 .. n |-> Place(strategy, large, i)]
  <2>1. \A i, j \in 1 .. n : <<i, j>> \in better <=> Better(large, i, j)
    BY <1>1 DEF Betters
  <2>2. Ranks(n, better)
    BY BetterRanks
  <2>3. \A i \in 1 .. n : rank[i] = 1 + Cardinality(Before(n, better, i))
    <3> SUFFICES ASSUME NEW i \in 1 .. n
                 PROVE  rank[i] = 1 + Cardinality(Before(n, better, i))
      OBVIOUS
    <3>1. rank[i] = 1 + Cardinality({j \in LegIndices \ {i} :
                           Better(large, j, i) \/ (j < i /\ ~Better(large, i, j))})
      BY <1>3 DEF Place
    <3> HIDE DEF better, rank
    <3>2. {j \in LegIndices \ {i} : Better(large, j, i) \/ (j < i /\ ~Better(large, i, j))}
            = Before(n, better, i)
      BY <1>1, <2>1 DEF Before
    <3> QED BY <3>1, <3>2
  <2>4. \A i \in 1 .. n : rank[i] = Place(strategy, large, i)
    OBVIOUS
  <2>5. n \in Nat
    BY <1>1
  <2> HIDE DEF better, rank, n
  <2>6. /\ {rank[i] : i \in 1 .. n} = 1 .. n
        /\ \A i, j \in 1 .. n :
             rank[i] < rank[j] <=> i # j /\ (<<i, j>> \in better \/ (i < j /\ <<j, i>> \notin better))
    BY <2>2, <2>3, <2>5, SortPlaces
  <2>7. LegIndices = 1 .. n
    BY <1>1 DEF n
  <2>8. {Place(strategy, large, i) : i \in LegIndices} = LegIndices
    BY <2>4, <2>6, <2>7
  <2>9. ASSUME NEW i \in LegIndices, NEW j \in LegIndices
        PROVE  Ahead(strategy, large, i, j) <=>
                 i # j /\ (Better(large, i, j) \/ (i < j /\ ~Better(large, j, i)))
    <3>1. Ahead(strategy, large, i, j) <=> rank[i] < rank[j]
      BY <2>4, <2>7 DEF Ahead
    <3> QED BY <2>1, <2>6, <2>7, <3>1
  <2> QED BY <1>3, <2>8, <2>9
<1> QED
  BY <1>2, <1>3

\* A quicker leg, by its samples, has the higher average.
LEMMA OutranFaster ==
  ASSUME NEW s, NEW u, Averaged(s), Averaged(u), s.n > 0, u.n > 0, s.lo > u.hi
  PROVE  s.v > u.v /\ u.v > 0
BY DEF Averaged, Scale

LEMMA FasterFirst ==
  ASSUME SpeedInv
  PROVE  FasterLeads
<1> SUFFICES ASSUME NEW i \in LegIndices, NEW j \in LegIndices
             PROVE  /\ Outran(decode, i, j) => Ahead("fastest", FALSE, i, j)
                    /\ ByPrefill(TRUE) /\ Outran(prefill, i, j) /\ Outran(decode, i, j)
                         => Ahead("fastest", TRUE, i, j) /\ Ahead("size-aware", TRUE, i, j)
  BY DEF FasterLeads
<1> DEFINE p == ModelPrefillTPS(i)
           q == ModelPrefillTPS(j)
           d == ModelTPS(i)
           e == ModelTPS(j)
<1>1. p \in Nat /\ q \in Nat /\ d \in Nat /\ e \in Nat
  BY Shown
<1>2. Outran(decode, i, j) => d > e /\ e > 0
  BY Shown, OutranFaster DEF Outran, ModelTPS
<1>3. Outran(prefill, i, j) => p > q /\ q > 0
  BY Shown, OutranFaster DEF Outran, ModelPrefillTPS
<1>4. ASSUME Outran(decode, i, j) PROVE Ahead("fastest", FALSE, i, j)
  <2>1. ~ByPrefill(FALSE) /\ ~Stands("fastest", FALSE)
    BY DEF ByPrefill, Stands
  <2>2. Better(FALSE, i, j)
    BY <1>2, <1>4, <2>1 DEF Better
  <2>3. i # j
    BY <1>1, <1>2, <1>4
  <2> QED BY <2>1, <2>2, <2>3, SpeedPlaces
<1>5. ASSUME ByPrefill(TRUE), Outran(prefill, i, j), Outran(decode, i, j)
      PROVE  Ahead("fastest", TRUE, i, j) /\ Ahead("size-aware", TRUE, i, j)
  <2>1. ~Stands("fastest", TRUE) /\ ~Stands("size-aware", TRUE)
    BY <1>5 DEF Stands
  <2>2. p > q /\ q > 0 /\ d > e /\ e > 0
    BY <1>2, <1>3, <1>5
  <2>3. /\ PredictSeconds(i).num = LargeInput * d + p /\ PredictSeconds(i).den = p * d
        /\ PredictSeconds(j).num = LargeInput * e + q /\ PredictSeconds(j).den = q * e
    <3>1. d > 0
      BY <1>1, <2>2
    <3> QED BY <2>2, <3>1 DEF PredictSeconds
  <2>4. (LargeInput * d + p) * (q * e) < (LargeInput * e + q) * (p * d)
    <3> HIDE DEF p, q, d, e
    <3>1. LargeInput \in Nat \ {0}
      BY SteeringAssumption
    <3>2. q \in Nat \ {0} /\ e \in Nat \ {0}
      BY <1>1, <2>2
    <3> QED BY <1>1, <2>2, <3>1, <3>2, QuickerEnds
  <2>5. p > 0
    BY <1>1, <2>2
  <2>6. Predicted(i, j)
    BY <2>3, <2>4, <2>5 DEF Predicted
  <2>7. Better(TRUE, i, j)
    BY <1>5, <2>6 DEF Better
  <2>8. i # j
    BY <1>1, <2>2
  <2> QED BY <2>1, <2>7, <2>8, SpeedPlaces
<1> QED
  BY <1>4, <1>5

LEMMA UnmeasuredLast ==
  ASSUME SpeedInv
  PROVE  UnmeasuredStaysBack
<1> SUFFICES ASSUME NEW strategy \in Strategies, NEW large \in BOOLEAN,
                    NEW i \in LegIndices, NEW j \in LegIndices, j < i, ~Measured(large, i)
             PROVE  Ahead(strategy, large, j, i)
  BY DEF UnmeasuredStaysBack
<1>1. ~Better(large, i, j)
  <2>1. ModelTPS(i) \in Nat /\ ModelTPS(j) \in Nat
    BY Shown
  <2> QED BY <2>1 DEF Better, Measured, Predicted
<1>2. i # j
  BY SteeringAssumption DEF LegIndices
<1> QED
  BY <1>1, <1>2, SpeedPlaces

LEMMA SmallStands ==
  ASSUME SpeedInv
  PROVE  SmallKeepsOrder
<1> SUFFICES ASSUME NEW large \in BOOLEAN, NEW i \in LegIndices, NEW j \in LegIndices, i < j,
                    ~large \/ \A k \in LegIndices : ModelPrefillSamples(k) < MinSamples
             PROVE  Ahead("size-aware", large, i, j)
  BY DEF SmallKeepsOrder
<1>1. \A k \in LegIndices : ModelPrefillSamples(k) \in Nat
  BY Shown
<1>2. ~ByPrefill(large)
  BY <1>1, SteeringAssumption DEF ByPrefill
<1>3. Stands("size-aware", large)
  BY <1>2 DEF Stands
<1> QED
  BY <1>3, SpeedPlaces

(* What the measurements may do to the order of a combo.                   *)
LEMMA SpeedInvSteers ==
  ASSUME SpeedInv
  PROVE  SpeedSteers
<1>1. SpeedTypeOK
  BY DEF SpeedTypeOK, SpeedInv, Clock
<1>2. ChainWhole
  BY SpeedPlaces DEF ChainWhole
<1> QED
  BY <1>1, <1>2, FasterFirst, UnmeasuredLast, SmallStands DEF SpeedSteers

THEOREM MeasuresSteer == SpeedSpec => []SpeedSteers
<1>1. SpeedInit => SpeedInv
  BY EmptyClock DEF SpeedInit, SpeedInv
<1> QED
  BY <1>1, SpeedInvStep, SpeedInvSteers, PTL DEF SpeedSpec

(* The order by difficulty.  A conversation only grows, and its class      *)
(* falls from nothing that is hard.                                        *)
LEMMA ClassGrows ==
  ASSUME NEW k \in Kits, NEW n \in Nat, NEW m \in Nat, NEW t \in Nat, NEW u \in Nat, NEW kw, NEW kw2,
         n <= m, t <= u, kw \subseteq kw2, Classify(k, n, t, kw) >= Heavy
  PROVE  Classify(k, m, u, kw2) >= Classify(k, n, t, kw)
<1>1. IsCritical(k, n, kw) => IsCritical(k, m, kw2)
  BY TaskAssumption DEF IsCritical
<1>2. IsHeavy(k, n, t, kw) => IsHeavy(k, m, u, kw2)
  <2>1. HeavySignals(k, n, t, kw) \subseteq HeavySignals(k, m, u, kw2)
    BY DEF HeavySignals
  <2>2. IsFiniteSet(1 .. 8)
    <3>1. 1 \in Int /\ 8 \in Int
      OBVIOUS
    <3> QED BY <3>1, FS_Interval, Zenon
  <2>3. HeavySignals(k, m, u, kw2) \subseteq 1 .. 8
    BY DEF HeavySignals
  <2>4. IsFiniteSet(HeavySignals(k, m, u, kw2))
    BY <2>2, <2>3, FS_Subset
  <2>5. /\ Cardinality(HeavySignals(k, n, t, kw)) <= Cardinality(HeavySignals(k, m, u, kw2))
        /\ IsFiniteSet(HeavySignals(k, n, t, kw))
    BY <2>1, <2>4, FS_Subset
  <2>6. Cardinality(HeavySignals(k, n, t, kw)) \in Nat /\ Cardinality(HeavySignals(k, m, u, kw2)) \in Nat
    BY <2>4, <2>5, FS_CardinalityType
  <2> QED BY <2>5, <2>6 DEF IsHeavy
<1> QED
  BY <1>1, <1>2 DEF Classify, Light, Standard, Heavy, Critical

LEMMA ClassType ==
  ASSUME NEW k, NEW n, NEW t, NEW kw
  PROVE  Classify(k, n, t, kw) \in Light .. Critical
BY DEF Classify, Light, Standard, Heavy, Critical

\* What a leg loses by its power alone.
Off(p, c) == Abs(p - taskTargetPower[c]) + Misfit(p, c)

LEMMA OffEach ==
  ASSUME NEW p \in 0 .. 150
  PROVE  /\ Off(p, Light) = (IF p < 35 THEN 35 - p ELSE p - 35) + (IF p > 95 THEN 35 ELSE 0)
         /\ Off(p, Standard) = (IF p < 65 THEN 65 - p ELSE p - 65) + (IF p > 125 THEN 10 ELSE 0)
         /\ Off(p, Heavy) = (IF p < 95 THEN 95 - p ELSE p - 95) + (IF p < 65 THEN 60 ELSE 0)
         /\ Off(p, Critical) = (IF p < 120 THEN 120 - p ELSE p - 120) + (IF p < 85 THEN 100 ELSE 0)
<1> USE DEF Light, Standard, Heavy, Critical
<1>1. /\ taskTargetPower[1] = 35 /\ taskTargetPower[2] = 65
      /\ taskTargetPower[3] = 95 /\ taskTargetPower[4] = 120
  BY DEF taskTargetPower
<1>2. /\ Misfit(p, 1) = IF p > 95 THEN 35 ELSE 0
      /\ Misfit(p, 2) = IF p > 125 THEN 10 ELSE 0
      /\ Misfit(p, 3) = IF p < 65 THEN 60 ELSE 0
      /\ Misfit(p, 4) = IF p < 85 THEN 100 ELSE 0
  BY DEF Misfit
<1> QED
  BY <1>1, <1>2 DEF Off, Abs

LEMMA OffBounds ==
  ASSUME NEW p \in 0 .. 150, NEW c \in Light .. Critical
  PROVE  Off(p, c) \in 0 .. 220 /\ (p > 20 => Off(p, c) < 200)
<1>1. c = Light \/ c = Standard \/ c = Heavy \/ c = Critical
  BY DEF Light, Standard, Heavy, Critical
<1> QED
  BY <1>1, OffEach

\* Of two legs, the weaker one may lead a harder class only where it led
\* the easier one.
LEMMA OffCrosses ==
  ASSUME NEW a \in 0 .. 150, NEW b \in 0 .. 150, NEW c \in Light .. Critical, NEW d \in Light .. Critical,
         c < d, Off(a, c) <= Off(b, c), Off(b, d) <= Off(a, d)
  PROVE  b >= a
<1> SUFFICES ASSUME b < a PROVE FALSE
  OBVIOUS
<1>1. \/ c = Light /\ d = Standard
      \/ c = Light /\ d = Heavy
      \/ c = Light /\ d = Critical
      \/ c = Standard /\ d = Heavy
      \/ c = Standard /\ d = Critical
      \/ c = Heavy /\ d = Critical
  <2>1. c \in 1 .. 4 /\ d \in 1 .. 4 /\ c < d
    BY DEF Light, Critical
  <2> QED BY <2>1 DEF Light, Standard, Heavy, Critical
<1>2. CASE c = Light /\ d = Standard
  BY <1>2, OffEach
<1>3. CASE c = Light /\ d = Heavy
  BY <1>3, OffEach
<1>4. CASE c = Light /\ d = Critical
  BY <1>4, OffEach
<1>5. CASE c = Standard /\ d = Heavy
  BY <1>5, OffEach
<1>6. CASE c = Standard /\ d = Critical
  BY <1>6, OffEach
<1>7. CASE c = Heavy /\ d = Critical
  BY <1>7, OffEach
<1> QED
  BY <1>1, <1>2, <1>3, <1>4, <1>5, <1>6, <1>7

\* What it loses by the hard misses.
LEMMA PenaltyBounds ==
  ASSUME NEW leg, NEW c, NEW k, NEW n, NEW pic
  PROVE  /\ Penalty(leg, c, k, n, pic) \in Nat
         /\ Blind(leg, pic) => Penalty(leg, c, k, n, pic) >= 10000
         /\ ~Blind(leg, pic) => Penalty(leg, c, k, n, pic) <= 400
         /\ Overflowed(leg, n) => Penalty(leg, c, k, n, pic) >= 200
         /\ ~Blind(leg, pic) /\ ~Unreasoning(leg, c) /\ ~Overflowed(leg, n) /\ ~TooShort(leg, k)
              => Penalty(leg, c, k, n, pic) = 0
BY DEF Penalty

LEMMA Scored ==
  ASSUME NEW L \in Combos, NEW i \in DOMAIN L, NEW c \in Light .. Critical, NEW k, NEW n, NEW pic
  PROVE  /\ Power(L[i]) \in 0 .. 150
         /\ scoreTarget(L[i], c, k, n, pic) = 100 - Off(Power(L[i]), c) - Penalty(L[i], c, k, n, pic)
         /\ scoreTarget(L[i], c, k, n, pic) \in Int
<1>1. Power(L[i]) \in 0 .. 150
  BY TaskAssumption DEF Power, undeclaredPower
<1>2. Off(Power(L[i]), c) \in Nat
  <2>1. Off(Power(L[i]), c) \in 0 .. 220
    BY <1>1, OffBounds, Zenon
  <2> QED BY <2>1
<1>3. Penalty(L[i], c, k, n, pic) \in Nat
  BY PenaltyBounds
<1>4. Abs(Power(L[i]) - taskTargetPower[c]) \in Nat /\ Misfit(Power(L[i]), c) \in Nat
  <2>1. c \in 1 .. 4
    BY DEF Light, Critical
  <2>2. taskTargetPower[c] \in Nat
    BY <2>1 DEF taskTargetPower
  <2>3. Misfit(Power(L[i]), c) \in Nat
    BY <1>1 DEF Misfit
  <2> QED BY <1>1, <2>2, <2>3 DEF Abs
<1> QED
  BY <1>1, <1>2, <1>3, <1>4 DEF scoreTarget, Off

\* The order reorderByTask gives.
LEMMA TaskPlaces ==
  ASSUME NEW n \in Nat, n > 0, NEW sc, \A i \in 1 .. n : sc[i] \in Int, NEW rank,
         \A i \in 1 .. n : rank[i] =
           1 + Cardinality({j \in (1 .. n) \ {i} : sc[j] > sc[i] \/ (sc[j] = sc[i] /\ j < i)})
  PROVE  /\ \A i, j \in 1 .. n : sc[i] > sc[j] => rank[i] < rank[j]
         /\ \E i \in 1 .. n : rank[i] = 1
         /\ \A i \in 1 .. n : rank[i] = 1 => \A j \in 1 .. n : sc[j] <= sc[i]
<1> DEFINE better == {p \in (1 .. n) \X (1 .. n) : sc[p[1]] > sc[p[2]]}
<1>1. \A i, j \in 1 .. n : <<i, j>> \in better <=> sc[i] > sc[j]
  OBVIOUS
<1> HIDE DEF better
<1>2. Ranks(n, better)
  BY <1>1 DEF Ranks
<1>3. \A i \in 1 .. n : rank[i] = 1 + Cardinality(Before(n, better, i))
  <2> SUFFICES ASSUME NEW i \in 1 .. n
               PROVE  rank[i] = 1 + Cardinality(Before(n, better, i))
    OBVIOUS
  <2>1. {j \in (1 .. n) \ {i} : sc[j] > sc[i] \/ (sc[j] = sc[i] /\ j < i)}
          = Before(n, better, i)
    BY <1>1 DEF Before
  <2> QED BY <2>1
<1>4. /\ \A i \in 1 .. n : rank[i] \in 1 .. n
      /\ {rank[i] : i \in 1 .. n} = 1 .. n
      /\ \A i, j \in 1 .. n :
           rank[i] < rank[j] <=> i # j /\ (<<i, j>> \in better \/ (i < j /\ <<j, i>> \notin better))
  BY <1>2, <1>3, SortPlaces
<1>5. ASSUME NEW i \in 1 .. n, NEW j \in 1 .. n, sc[i] > sc[j] PROVE rank[i] < rank[j]
  <2>1. <<i, j>> \in better
    BY <1>1, <1>5
  <2>2. sc[i] \in Int
    OBVIOUS
  <2>3. i # j
    BY <1>5, <2>2
  <2> QED BY <1>4, <2>1, <2>3
<1>6. \E i \in 1 .. n : rank[i] = 1
  <2>1. 1 \in {rank[i] : i \in 1 .. n}
    BY <1>4
  <2> QED BY <2>1
<1>7. ASSUME NEW i \in 1 .. n, rank[i] = 1, NEW j \in 1 .. n PROVE sc[j] <= sc[i]
  <2> SUFFICES ASSUME sc[j] > sc[i] PROVE FALSE
    OBVIOUS
  <2>1. rank[j] < 1 /\ rank[j] \in 1 .. n
    BY <1>4, <1>5, <1>7
  <2> QED BY <2>1
<1> QED
  BY <1>5, <1>6, <1>7

\* The same for what a request asks.
Order(L, c, k, n, pic) ==
  LET s == [i \in DOMAIN L |-> scoreTarget(L[i], c, k, n, pic)]
  IN  [i \in DOMAIN L |->
         1 + Cardinality({j \in DOMAIN L \ {i} : s[j] > s[i] \/ (s[j] = s[i] /\ j < i)})]

LEMMA OrderPlaces ==
  ASSUME NEW L \in Combos, NEW c \in Light .. Critical, NEW k, NEW n, NEW pic
  PROVE  LET rank == Order(L, c, k, n, pic)
         IN  /\ \A i, j \in DOMAIN L :
                  scoreTarget(L[i], c, k, n, pic) > scoreTarget(L[j], c, k, n, pic) => rank[i] < rank[j]
             /\ \E i \in DOMAIN L : rank[i] = 1
             /\ \A i \in DOMAIN L : rank[i] = 1 =>
                  \A j \in DOMAIN L : scoreTarget(L[j], c, k, n, pic) <= scoreTarget(L[i], c, k, n, pic)
<1> DEFINE s == [i \in DOMAIN L |-> scoreTarget(L[i], c, k, n, pic)]
           rank == Order(L, c, k, n, pic)
<1>1. \A i \in DOMAIN L : s[i] = scoreTarget(L[i], c, k, n, pic) /\ s[i] \in Int
  BY Scored
<1>2. DOMAIN L = 1 .. Len(L) /\ Len(L) \in Nat /\ Len(L) > 0
  <2>1. L \in Seq({L[i] : i \in DOMAIN L}) /\ Len(L) > 1
    BY TaskAssumption
  <2> QED BY <2>1
<1>5. \A i \in DOMAIN L : rank[i] =
        1 + Cardinality({j \in DOMAIN L \ {i} : s[j] > s[i] \/ (s[j] = s[i] /\ j < i)})
  BY DEF Order
<1> DEFINE m == Len(L)
<1>6. /\ DOMAIN L = 1 .. m /\ m \in Nat /\ m > 0 /\ \A i \in 1 .. m : s[i] \in Int
      /\ \A i \in 1 .. m : rank[i] =
           1 + Cardinality({j \in (1 .. m) \ {i} : s[j] > s[i] \/ (s[j] = s[i] /\ j < i)})
  <2> HIDE DEF s, rank
  <2> QED BY <1>1, <1>2, <1>5
<1> HIDE DEF s, rank, m
<1>7. /\ \A i, j \in 1 .. m : s[i] > s[j] => rank[i] < rank[j]
      /\ \E i \in 1 .. m : rank[i] = 1
      /\ \A i \in 1 .. m : rank[i] = 1 => \A j \in 1 .. m : s[j] <= s[i]
  BY <1>6, TaskPlaces
<1>3. /\ \A i, j \in DOMAIN L : s[i] > s[j] => rank[i] < rank[j]
      /\ \E i \in DOMAIN L : rank[i] = 1
      /\ \A i \in DOMAIN L : rank[i] = 1 => \A j \in DOMAIN L : s[j] <= s[i]
  BY <1>6, <1>7
<1>4. /\ \A i, j \in DOMAIN L :
           scoreTarget(L[i], c, k, n, pic) > scoreTarget(L[j], c, k, n, pic) => rank[i] < rank[j]
      /\ \A i \in DOMAIN L : rank[i] = 1 =>
           \A j \in DOMAIN L : scoreTarget(L[j], c, k, n, pic) <= scoreTarget(L[i], c, k, n, pic)
  BY <1>1, <1>3
<1> QED
  BY <1>3, <1>4 DEF rank

\* While every leg can serve a request the leader is the one whose power
\* is off the least.
Leader(L, c, k, n, pic) == CHOOSE i \in DOMAIN L : Order(L, c, k, n, pic)[i] = 1

LEMMA LeaderOff ==
  ASSUME NEW L \in Combos, NEW c \in Light .. Critical, NEW k, NEW n, NEW pic,
         \A i \in DOMAIN L : ~Blind(L[i], pic) /\ ~Unreasoning(L[i], c) /\ ~Overflowed(L[i], n) /\ ~TooShort(L[i], k)
  PROVE  LET f == Leader(L, c, k, n, pic)
         IN  f \in DOMAIN L /\ \A j \in DOMAIN L : Off(Power(L[f]), c) <= Off(Power(L[j]), c)
<1> DEFINE f == Leader(L, c, k, n, pic)
<1>1. f \in DOMAIN L /\ Order(L, c, k, n, pic)[f] = 1
  <2>1. \E i \in DOMAIN L : Order(L, c, k, n, pic)[i] = 1
    BY OrderPlaces
  <2> QED BY <2>1 DEF Leader
<1> HIDE DEF f
<1>2. \A j \in DOMAIN L : scoreTarget(L[j], c, k, n, pic) <= scoreTarget(L[f], c, k, n, pic)
  BY <1>1, OrderPlaces
<1>3. ASSUME NEW j \in DOMAIN L
      PROVE  scoreTarget(L[j], c, k, n, pic) = 100 - Off(Power(L[j]), c) /\ Off(Power(L[j]), c) \in Nat
  <2>1. Power(L[j]) \in 0 .. 150
    BY Scored
  <2>2. Off(Power(L[j]), c) \in 0 .. 220
    BY <2>1, OffBounds, Zenon
  <2>3. Penalty(L[j], c, k, n, pic) = 0
    BY PenaltyBounds
  <2>4. scoreTarget(L[j], c, k, n, pic) = 100 - Off(Power(L[j]), c) - Penalty(L[j], c, k, n, pic)
    BY Scored
  <2> QED BY <2>2, <2>3, <2>4
<1>4. \A j \in DOMAIN L : Off(Power(L[f]), c) <= Off(Power(L[j]), c)
  BY <1>1, <1>2, <1>3
<1> QED
  BY <1>1, <1>4 DEF f

LEMMA GateScores ==
  ASSUME NEW L \in Combos, NEW i \in DOMAIN L, NEW j \in DOMAIN L,
         NEW c \in Light .. Critical, NEW k, NEW n, NEW pic,
         \/ Blind(L[i], pic) /\ ~Blind(L[j], pic)
         \/ /\ Overflowed(L[i], n) /\ Power(L[j]) > 20
            /\ ~Blind(L[j], pic) /\ ~Unreasoning(L[j], c) /\ ~Overflowed(L[j], n) /\ ~TooShort(L[j], k)
  PROVE  scoreTarget(L[j], c, k, n, pic) > scoreTarget(L[i], c, k, n, pic)
<1>1. \A m \in DOMAIN L : Power(L[m]) \in 0 .. 150
  BY Scored
<1>2. Off(Power(L[i]), c) \in 0 .. 220 /\ Off(Power(L[j]), c) \in 0 .. 220
  BY <1>1, OffBounds, Zenon
<1>3. Power(L[j]) > 20 => Off(Power(L[j]), c) < 200
  BY <1>1, OffBounds, Zenon
<1>4. \/ Penalty(L[i], c, k, n, pic) >= 10000 /\ Penalty(L[j], c, k, n, pic) <= 400
      \/ Penalty(L[i], c, k, n, pic) >= 200 /\ Penalty(L[j], c, k, n, pic) = 0 /\ Off(Power(L[j]), c) < 200
  BY <1>3, PenaltyBounds
<1>5. Penalty(L[i], c, k, n, pic) \in Nat /\ Penalty(L[j], c, k, n, pic) \in Nat
  BY PenaltyBounds
<1>6. /\ scoreTarget(L[i], c, k, n, pic) = 100 - Off(Power(L[i]), c) - Penalty(L[i], c, k, n, pic)
      /\ scoreTarget(L[j], c, k, n, pic) = 100 - Off(Power(L[j]), c) - Penalty(L[j], c, k, n, pic)
  BY Scored
<1> DEFINE oi == Off(Power(L[i]), c)
           oj == Off(Power(L[j]), c)
           pi == Penalty(L[i], c, k, n, pic)
           pj == Penalty(L[j], c, k, n, pic)
           si == scoreTarget(L[i], c, k, n, pic)
           sj == scoreTarget(L[j], c, k, n, pic)
<1>7. /\ oi \in 0 .. 220 /\ oj \in 0 .. 220 /\ pi \in Nat /\ pj \in Nat
      /\ si = 100 - oi - pi /\ sj = 100 - oj - pj
      /\ \/ pi >= 10000 /\ pj <= 400
         \/ pi >= 200 /\ pj = 0 /\ oj < 200
  BY <1>2, <1>4, <1>5, <1>6
<1> HIDE DEF oi, oj, pi, pj, si, sj
<1>8. sj > si
  BY <1>7
<1> QED
  BY <1>8 DEF si, sj

LEMMA GatesAlways ==
  ASSUME TaskTypeOK
  PROVE  GatesHold(Places)
<1>1. Class \in Light .. Critical /\ legs \in Combos
  BY ClassType DEF TaskTypeOK, Class
<1>2. \A i, j \in DOMAIN legs :
        scoreTarget(legs[i], Class, kit, chars, image) > scoreTarget(legs[j], Class, kit, chars, image)
          => Places[i] < Places[j]
  <2>1. Places = Order(legs, Class, kit, chars, image)
    BY DEF Places, Ranked, Order
  <2> QED BY <1>1, <2>1, OrderPlaces
<1>3. ASSUME NEW i \in DOMAIN legs, NEW j \in DOMAIN legs,
             \/ Blind(legs[i], image) /\ ~Blind(legs[j], image)
             \/ Overflowed(legs[i], chars) /\ CanServe(legs[j]) /\ Power(legs[j]) > 20
      PROVE  scoreTarget(legs[j], Class, kit, chars, image) > scoreTarget(legs[i], Class, kit, chars, image)
  BY <1>1, <1>3, GateScores DEF CanServe
<1> QED
  BY <1>2, <1>3 DEF GatesHold

(* The inductive invariant of the conversation: who led the turn before    *)
(* was off the least for its class.                                        *)
TaskInv ==
  /\ TaskTypeOK /\ HardStaysHard
  /\ led.all /\ AllFit /\ Class > led.class => Power(legs[First(Places)]) >= Power(legs[led.leg])

LEMMA TaskInvStep ==
  ASSUME TaskInv, [TaskNext]_talkVars
  PROVE  TaskInv'
<1>1. CASE UNCHANGED talkVars
  BY <1>1 DEF talkVars, TaskInv, TaskTypeOK, HardStaysHard, AllFit, CanServe, Class, First, Places, Ranked
<1>2. CASE Turn
  <2>1. /\ legs' = legs /\ kit' = kit /\ chars' >= chars /\ chars' \in Nat /\ messages' >= messages /\ messages' \in Nat
        /\ words \subseteq words' /\ words' \subseteq Keywords /\ image' \in BOOLEAN
        /\ chars \in Nat /\ messages \in Nat /\ kit \in Kits /\ legs \in Combos
    <3>1. /\ chars \in Nat /\ messages \in Nat /\ kit \in Kits /\ legs \in Combos
          /\ words \subseteq Keywords /\ image \in BOOLEAN
      BY DEF TaskInv, TaskTypeOK
    <3>2. PICK n \in Rounds : messages' = messages + n
      BY <1>2 DEF Turn
    <3>3. PICK m \in Texts, kw \in SUBSET Keywords : CollectText(m, kw)
      BY <1>2 DEF Turn
    <3>4. n \in Nat /\ m \in Nat
      BY TaskAssumption
    <3>5. chars' = chars + m /\ words \subseteq words' /\ words' \subseteq Keywords
      BY <3>1, <3>3 DEF CollectText
    <3>6. legs' = legs /\ kit' = kit /\ image' \in BOOLEAN
      BY <1>2, <3>1 DEF Turn
    <3> QED BY <3>1, <3>2, <3>4, <3>5, <3>6
  <2>2. led'.class = Class /\ led'.leg = First(Places) /\ (led'.all <=> AllFit)
    BY <1>2 DEF Turn
  <2>3. Class \in Light .. Critical /\ Class' \in Light .. Critical
    BY ClassType DEF Class
  <2>4. TaskTypeOK'
    BY <2>1, <2>2, <2>3 DEF TaskTypeOK
  <2>5. HardStaysHard'
    BY <2>1, <2>2, ClassGrows DEF HardStaysHard, Class
  <2>6. ASSUME led'.all, AllFit', Class' > led'.class
        PROVE  Power(legs[First(Places)']) >= Power(legs[led'.leg])
    <3> DEFINE c == Class
               d == Class'
               f == First(Places)
               g == First(Places)'
    <3>1. /\ f \in DOMAIN legs /\ \A j \in DOMAIN legs : Off(Power(legs[f]), c) <= Off(Power(legs[j]), c)
      <4>1. \A i \in DOMAIN legs : ~Blind(legs[i], image) /\ ~Unreasoning(legs[i], c)
                                   /\ ~Overflowed(legs[i], chars) /\ ~TooShort(legs[i], kit)
        BY <2>2, <2>6 DEF AllFit, CanServe
      <4> HIDE DEF c
      <4>2. f = Leader(legs, c, kit, chars, image)
        BY DEF First, Places, Ranked, Order, Leader, c
      <4>3. c \in Light .. Critical
        BY <2>3 DEF c
      <4> HIDE DEF f
      <4> QED BY <2>1, <4>1, <4>2, <4>3, LeaderOff
    <3>2. /\ g \in DOMAIN legs /\ \A j \in DOMAIN legs : Off(Power(legs[g]), d) <= Off(Power(legs[j]), d)
      <4>1. \A i \in DOMAIN legs : ~Blind(legs[i], image') /\ ~Unreasoning(legs[i], d)
                                   /\ ~Overflowed(legs[i], chars') /\ ~TooShort(legs[i], kit)
        BY <2>1, <2>6 DEF AllFit, CanServe
      <4>2. g = Leader(legs, d, kit, chars', image')
        BY <2>1 DEF First, Places, Ranked, Order, Leader
      <4>3. d \in Light .. Critical
        BY <2>3
      <4> HIDE DEF d, g
      <4> QED BY <2>1, <4>1, <4>2, <4>3, LeaderOff
    <3>3. c < d /\ c \in Light .. Critical /\ d \in Light .. Critical
      BY <2>2, <2>3, <2>6 DEF Light, Critical
    <3> HIDE DEF c, d, f, g
    <3>4. Power(legs[f]) \in 0 .. 150 /\ Power(legs[g]) \in 0 .. 150
      BY <2>1, <3>1, <3>2, <3>3, Scored
    <3>5. Off(Power(legs[f]), c) <= Off(Power(legs[g]), c) /\ Off(Power(legs[g]), d) <= Off(Power(legs[f]), d)
      BY <3>1, <3>2
    <3>6. Power(legs[g]) >= Power(legs[f])
      BY <3>3, <3>4, <3>5, OffCrosses, Zenon
    <3> QED BY <2>2, <3>6 DEF f, g
  <2> QED BY <2>1, <2>4, <2>5, <2>6 DEF TaskInv
<1> QED
  BY <1>1, <1>2 DEF TaskNext

LEMMA TaskInvSteers == TaskInv => TaskSteers
<1> SUFFICES ASSUME TaskInv PROVE TaskSteers
  OBVIOUS
<1>1. GatesHold(Places)
  BY GatesAlways DEF TaskInv
<1> QED
  BY <1>1 DEF TaskInv, TaskSteers, HarderToStronger

(* What is measured of the legs and what a conversation asks of them order *)
(* a combo, and do no more than that.                                      *)
THEOREM OrderSteers == SpeedSpec /\ TaskSpec => []Steers
<1>1. SpeedInit => SpeedInv
  BY EmptyClock DEF SpeedInit, SpeedInv
<1>2. TaskInit => TaskInv
  BY TaskAssumption DEF TaskInit, TaskInv, TaskTypeOK, HardStaysHard, Light, Heavy, Critical
<1>3. SpeedSteers /\ TaskSteers => Steers
  BY DEF Steers
<1>4. SpeedInv => SpeedSteers
  BY SpeedInvSteers
<1>5. TaskInv => TaskSteers
  BY TaskInvSteers
<1> QED
  BY <1>1, <1>2, <1>3, <1>4, <1>5, SpeedInvStep, TaskInvStep, PTL DEF SpeedSpec, TaskSpec
=============================================================================
