--------------------------- MODULE RouterExecute ---------------------------
(***************************************************************************)
(* One request through Router.Execute (internal/router/router.go): the     *)
(* chain of targets, the attempts on each, and every way a leg ends.       *)
(*                                                                         *)
(* The upstream, the account pools and the client are the environment: a   *)
(* call ends in one of the classes the code tells apart, accounts cool and *)
(* recover while the request runs, the client may hang up.  An account     *)
(* that answers a gated 403 is benched by Do before Execute looks again.   *)
(***************************************************************************)
EXTENDS Integers, Sequences, FiniteSets

CONSTANTS
  Plans,         \* what a request may resolve to: [targets, combo, fallback]
  Credentials,   \* the accounts of each provider
  MaxAttempts,
  Outcomes,      \* classes of answer the upstream may give
  MaxRecover,    \* bound: accounts that come back while the request runs
  MaxCalls       \* bound: upstream calls of the request

\* What a configuration must satisfy.
RouterAssumption ==
  /\ \A p \in Plans :
       /\ p.targets \in Seq([kind : {"live", "disabled", "unknown"}, forever : BOOLEAN])
       /\ p.combo \in BOOLEAN /\ p.fallback \in BOOLEAN
  /\ IsFiniteSet(Credentials) /\ Credentials # {}
  /\ MaxAttempts \in Nat /\ MaxRecover \in Nat /\ MaxCalls \in Nat
  /\ Outcomes \subseteq {"ok", "committed", "corrupt", "legRefusal", "terminal",
                         "gated", "fallback", "wall", "transient"}

VARIABLES
  plan,      \* the resolution: its targets, whether it is a combo; comboFallbackOn
  place,     \* "target", "pick", "call", "wait", "legEnd", "returned", "panicked"
  pos,       \* index of the current target
  triedLive, attempt, refusal,   \* Execute's locals
  rotated,   \* its local "benched": gated answers on this leg
  lastErr,   \* class of lastErr ("none": nil)
  ready,     \* target -> accounts the pool would hand out
  chosen,    \* the account of the call
  hungUp,    \* the request's context is done
  recovered, \* bound: recoveries so far
  made,      \* bound: upstream calls so far
  calls,     \* history: the last two upstream calls, [to, got]
  gates      \* history: an account answered a gated 403

locals == <<pos, triedLive, attempt, rotated, refusal, lastErr>>
past == <<made, calls, gates>>
execVars == <<plan, place, locals, ready, chosen, hungUp, recovered, past>>

Targets == plan.targets
IsCombo == plan.combo
FallbackOn == plan.fallback

Indices == 1 .. Len(Targets)
T == Targets[pos]

\* Execute's entry, but for the program counter.
ExecEntry ==
  /\ plan \in Plans
  /\ pos = 1 /\ triedLive = FALSE
  /\ attempt = 0 /\ rotated = 0 /\ refusal = FALSE
  /\ lastErr = "none"
  /\ ready \in [Indices -> SUBSET Credentials]
  /\ \A t \in Indices : Targets[t].kind # "live" => ready[t] = {}
  /\ chosen = CHOOSE a \in Credentials : TRUE
  /\ hungUp = FALSE /\ recovered = 0
  /\ made = 0 /\ calls = <<>> /\ gates = FALSE

ExecInit == ExecEntry /\ place = "target"

Finish(err) == /\ place' = "returned" /\ lastErr' = err
               /\ UNCHANGED <<pos, triedLive, attempt, rotated, refusal>>

\* The loop goes on to the next target.
Skip(err) == /\ pos' = pos + 1 /\ lastErr' = err
             /\ UNCHANGED <<place, triedLive, attempt, rotated, refusal>>

\* The attempt loop is left by a break.
LeaveLeg(err, ref) ==
  /\ place' = "legEnd" /\ lastErr' = err /\ refusal' = ref
  /\ UNCHANGED <<pos, triedLive, attempt, rotated>>

Enter == /\ place' = "pick" /\ triedLive' = TRUE
         /\ attempt' = 0 /\ rotated' = 0 /\ refusal' = FALSE
         /\ UNCHANGED <<pos, lastErr>>

Outside == UNCHANGED <<plan, ready, chosen, hungUp, recovered, past>>
-----------------------------------------------------------------------------
\* A plausible bug: a benched leg is skipped whatever combo_fallback says.
Mut_Benched_AlwaysSkips == Skip("benched")

\* A leg whose model is benched is skipped or ends the chain.
Benched == IF IsCombo /\ ~FallbackOn THEN Finish("benched") ELSE Skip("benched")

\* The head of the target loop.
StartTarget ==
  /\ place = "target"
  /\ \/ /\ pos > Len(Targets) \/ (triedLive /\ IsCombo /\ ~FallbackOn)
        /\ Finish(IF lastErr = "none" THEN "no_route" ELSE lastErr)
     \/ /\ pos <= Len(Targets) /\ ~(triedLive /\ IsCombo /\ ~FallbackOn)
        /\ \/ T.kind # "live" /\ Skip(T.kind)
           \/ T.kind = "live" /\ Enter
           \/ T.kind = "live" /\ ~T.forever /\ Benched
           \/ T.kind = "live" /\ T.forever /\ hungUp /\ Finish("client_closed")
  /\ Outside

Budget == IF MaxAttempts > 1 THEN MaxAttempts ELSE 1

InLoop == T.forever \/ rotated > 0 \/ attempt < Budget

\* The loop's condition and NextAccount.
PickAccount ==
  /\ place = "pick"
  /\ \/ ~InLoop /\ LeaveLeg(lastErr, refusal) /\ UNCHANGED chosen
     \/ /\ InLoop /\ ready[pos] # {}
        /\ chosen' \in ready[pos]
        /\ place' = "call" /\ UNCHANGED locals
     \/ /\ InLoop /\ ready[pos] = {} /\ T.forever
        /\ place' = "wait" /\ UNCHANGED <<locals, chosen>>
     \/ /\ InLoop /\ ready[pos] = {} /\ ~T.forever
        /\ LeaveLeg("pool_empty", refusal) /\ UNCHANGED chosen
  /\ UNCHANGED <<plan, ready, hungUp, recovered, past>>

\* waitCtx and the backoff's select: the timer or the client, whichever first.
Wait ==
  /\ place = "wait"
  /\ \/ place' = "pick" /\ UNCHANGED locals
     \/ hungUp /\ Finish("client_closed")
  /\ Outside
-----------------------------------------------------------------------------
Again(next) == place' = next /\ UNCHANGED <<pos, triedLive, rotated, refusal>>

\* A plausible bug: a retry does not spend the budget.
Mut_Retried_Free == attempt

Retried == attempt + 1

\* A plausible bug: the last account of the pool is not waited for.
Mut_GateSpent_Early(hits) == hits >= Cardinality(Credentials)

GateSpent(hits) == hits > Cardinality(Credentials)

\* A gated account: rotation is bounded by the pool.
Gated ==
  LET hits == rotated + 1 IN
  \/ /\ ~GateSpent(hits) /\ hungUp /\ Finish("client_closed")
  \/ /\ GateSpent(hits) \/ ~hungUp
     /\ place' = IF GateSpent(hits) THEN "legEnd" ELSE "pick"
     /\ lastErr' = "gated" /\ rotated' = hits
     /\ UNCHANGED <<pos, triedLive, attempt, refusal>>

\* A plausible bug: a committed stream is retried like any other failure.
Mut_AnswerGiven_Retries(got) ==
  IF got = "ok" THEN Finish("none")
  ELSE Again("pick") /\ lastErr' = got /\ attempt' = Retried

\* Success, and a stream already on its way to the client, end the request.
AnswerGiven(got) == Finish(IF got = "ok" THEN "none" ELSE got)

\* NoSameTargetRetry and SharedConcurrency end the leg, unless it retries forever.
Walled(got) == IF T.forever THEN Again("wait") /\ lastErr' = got /\ attempt' = Retried
               ELSE LeaveLeg(got, FALSE)

\* What Execute does with the answer of a call.
Dispatch(got) ==
  CASE got \in {"ok", "committed"} -> AnswerGiven(got)
    [] got = "corrupt" /\ ~T.forever -> LeaveLeg(got, refusal)
    [] got = "legRefusal" -> LeaveLeg(got, TRUE)
    [] got = "terminal"   -> Finish(got)
    [] got = "gated"      -> Gated
    [] got = "wall"       -> Walled(got)
    [] got = "fallback"   -> /\ Again(IF T.forever THEN "wait" ELSE "pick")
                             /\ lastErr' = got /\ attempt' = Retried
    [] OTHER -> Again("wait") /\ lastErr' = got /\ attempt' = Retried

CallUpstream ==
  /\ place = "call"
  /\ made < MaxCalls
  /\ \E got \in Outcomes :
       /\ Dispatch(got)
       /\ made' = made + 1
       /\ calls' = Append(IF made = 0 THEN <<>> ELSE <<calls[Len(calls)]>>, [to |-> pos, got |-> got])
       /\ gates' = (gates \/ got = "gated")
       /\ \/ ready' = [ready EXCEPT ![pos] = @ \ {chosen}]
          \/ got # "gated" /\ UNCHANGED ready
  /\ UNCHANGED <<plan, chosen, hungUp, recovered>>

\* A plausible bug: the check at the end of the leg is forgotten.
Mut_LeftForever == FALSE

\* The condition of the panic after the attempt loop.
LeftForever == T.forever /\ IsCombo /\ lastErr # "none" /\ ~refusal

EndLeg == /\ place = "legEnd"
          /\ IF LeftForever THEN place' = "panicked" /\ UNCHANGED pos
             ELSE place' = "target" /\ pos' = pos + 1
          /\ UNCHANGED <<triedLive, attempt, rotated, refusal, lastErr>>
          /\ Outside
-----------------------------------------------------------------------------
InExecute == place \notin {"returned", "panicked"}

\* Other requests cool accounts, cooldowns end, the client gives up.
Cool == /\ InExecute /\ \E t \in Indices : \E a \in ready[t] : ready' = [ready EXCEPT ![t] = @ \ {a}]
        /\ UNCHANGED <<plan, place, locals, chosen, hungUp, recovered, past>>

Recover == /\ InExecute /\ recovered < MaxRecover
           /\ \E t \in Indices : \E a \in Credentials \ ready[t] :
                Targets[t].kind = "live" /\ ready' = [ready EXCEPT ![t] = @ \cup {a}]
           /\ recovered' = recovered + 1
           /\ UNCHANGED <<plan, place, locals, chosen, hungUp, past>>

HangUp == /\ InExecute /\ ~hungUp /\ hungUp' = TRUE
          /\ UNCHANGED <<plan, place, locals, ready, chosen, recovered, past>>

Execute == StartTarget \/ PickAccount \/ CallUpstream \/ Wait \/ EndLeg

ExecNext == Execute \/ Cool \/ Recover \/ HangUp

ExecSpec == ExecInit /\ [][ExecNext]_execVars

\* The handler's goroutine runs: upstream calls return and timers fire.
ExecFairness == WF_execVars(Execute)
ExecFairSpec == ExecSpec /\ ExecFairness
-----------------------------------------------------------------------------
ExecTypeOK ==
  /\ place \in {"target", "pick", "call", "wait", "legEnd", "returned", "panicked"}
  /\ plan \in Plans
  /\ pos \in 1 .. (Len(Targets) + 1)
  /\ triedLive \in BOOLEAN /\ refusal \in BOOLEAN /\ hungUp \in BOOLEAN
  /\ attempt \in Nat
  /\ place \in {"pick", "call", "wait", "legEnd"} =>
       /\ pos <= Len(Targets)
       /\ T.forever \/ rotated > 0 \/ attempt <= Budget
  /\ rotated \in 0 .. (Cardinality(Credentials) + 1)
  /\ ready \in [Indices -> SUBSET Credentials] /\ chosen \in Credentials
  /\ recovered \in 0 .. MaxRecover

(* With combo_fallback off the client never gets another model under the   *)
(* name it asked for: every call goes to the first target that is neither  *)
(* unknown nor disabled (triedLive, and the bench that ends the leg).      *)
NoSilentSwitch ==
  IsCombo /\ ~FallbackOn =>
    \A i \in 1 .. Len(calls) :
       \A t \in Indices : t < calls[i].to => Targets[t].kind # "live"

(* Nothing is called upstream once an answer, or part of one, reached the  *)
(* client: a second response would be appended to the same stream.         *)
OneAnswer ==
  \A i \in 1 .. Len(calls) : calls[i].got \in {"ok", "committed"} => i = Len(calls)

(* A retry_forever target of a combo is left for a lesser leg only on a    *)
(* refusal the upstream worded as terminal for that leg.                   *)
NoDowngrade ==
  IsCombo =>
    \A i \in 2 .. Len(calls) :
       LET prev == calls[i - 1] IN
       prev.to < calls[i].to /\ Targets[prev.to].forever => prev.got = "legRefusal"

(* A gated 403 is not the client's answer while the pool rotates: a pool   *)
(* benched in full, none of it back yet, surfaces as an empty pool.        *)
NoRawGate == place = "returned" /\ recovered = 0 => lastErr # "gated"

(* What the comment on the panic says: a retry_forever target leaves its   *)
(* loop only for the answer, a hang-up or a terminal refusal.              *)
NoPanic == place # "panicked"

(* A request ends, unless a target retries for ever or a gated account has *)
(* switched the attempt budget off (rotated in the loop's condition).      *)
Terminates ==
  (\A t \in Indices : ~Targets[t].forever) => <>(place = "returned" \/ gates)

(* What a route promises: one answer, of the model the client may get, and *)
(* never a gate's 403 as the verdict on a pool.                            *)
Routed == ExecTypeOK /\ OneAnswer /\ NoSilentSwitch /\ NoDowngrade /\ NoRawGate
=============================================================================
