----------------------------- MODULE ByteBudget -----------------------------
(***************************************************************************)
(* The byte semaphore over buffered work (internal/server/sem.go) and its  *)
(* users in internal/server: a request reserves for its body               *)
(* (acquireForBody; acquireForStream with a fixed size), and the buffered  *)
(* cross-format path of attempt() reserves for the reply while the body's  *)
(* reservation is still held.  A configuration reload installs a fresh     *)
(* budget; a reservation goes back to the budget it came from.             *)
(***************************************************************************)
EXTENDS Integers, FiniteSets

CONSTANTS
  Requests,
  Capacity,       \* capacity of a budget, in units of memory
  BodySizes,      \* what a body asks for (0: undeclared length)
  ReplySizes,     \* what a reply asks for
  MaxBudgets,     \* bound: budgets installed, one at start and one per reload
  MaxAttempts     \* bound: reply reservations one request may try

ASSUME BudgetAssumption ==
  /\ IsFiniteSet(Requests) /\ Capacity \in Nat \ {0}
  /\ BodySizes \subseteq Nat /\ ReplySizes \subseteq Nat
  /\ MaxBudgets \in Nat \ {0} /\ MaxAttempts \in Nat

Budgets == 1 .. MaxBudgets
Parts   == {"body", "reply"}

VARIABLES
  cur,        \* the budget in the server's current state
  held,       \* budget -> ByteBudget.held
  exhausted,  \* budget -> ByteBudget.exhausted
  phase,      \* where a request is
  want,       \* request -> part -> bytes asked for, before the clamp
  from,       \* request -> part -> the budget asked
  tries       \* bound: reply reservations tried

vars == <<cur, held, exhausted, phase, want, from, tries>>

Phases == {"new", "waitBody", "serving", "waitReply", "replying", "done"}

Init == /\ cur = 1
        /\ held = [b \in Budgets |-> 0]
        /\ exhausted = [b \in Budgets |-> 0]
        /\ phase = [r \in Requests |-> "new"]
        /\ want = [r \in Requests |-> [p \in Parts |-> 0]]
        /\ from = [r \in Requests |-> [p \in Parts |-> 1]]
        /\ tries = [r \in Requests |-> 0]
-----------------------------------------------------------------------------
\* Oversized requests are gated at the whole capacity.
Clamp(n) == IF n > Capacity THEN Capacity ELSE n

Fits(b, n) == Capacity - held[b] >= Clamp(n)

\* held after Release(n); n is what was asked for, not what was taken.
Released(b, n) == IF held[b] < n THEN 0 ELSE held[b] - n

\* The first look of Acquire: taken at once, or the caller queues.
Ask(r, p, n, granted, queued) ==
  /\ want' = [want EXCEPT ![r][p] = n]
  /\ from' = [from EXCEPT ![r][p] = cur]
  /\ \/ /\ Fits(cur, n)
        /\ held' = [held EXCEPT ![cur] = @ + Clamp(n)]
        /\ phase' = [phase EXCEPT ![r] = granted]
     \/ /\ ~Fits(cur, n)
        /\ phase' = [phase EXCEPT ![r] = queued]
        /\ UNCHANGED held

\* A tick of the poll loop finds room.
Take(r, p, granted) ==
  LET b == from[r][p] IN
  /\ Fits(b, want[r][p])
  /\ held' = [held EXCEPT ![b] = @ + Clamp(want[r][p])]
  /\ phase' = [phase EXCEPT ![r] = granted]
  /\ UNCHANGED <<cur, exhausted, want, from, tries>>

\* budgetWaitLimit or the client's context ends the wait: Acquire counts it
\* and so does its caller (Saturated).
Refused(r, p, next) ==
  LET b == from[r][p] IN
  /\ exhausted' = [exhausted EXCEPT ![b] = @ + 2]
  /\ phase' = [phase EXCEPT ![r] = next]
  /\ UNCHANGED <<cur, held, want, from, tries>>

\* A plausible bug (issue #40): released into whatever budget is current.
Mut_Return_ToCurrent(r, p, next) ==
  /\ held' = [held EXCEPT ![cur] = Released(cur, want[r][p])]
  /\ phase' = [phase EXCEPT ![r] = next]
  /\ UNCHANGED <<cur, exhausted, want, from, tries>>

\* The deferred release, into the budget the reservation came from.
Return(r, p, next) ==
  LET b == from[r][p] IN
  /\ held' = [held EXCEPT ![b] = Released(b, want[r][p])]
  /\ phase' = [phase EXCEPT ![r] = next]
  /\ UNCHANGED <<cur, exhausted, want, from, tries>>
-----------------------------------------------------------------------------
AskBody(r) == /\ phase[r] = "new"
              /\ \E n \in BodySizes : Ask(r, "body", n, "serving", "waitBody")
              /\ UNCHANGED <<cur, exhausted, tries>>

TakeBody(r) == phase[r] = "waitBody" /\ Take(r, "body", "serving")

RefuseBody(r) == phase[r] = "waitBody" /\ Refused(r, "body", "done")

\* An upstream attempt answered in another format: the reply is buffered.
AskReply(r) == /\ phase[r] = "serving"
               /\ tries[r] < MaxAttempts
               /\ tries' = [tries EXCEPT ![r] = @ + 1]
               /\ \E n \in ReplySizes : Ask(r, "reply", n, "replying", "waitReply")
               /\ UNCHANGED <<cur, exhausted>>

TakeReply(r) == phase[r] = "waitReply" /\ Take(r, "reply", "replying")

\* A plausible bug: the queue has no time limit.
Mut_RefuseReply_Never(r) == FALSE /\ Refused(r, "reply", "serving")

\* The attempt fails with 503; the router may try again.
RefuseReply(r) == phase[r] = "waitReply" /\ Refused(r, "reply", "serving")

\* The attempt returns: its deferred release.
EndReply(r) == phase[r] = "replying" /\ Return(r, "reply", "serving")

\* The handler returns: its deferred release.
EndRequest(r) == phase[r] = "serving" /\ Return(r, "body", "done")

\* apply() stores a state with a fresh budget.
Reload == /\ cur < MaxBudgets
          /\ cur' = cur + 1
          /\ UNCHANGED <<held, exhausted, phase, want, from, tries>>

Step(r) == \/ AskBody(r) \/ TakeBody(r) \/ RefuseBody(r)
           \/ AskReply(r) \/ TakeReply(r) \/ RefuseReply(r)
           \/ EndReply(r) \/ EndRequest(r)

Next == Reload \/ \E r \in Requests : Step(r)

Spec == Init /\ [][Next]_vars

\* The poll ticker and the wait limit are timers: a queued request keeps polling
\* and cannot queue for ever.  Nothing is assumed of the upstream.
Fairness == \A r \in Requests : /\ WF_vars(TakeBody(r)) /\ WF_vars(RefuseBody(r))
                                  /\ WF_vars(TakeReply(r)) /\ WF_vars(RefuseReply(r))

FairSpec == Spec /\ Fairness
-----------------------------------------------------------------------------
Waiting(r) == phase[r] \in {"waitBody", "waitReply"}

\* Which reservations a request has at this point.
Holds(r, p) == \/ p = "body" /\ phase[r] \in {"serving", "waitReply", "replying"}
               \/ p = "reply" /\ phase[r] = "replying"

\* The units of memory of budget b in use, one cell each.
Cells(b) == {c \in Requests \X Parts \X (1 .. Capacity) :
               /\ Holds(c[1], c[2])
               /\ from[c[1]][c[2]] = b
               /\ c[3] <= want[c[1]][c[2]]}

TypeOK == /\ cur \in Budgets
          /\ held \in [Budgets -> 0 .. Capacity]
          /\ exhausted \in [Budgets -> Nat]
          /\ phase \in [Requests -> Phases]
          /\ want \in [Requests -> [Parts -> Nat]]
          /\ from \in [Requests -> [Parts -> Budgets]]
          /\ tries \in [Requests -> Nat]

(* A budget's counter is exactly the memory reserved in it: the clamp at   *)
(* Acquire, the unclamped Release with its floor and a reload in between   *)
(* neither leak bytes nor free another request's (sem.go, issue #40).      *)
Accounted == \A b \in Budgets : held[b] = Cardinality(Cells(b))

(* A request that asks for nothing (undeclared length) never queues,       *)
(* however full the budget is.                                             *)
UndeclaredNeverWaits ==
  \A r \in Requests : /\ phase[r] = "waitBody" => want[r]["body"] # 0
                      /\ phase[r] = "waitReply" => want[r]["reply"] # 0

(* A queued request leaves the queue, whatever the upstream calls of the   *)
(* others do (budgetWaitLimit).                                            *)
QueueEnds == \A r \in Requests : Waiting(r) ~> ~Waiting(r)
=============================================================================
