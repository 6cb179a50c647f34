--------------------------- MODULE RequestProofs ---------------------------
(***************************************************************************)
(* Proofs about what a request passes around its upstream calls.           *)
(*                                                                         *)
(* ByteBudget: the counter of a budget is exactly the memory reserved in   *)
(* it.  Memory is a set of cells, one per unit a reservation holds, so     *)
(* that a sum over requests is the cardinality of a set: an acquisition    *)
(* adds a slab of cells disjoint from the rest, a release takes one away.  *)
(*                                                                         *)
(* RoundRobin: what the rotation remembers of a run (winner, run, counter) *)
(* is what a request that nobody overlapped saw of it (Alone, InRun).      *)
(*                                                                         *)
(* Idempotency: the invariant CacheInv has three parts.  Mail follows the  *)
(* waiters: one stands on one entry in flight and was sent nothing, or has *)
(* left it with one result in its channel.  Book is the LRU's: the list is *)
(* an order of the live entries and the counter is what they store, so     *)
(* that an eviction ends within both caps (Enforced).  Runs ties an entry  *)
(* in flight to the request that runs for it.                              *)
(***************************************************************************)
EXTENDS ByteBudget, Idempotency, RoundRobin, FiniteSetTheorems, WellFoundedInduction, TLAPS

(* The inductive invariant: no step of another request can disturb the     *)
(* count, because what a request holds is determined by its own phase.     *)
BudgetInv == TypeOK /\ Accounted

\* The cells one reservation of n units takes.
Slab(r, p, n) == {c \in Requests \X Parts \X (1 .. Capacity) :
                    c[1] = r /\ c[2] = p /\ c[3] <= n}

(* A reservation of n units occupies as many cells as Acquire's clamp      *)
(* charges for it.                                                         *)
LEMMA SlabSize ==
  ASSUME NEW r \in Requests, NEW p \in Parts, NEW n \in Nat
  PROVE  /\ IsFiniteSet(Slab(r, p, n))
         /\ Cardinality(Slab(r, p, n)) = Clamp(n)
         /\ Clamp(n) \in 0 .. Capacity
<1> DEFINE I == 1 .. Clamp(n)
           f == [i \in I |-> <<r, p, i>>]
<1>1. Clamp(n) \in 0 .. Capacity BY BudgetAssumption DEF Clamp
<1>2. f \in [I -> Slab(r, p, n)]
  <2>1. ASSUME NEW i \in I PROVE <<r, p, i>> \in Slab(r, p, n)
    <3>1. i \in 1 .. Capacity /\ i <= n BY <1>1, BudgetAssumption DEF Clamp
    <3> QED BY <3>1 DEF Slab
  <2> QED BY <2>1
<1>3. \A i, j \in I : f[i] = f[j] => i = j OBVIOUS
<1>4. \A c \in Slab(r, p, n) : \E i \in I : f[i] = c
  <2>1. TAKE c \in Slab(r, p, n)
  <2>2. c = <<r, p, c[3]>> /\ c[3] \in 1 .. Capacity /\ c[3] <= n BY DEF Slab
  <2>3. c[3] \in I BY <2>2, <1>1, BudgetAssumption DEF Clamp
  <2> QED BY <2>2, <2>3
<1>5. f \in Bijection(I, Slab(r, p, n))
  BY <1>2, <1>3, <1>4 DEF Bijection, Injection, Surjection, IsInjective
<1>6. ExistsBijection(I, Slab(r, p, n)) BY <1>5 DEF ExistsBijection
<1>7. IsFiniteSet(I) /\ Cardinality(I) = Clamp(n)
  <2>1. 1 \in Int /\ Clamp(n) \in Int BY <1>1
  <2> QED BY <2>1, <1>1, FS_Interval
<1>8. IsFiniteSet(Slab(r, p, n)) /\ Cardinality(Slab(r, p, n)) = Cardinality(I)
  <2> HIDE DEF I
  <2> QED BY <1>6, <1>7, FS_Bijection
<1> QED BY <1>1, <1>7, <1>8

(* There are finitely many cells: a cell belongs to a request, to one of   *)
(* its two parts and to one of finitely many units.                        *)
LEMMA CellsFinite ==
  ASSUME NEW S \in SUBSET (Requests \X Parts \X (1 .. Capacity))
  PROVE  IsFiniteSet(S) /\ Cardinality(S) \in Nat
<1> DEFINE Units == 1 .. Capacity
           Whole(p) == {c \in Requests \X Parts \X Units : c[2] = p}
           g(p) == [x \in Requests \X Units |-> <<x[1], p, x[2]>>]
<1>1. IsFiniteSet(Requests \X Units)
  <2>1. IsFiniteSet(Units) BY FS_Interval, BudgetAssumption
  <2> QED BY <2>1, FS_Product, BudgetAssumption
<1>2. ASSUME NEW p \in Parts PROVE IsFiniteSet(Whole(p))
  <2>1. g(p) \in [Requests \X Units -> Whole(p)] OBVIOUS
  <2>2. \A c \in Whole(p) : \E x \in Requests \X Units : g(p)[x] = c
    <3>1. TAKE c \in Whole(p)
    <3>2. <<c[1], c[3]>> \in Requests \X Units /\ c = <<c[1], p, c[3]>> OBVIOUS
    <3> QED BY <3>2
  <2>3. g(p) \in Surjection(Requests \X Units, Whole(p)) BY <2>1, <2>2 DEF Surjection
  <2> QED
    <3> HIDE DEF g, Whole, Units
    <3> QED BY <1>1, <2>3, FS_Surjection
<1>3. IsFiniteSet(Whole("body") \cup Whole("reply"))
  <2>1. IsFiniteSet(Whole("body")) /\ IsFiniteSet(Whole("reply")) BY <1>2 DEF Parts
  <2> QED BY <2>1, FS_Union
<1>4. S \subseteq Whole("body") \cup Whole("reply") BY DEF Parts
<1>5. IsFiniteSet(S)
  <2> HIDE DEF Whole
  <2> QED BY <1>3, <1>4, FS_Subset
<1> QED BY <1>5, FS_CardinalityType
-----------------------------------------------------------------------------
\* A step leaves the reservation of part p of request r as it is.
Same(r, p) == /\ Holds(r, p)' <=> Holds(r, p)
              /\ Holds(r, p) => want'[r][p] = want[r][p] /\ from'[r][p] = from[r][p]

\* A step touches at most the reservation of part p of request r.
Only(r, p) == \A q \in Requests, o \in Parts : <<q, o>> # <<r, p>> => Same(q, o)

LEMMA CellsSame ==
  ASSUME \A r \in Requests, p \in Parts : Same(r, p), NEW b \in Budgets
  PROVE  Cells(b)' = Cells(b)
<1>1. ASSUME NEW c \in Requests \X Parts \X (1 .. Capacity)
      PROVE  (Holds(c[1], c[2]) /\ from[c[1]][c[2]] = b /\ c[3] <= want[c[1]][c[2]])'
               <=> Holds(c[1], c[2]) /\ from[c[1]][c[2]] = b /\ c[3] <= want[c[1]][c[2]]
  <2>1. c[1] \in Requests /\ c[2] \in Parts BY <1>1
  <2>2. Same(c[1], c[2]) BY <2>1
  <2> QED BY <2>2 DEF Same
<1> QED BY <1>1 DEF Cells

(* An acquisition adds the slab of its reservation to its budget's cells.  *)
LEMMA CellsGain ==
  ASSUME NEW r \in Requests, NEW p \in Parts, NEW b \in Budgets,
         ~Holds(r, p), Holds(r, p)', Only(r, p)
  PROVE  /\ Cells(b) \cap Slab(r, p, want'[r][p]) = {}
         /\ Cells(b)' = IF from'[r][p] = b THEN Cells(b) \cup Slab(r, p, want'[r][p]) ELSE Cells(b)
<1>1. Cells(b) \cap Slab(r, p, want'[r][p]) = {} BY DEF Cells, Slab
<1>2. ASSUME NEW c \in Requests \X Parts \X (1 .. Capacity)
      PROVE  (Holds(c[1], c[2]) /\ from[c[1]][c[2]] = b /\ c[3] <= want[c[1]][c[2]])'
               <=> IF <<c[1], c[2]>> = <<r, p>> THEN from'[r][p] = b /\ c[3] <= want'[r][p]
                   ELSE Holds(c[1], c[2]) /\ from[c[1]][c[2]] = b /\ c[3] <= want[c[1]][c[2]]
  <2>1. c[1] \in Requests /\ c[2] \in Parts BY <1>2
  <2>2. CASE <<c[1], c[2]>> = <<r, p>>
    <3>1. c[1] = r /\ c[2] = p BY <2>2
    <3> QED BY <3>1, <2>2
  <2>3. CASE <<c[1], c[2]>> # <<r, p>>
    <3>1. Same(c[1], c[2]) BY <2>1, <2>3 DEF Only
    <3> QED BY <3>1, <2>3 DEF Same
  <2> QED BY <2>2, <2>3
<1>3. ASSUME NEW c \in Cells(b) PROVE <<c[1], c[2]>> # <<r, p>> BY DEF Cells
<1> QED BY <1>1, <1>2, <1>3 DEF Cells, Slab

(* A release takes its reservation's slab out of the budget it came from.  *)
LEMMA CellsLoss ==
  ASSUME NEW r \in Requests, NEW p \in Parts, NEW b \in Budgets,
         Holds(r, p), ~Holds(r, p)', Only(r, p)
  PROVE  /\ from[r][p] = b => Slab(r, p, want[r][p]) \subseteq Cells(b)
         /\ Cells(b)' = IF from[r][p] = b THEN Cells(b) \ Slab(r, p, want[r][p]) ELSE Cells(b)
<1>1. from[r][p] = b => Slab(r, p, want[r][p]) \subseteq Cells(b) BY DEF Cells, Slab
<1>2. ASSUME NEW c \in Requests \X Parts \X (1 .. Capacity)
      PROVE  (Holds(c[1], c[2]) /\ from[c[1]][c[2]] = b /\ c[3] <= want[c[1]][c[2]])'
               <=> <<c[1], c[2]>> # <<r, p>>
                   /\ Holds(c[1], c[2]) /\ from[c[1]][c[2]] = b /\ c[3] <= want[c[1]][c[2]]
  <2>1. c[1] \in Requests /\ c[2] \in Parts BY <1>2
  <2>2. CASE <<c[1], c[2]>> = <<r, p>>
    <3>1. c[1] = r /\ c[2] = p BY <2>2
    <3> QED BY <3>1, <2>2
  <2>3. CASE <<c[1], c[2]>> # <<r, p>>
    <3>1. Same(c[1], c[2]) BY <2>1, <2>3 DEF Only
    <3> QED BY <3>1, <2>3 DEF Same
  <2> QED BY <2>2, <2>3
<1> QED BY <1>1, <1>2 DEF Cells, Slab

(* The count after an acquisition.                                         *)
LEMMA AccountedGain ==
  ASSUME NEW r \in Requests, NEW p \in Parts, NEW b \in Budgets, BudgetInv, TypeOK',
         ~Holds(r, p), Holds(r, p)', Only(r, p), from'[r][p] = b,
         held' = [held EXCEPT ![b] = @ + Clamp(want'[r][p])]
  PROVE  Accounted'
<1> DEFINE n == want'[r][p]
           S == Slab(r, p, n)
<1>1. n \in Nat BY DEF TypeOK
<1>2. SUFFICES ASSUME NEW d \in Budgets PROVE held'[d] = Cardinality(Cells(d)')
  BY DEF Accounted
<1>3. held[d] = Cardinality(Cells(d)) /\ held[d] \in 0 .. Capacity /\ d \in DOMAIN held
  BY DEF BudgetInv, Accounted, TypeOK
<1>4. CASE d # b BY <1>3, <1>4, CellsGain
<1>5. CASE d = b
  <2>1. Cells(d)' = Cells(d) \cup S /\ Cells(d) \cap S = {} BY <1>5, CellsGain
  <2>2. IsFiniteSet(S) /\ Cardinality(S) = Clamp(n) /\ Clamp(n) \in 0 .. Capacity BY <1>1, SlabSize
  <2>3. IsFiniteSet(Cells(d)) BY CellsFinite DEF Cells
  <2>4. Cardinality(Cells(d) \cup S) = Cardinality(Cells(d)) + Cardinality(S) - Cardinality(Cells(d) \cap S)
    <3> HIDE DEF S
    <3> QED BY <2>2, <2>3, FS_Union
  <2>5. Cardinality(Cells(d) \cap S) = 0 BY <2>1, FS_EmptySet
  <2>6. held'[d] = held[d] + Clamp(n) BY <1>3, <1>5
  <2>7. Cardinality(Cells(d) \cup S) = held[d] + Clamp(n)
    <3> HIDE DEF S, n
    <3> QED BY <2>2, <2>4, <2>5, <1>3, BudgetAssumption
  <2> QED BY <2>1, <2>6, <2>7
<1> QED BY <1>4, <1>5

(* The count after a release: what is given back unclamped, down to the    *)
(* floor, is exactly the slab.                                             *)
LEMMA AccountedLoss ==
  ASSUME NEW r \in Requests, NEW p \in Parts, NEW b \in Budgets, BudgetInv,
         Holds(r, p), ~Holds(r, p)', Only(r, p), from[r][p] = b,
         held' = [held EXCEPT ![b] = Released(b, want[r][p])]
  PROVE  Accounted'
<1> DEFINE n == want[r][p]
           S == Slab(r, p, n)
<1>1. n \in Nat BY DEF BudgetInv, TypeOK
<1>2. SUFFICES ASSUME NEW d \in Budgets PROVE held'[d] = Cardinality(Cells(d)')
  BY DEF Accounted
<1>3. held[d] = Cardinality(Cells(d)) /\ held[d] \in 0 .. Capacity /\ d \in DOMAIN held
  BY DEF BudgetInv, Accounted, TypeOK
<1>4. CASE d # b BY <1>3, <1>4, CellsLoss
<1>5. CASE d = b
  <2>1. Cells(d)' = Cells(d) \ S /\ S \subseteq Cells(d) BY <1>5, CellsLoss
  <2>2. IsFiniteSet(S) /\ Cardinality(S) = Clamp(n) /\ Clamp(n) \in 0 .. Capacity BY <1>1, SlabSize
  <2>3. IsFiniteSet(Cells(d)) BY CellsFinite DEF Cells
  <2>4. Cardinality(Cells(d) \ S) = Cardinality(Cells(d)) - Cardinality(S)
    <3>1. Cells(d) \cap S = S BY <2>1
    <3> HIDE DEF S
    <3> QED BY <2>3, <3>1, FS_Difference
  <2>5. Cardinality(S) <= Cardinality(Cells(d))
    <3> HIDE DEF S
    <3> QED BY <2>1, <2>3, FS_Subset
  <2>6. held'[d] = IF held[d] < n THEN 0 ELSE held[d] - n BY <1>3, <1>5 DEF Released
  <2>7. held'[d] = held[d] - Clamp(n)
    <3> HIDE DEF S, n
    <3> QED BY <1>1, <1>3, <2>2, <2>5, <2>6, BudgetAssumption DEF Clamp
  <2>8. Cardinality(Cells(d) \ S) = held[d] - Clamp(n)
    <3> HIDE DEF S, n
    <3> QED BY <2>2, <2>4, <1>3
  <2> QED BY <2>1, <2>7, <2>8
<1> QED BY <1>4, <1>5
-----------------------------------------------------------------------------
LEMMA InitIInv == Init => BudgetInv
<1> SUFFICES ASSUME Init PROVE BudgetInv OBVIOUS
<1>1. TypeOK BY BudgetAssumption DEF Init, TypeOK, Budgets, Parts, Phases
<1>2. ASSUME NEW b \in Budgets PROVE held[b] = Cardinality(Cells(b))
  <2>1. Cells(b) = {} BY DEF Init, Cells, Holds
  <2> QED BY <2>1, FS_EmptySet DEF Init
<1> QED BY <1>1, <1>2 DEF BudgetInv, Accounted

(* Acquire, at its first look: the request gets the bytes or queues.       *)
LEMMA AskKeeps ==
  ASSUME BudgetInv, NEW r \in Requests, NEW p \in Parts, NEW n \in Nat,
         NEW granted \in Phases, NEW queued \in Phases,
         Ask(r, p, n, granted, queued), UNCHANGED <<cur, exhausted>>,
         tries' \in [Requests -> Nat],
         p = "body" => phase[r] = "new" /\ granted = "serving" /\ queued = "waitBody",
         p = "reply" => phase[r] = "serving" /\ granted = "replying" /\ queued = "waitReply"
  PROVE  BudgetInv'
<1>1. Clamp(n) \in 0 .. Capacity BY SlabSize
<1>2. cur \in Budgets /\ held[cur] \in 0 .. Capacity BY DEF BudgetInv, TypeOK
<1>3. /\ want' \in [Requests -> [Parts -> Nat]]
      /\ from' \in [Requests -> [Parts -> Budgets]]
      /\ want'[r][p] = n /\ from'[r][p] = cur
  BY DEF BudgetInv, TypeOK, Ask
<1>4. /\ phase' \in [Requests -> Phases]
      /\ \A q \in Requests : q # r => phase'[q] = phase[q]
  BY DEF BudgetInv, TypeOK, Ask
<1>5. held' \in [Budgets -> 0 .. Capacity]
  <2>1. held \in [Budgets -> 0 .. Capacity] BY DEF BudgetInv, TypeOK
  <2>2. CASE Fits(cur, n) /\ held' = [held EXCEPT ![cur] = @ + Clamp(n)]
    <3>1. held[cur] + Clamp(n) \in 0 .. Capacity
      BY <1>1, <1>2, <2>2, BudgetAssumption DEF Fits
    <3> QED BY <2>1, <2>2, <3>1
  <2>3. CASE UNCHANGED held BY <2>1, <2>3
  <2> QED BY <2>2, <2>3 DEF Ask
<1>6. TypeOK' BY <1>2, <1>3, <1>4, <1>5 DEF BudgetInv, TypeOK
<1>7. \A q \in Requests, o \in Parts : <<q, o>> # <<r, p>> =>
        want'[q][o] = want[q][o] /\ from'[q][o] = from[q][o]
  BY DEF BudgetInv, TypeOK, Ask
<1>8. CASE /\ held' = [held EXCEPT ![cur] = @ + Clamp(n)]
           /\ phase' = [phase EXCEPT ![r] = granted]
  <2>1. phase'[r] = granted BY <1>8 DEF BudgetInv, TypeOK
  <2>2. Only(r, p) BY <2>1, <1>4, <1>7 DEF Only, Same, Holds, Parts
  <2>3. ~Holds(r, p) /\ Holds(r, p)' BY <2>1 DEF Holds, Parts
  <2> QED BY <1>2, <1>3, <1>6, <1>8, <2>2, <2>3, AccountedGain DEF BudgetInv
<1>9. CASE phase' = [phase EXCEPT ![r] = queued] /\ UNCHANGED held
  <2>1. phase'[r] = queued BY <1>9 DEF BudgetInv, TypeOK
  <2>2. \A q \in Requests, o \in Parts : Same(q, o)
    BY <2>1, <1>4, <1>7 DEF Same, Holds, Parts
  <2>3. Accounted' BY <2>2, <1>9, CellsSame DEF BudgetInv, Accounted
  <2> QED BY <1>6, <2>3 DEF BudgetInv
<1> QED BY <1>8, <1>9 DEF Ask

(* A queued request finds room.                                            *)
LEMMA TakeKeeps ==
  ASSUME BudgetInv, NEW r \in Requests, NEW p \in Parts, NEW granted \in Phases,
         Take(r, p, granted),
         p = "body" => phase[r] = "waitBody" /\ granted = "serving",
         p = "reply" => phase[r] = "waitReply" /\ granted = "replying"
  PROVE  BudgetInv'
<1> DEFINE b == from[r][p]
           n == want[r][p]
<1>1. b \in Budgets /\ n \in Nat /\ held[b] \in 0 .. Capacity BY DEF BudgetInv, TypeOK
<1>2. Clamp(n) \in 0 .. Capacity BY <1>1, SlabSize
<1>3. held' = [held EXCEPT ![b] = @ + Clamp(n)] /\ want' = want /\ from' = from BY DEF Take
<1>4. held' \in [Budgets -> 0 .. Capacity]
  BY <1>1, <1>2, <1>3, BudgetAssumption DEF BudgetInv, TypeOK, Take, Fits
<1>5. TypeOK' BY <1>4 DEF BudgetInv, TypeOK, Take
<1>6. /\ phase'[r] = granted
      /\ \A q \in Requests : q # r => phase'[q] = phase[q]
  BY DEF BudgetInv, TypeOK, Take
<1>7. Only(r, p) BY <1>3, <1>6 DEF Only, Same, Holds, Parts
<1>8. ~Holds(r, p) /\ Holds(r, p)' BY <1>6 DEF Holds, Parts
<1>9. want'[r][p] = n /\ from'[r][p] = b BY <1>3
<1>10. Accounted'
  <2> HIDE DEF b, n
  <2> QED BY <1>1, <1>3, <1>5, <1>7, <1>8, <1>9, AccountedGain
<1> QED BY <1>5, <1>10 DEF BudgetInv

(* A queued request gives up.                                              *)
LEMMA RefusedKeeps ==
  ASSUME BudgetInv, NEW r \in Requests, NEW p \in Parts, NEW next \in Phases,
         Refused(r, p, next),
         p = "body" => phase[r] = "waitBody" /\ next = "done",
         p = "reply" => phase[r] = "waitReply" /\ next = "serving"
  PROVE  BudgetInv'
<1>1. TypeOK' BY DEF BudgetInv, TypeOK, Refused
<1>2. /\ phase'[r] = next
      /\ \A q \in Requests : q # r => phase'[q] = phase[q]
  BY DEF BudgetInv, TypeOK, Refused
<1>3. \A q \in Requests, o \in Parts : Same(q, o)
  BY <1>2 DEF Refused, Same, Holds, Parts
<1>4. Accounted' BY <1>3, CellsSame DEF BudgetInv, Accounted, Refused
<1> QED BY <1>1, <1>4 DEF BudgetInv

(* A deferred release.                                                     *)
LEMMA ReturnKeeps ==
  ASSUME BudgetInv, NEW r \in Requests, NEW p \in Parts, NEW next \in Phases,
         Return(r, p, next),
         p = "body" => phase[r] = "serving" /\ next = "done",
         p = "reply" => phase[r] = "replying" /\ next = "serving"
  PROVE  BudgetInv'
<1> DEFINE b == from[r][p]
           n == want[r][p]
<1>1. b \in Budgets /\ n \in Nat /\ held[b] \in 0 .. Capacity BY DEF BudgetInv, TypeOK
<1>2. held' = [held EXCEPT ![b] = Released(b, n)] /\ want' = want /\ from' = from BY DEF Return
<1>3. held' \in [Budgets -> 0 .. Capacity]
  BY <1>1, <1>2, BudgetAssumption DEF BudgetInv, TypeOK, Released
<1>4. TypeOK' BY <1>3 DEF BudgetInv, TypeOK, Return
<1>5. /\ phase'[r] = next
      /\ \A q \in Requests : q # r => phase'[q] = phase[q]
  BY DEF BudgetInv, TypeOK, Return
<1>6. Only(r, p) BY <1>2, <1>5 DEF Only, Same, Holds, Parts
<1>7. Holds(r, p) /\ ~Holds(r, p)' BY <1>5 DEF Holds, Parts
<1>8. Accounted' BY <1>1, <1>2, <1>6, <1>7, AccountedLoss
<1> QED BY <1>4, <1>8 DEF BudgetInv

LEMMA StepIInv == BudgetInv /\ [Next]_vars => BudgetInv'
<1> SUFFICES ASSUME BudgetInv, [Next]_vars PROVE BudgetInv' OBVIOUS
<1> USE DEF Parts, Phases
<1>1. ASSUME NEW r \in Requests, AskBody(r) PROVE BudgetInv'
  <2>1. PICK n \in BodySizes : Ask(r, "body", n, "serving", "waitBody") BY <1>1 DEF AskBody
  <2>2. n \in Nat BY BudgetAssumption
  <2>3. tries' \in [Requests -> Nat] BY <1>1 DEF AskBody, BudgetInv, TypeOK
  <2> QED BY <1>1, <2>1, <2>2, <2>3, AskKeeps DEF AskBody
<1>2. ASSUME NEW r \in Requests, AskReply(r) PROVE BudgetInv'
  <2>1. PICK n \in ReplySizes : Ask(r, "reply", n, "replying", "waitReply") BY <1>2 DEF AskReply
  <2>2. n \in Nat BY BudgetAssumption
  <2>3. tries' \in [Requests -> Nat] BY <1>2 DEF AskReply, BudgetInv, TypeOK
  <2> QED BY <1>2, <2>1, <2>2, <2>3, AskKeeps DEF AskReply
<1>3. ASSUME NEW r \in Requests, TakeBody(r) PROVE BudgetInv' BY <1>3, TakeKeeps DEF TakeBody
<1>4. ASSUME NEW r \in Requests, TakeReply(r) PROVE BudgetInv' BY <1>4, TakeKeeps DEF TakeReply
<1>5. ASSUME NEW r \in Requests, RefuseBody(r) PROVE BudgetInv' BY <1>5, RefusedKeeps DEF RefuseBody
<1>6. ASSUME NEW r \in Requests, RefuseReply(r) PROVE BudgetInv' BY <1>6, RefusedKeeps DEF RefuseReply
<1>7. ASSUME NEW r \in Requests, EndReply(r) PROVE BudgetInv' BY <1>7, ReturnKeeps DEF EndReply
<1>8. ASSUME NEW r \in Requests, EndRequest(r) PROVE BudgetInv' BY <1>8, ReturnKeeps DEF EndRequest
<1>9. CASE Reload \/ UNCHANGED vars
  <2>1. cur' \in Budgets BY <1>9, BudgetAssumption DEF BudgetInv, TypeOK, Reload, vars, Budgets
  <2>4. TypeOK' BY <1>9, <2>1 DEF BudgetInv, TypeOK, Reload, vars
  <2>2. \A q \in Requests, o \in Parts : Same(q, o) BY <1>9 DEF Reload, vars, Same, Holds
  <2>3. Accounted' BY <1>9, <2>2, CellsSame DEF BudgetInv, Accounted, Reload, vars
  <2> QED BY <2>3, <2>4 DEF BudgetInv
<1> QED BY <1>1, <1>2, <1>3, <1>4, <1>5, <1>6, <1>7, <1>8, <1>9 DEF Next, Step

(* Type correctness; in particular no budget is ever overdrawn, and its    *)
(* counter never goes below zero, for any capacity and any sizes.          *)
THEOREM BudgetTypes == Spec => []TypeOK
<1>1. BudgetInv => TypeOK BY DEF BudgetInv
<1> QED BY <1>1, InitIInv, StepIInv, PTL DEF Spec

(* Every budget's counter is exactly the memory reserved in it, for any    *)
(* number of requests, sizes and reloads (sem.go's Acquire and Release).   *)
THEOREM BudgetAccounted == Spec => []Accounted
<1>1. BudgetInv => Accounted BY DEF BudgetInv
<1> QED BY <1>1, InitIInv, StepIInv, PTL DEF Spec

(* A request with nothing to reserve is never parked behind a full budget. *)
THEOREM UndeclaredNeverQueues == Spec => []UndeclaredNeverWaits
<1> DEFINE J == BudgetInv /\ UndeclaredNeverWaits
<1>1. Init => J BY InitIInv DEF Init, UndeclaredNeverWaits
<1>2. J /\ [Next]_vars => J'
  <2> SUFFICES ASSUME J, [Next]_vars PROVE UndeclaredNeverWaits' BY StepIInv
  <2> SUFFICES ASSUME NEW q \in Requests
               PROVE  /\ phase'[q] = "waitBody" => want'[q]["body"] # 0
                      /\ phase'[q] = "waitReply" => want'[q]["reply"] # 0
    BY DEF UndeclaredNeverWaits
  <2>1. /\ cur \in Budgets /\ held[cur] \in 0 .. Capacity
        /\ phase \in [Requests -> Phases] /\ want \in [Requests -> [Parts -> Nat]]
    BY DEF BudgetInv, TypeOK
  <2>2. Fits(cur, 0) BY <2>1, BudgetAssumption DEF Fits, Clamp
  <2>3. ASSUME NEW r \in Requests, AskBody(r) PROVE phase'[q] = "waitBody" => want'[q]["body"] # 0
    BY <2>1, <2>2, <2>3 DEF AskBody, Ask, UndeclaredNeverWaits, Parts
  <2>4. ASSUME NEW r \in Requests, AskBody(r) PROVE phase'[q] = "waitReply" => want'[q]["reply"] # 0
    BY <2>1, <2>2, <2>4 DEF AskBody, Ask, UndeclaredNeverWaits, Parts
  <2>5. ASSUME NEW r \in Requests, AskReply(r) PROVE phase'[q] = "waitBody" => want'[q]["body"] # 0
    BY <2>1, <2>2, <2>5 DEF AskReply, Ask, UndeclaredNeverWaits, Parts
  <2>6. ASSUME NEW r \in Requests, AskReply(r) PROVE phase'[q] = "waitReply" => want'[q]["reply"] # 0
    BY <2>1, <2>2, <2>6 DEF AskReply, Ask, UndeclaredNeverWaits, Parts
  <2>7. ASSUME NEW r \in Requests, TakeBody(r) \/ TakeReply(r) PROVE UndeclaredNeverWaits'
    BY <2>1, <2>7 DEF TakeBody, TakeReply, Take, UndeclaredNeverWaits
  <2>8. ASSUME NEW r \in Requests, RefuseBody(r) \/ RefuseReply(r) PROVE UndeclaredNeverWaits'
    BY <2>1, <2>8 DEF RefuseBody, RefuseReply, Refused, UndeclaredNeverWaits
  <2>9. ASSUME NEW r \in Requests, EndReply(r) \/ EndRequest(r) PROVE UndeclaredNeverWaits'
    BY <2>1, <2>9 DEF EndReply, EndRequest, Return, UndeclaredNeverWaits
  <2>10. CASE Reload \/ UNCHANGED vars BY <2>10 DEF Reload, vars, UndeclaredNeverWaits
  <2>11. UndeclaredNeverWaits' => /\ phase'[q] = "waitBody" => want'[q]["body"] # 0
                                  /\ phase'[q] = "waitReply" => want'[q]["reply"] # 0
    BY DEF UndeclaredNeverWaits
  <2> QED BY <2>3, <2>4, <2>5, <2>6, <2>7, <2>8, <2>9, <2>10, <2>11 DEF Next, Step
<1>3. J => UndeclaredNeverWaits OBVIOUS
<1> QED BY <1>1, <1>2, <1>3, PTL DEF Spec
-----------------------------------------------------------------------------
(* The rotation of a combo.                                                *)

\* The sets the variables of RoundRobin range over.
Asking ==
  [on : {TRUE}, order : [Indices -> Indices], lead : Indices, again : BOOLEAN, alone : BOOLEAN]

RotaTypes ==
  /\ counter \in Nat /\ run \in Nat
  /\ req \in [Workers -> {Idle} \cup Asking]
  /\ streak \in [of : -1 .. (N - 1), n : Nat]

\* A request that nobody overlapped is the only one, and leads with the leg
\* that would lead now.
Alone ==
  \A w \in Workers :
     req[w].on /\ req[w].alone
        => req[w].lead = Lead /\ \A u \in Workers : req[u].on => u = w

\* The leg that led and served lately is in the middle of its run, no further
\* than the run, or has just completed it.
InRun ==
  /\ streak.n <= Limit
  /\ streak.of # Nobody
       => \/ winner = streak.of /\ streak.n <= run
          \/ winner = -1 /\ counter = streak.of + 1

RotaInv == RotaTypes /\ RotaTypeOK /\ StickyServes /\ Alone /\ InRun

\* The leader comes from the combo, and follows a spent run by one place.
LEMMA LeadIsLeg ==
  ASSUME RotaTypes, RotaTypeOK
  PROVE  /\ Lead \in Indices
         /\ winner # -1 => Lead = winner
         /\ \A t \in Indices : winner = -1 /\ counter = t + 1 => Lead # t
<1> USE RoundRobinAssumption
<1>1. /\ counter \in Nat /\ counter <= N /\ winner \in -1 .. (N - 1) /\ run \in Nat /\ run < Limit
      /\ N \in Nat /\ N > 1 /\ Limit \in Nat
  BY DEF RotaTypes, RotaTypeOK
<1>2. counter % N \in 0 .. (N - 1)
  BY <1>1
<1>3. counter < N => counter % N = counter
  BY <1>1
<1>4. counter = N => counter % N = 0
  BY <1>1
<1>5. winner # -1 => Lead = winner
  BY <1>1 DEF Lead
<1>6. winner = -1 => Lead = counter % N
  BY DEF Lead
<1> QED
  BY <1>1, <1>2, <1>3, <1>4, <1>5, <1>6 DEF Indices

\* As long as nothing is booked, what is remembered of the run stays.
LEMMA UnbookedStep ==
  ASSUME RotaInv, UNCHANGED <<rr, served, streak>>,
         req' \in [Workers -> {Idle} \cup Asking], Alone'
  PROVE  RotaInv'
<1>1. RotaTypes' /\ RotaTypeOK'
  BY DEF RotaInv, RotaTypes, RotaTypeOK, rr
<1>2. StickyServes' /\ InRun'
  BY DEF RotaInv, StickyServes, InRun, Lead, rr
<1> QED
  BY <1>1, <1>2 DEF RotaInv

\* A request starts: whoever was alone is not alone any more.
LEMMA RotateStep ==
  ASSUME RotaInv, NEW w \in Workers, rotateRoundRobin(w)
  PROVE  RotaInv'
<1> USE DEF RotaInv
<1>1. PICK order \in Orders :
        req' = [v \in Workers |->
                  IF v = w THEN Request(order, Lead, FALSE, \A u \in Workers : ~req[u].on)
                  ELSE IF req[v].on THEN [req[v] EXCEPT !.alone = FALSE] ELSE Idle]
  BY DEF rotateRoundRobin
<1>2. /\ UNCHANGED <<rr, served, streak>> /\ Lead' = Lead
      /\ req \in [Workers -> {Idle} \cup Asking] /\ ~req[w].on
  BY DEF rotateRoundRobin, rr, Lead, RotaTypes
<1>3. order \in [Indices -> Indices] /\ Lead \in Indices
  BY LeadIsLeg, RoundRobinAssumption
<1>4. ASSUME NEW v \in Workers
      PROVE  req'[v] \in {Idle} \cup Asking
  <2>1. CASE v = w
    BY <1>1, <1>3, <2>1 DEF Request, Asking
  <2>2. CASE v # w /\ req[v].on
    <3>1. req[v] \in Asking
      BY <1>2, <2>2 DEF Idle
    <3>2. [req[v] EXCEPT !.alone = FALSE] \in Asking
      BY <3>1 DEF Asking
    <3> QED
      BY <1>1, <2>2, <3>2
  <2>3. CASE v # w /\ ~req[v].on
    BY <1>1, <2>3
  <2> QED
    BY <2>1, <2>2, <2>3
<1>5. req' \in [Workers -> {Idle} \cup Asking]
  BY <1>1, <1>4
<1>6. ASSUME NEW v \in Workers, req'[v].on, req'[v].alone
      PROVE  req'[v].lead = Lead' /\ \A u \in Workers : req'[u].on => u = v
  <2>1. v = w
    <3> SUFFICES ASSUME v # w PROVE FALSE
      OBVIOUS
    <3>1. CASE req[v].on
      <4>1. req[v] \in Asking
        BY <1>2, <3>1 DEF Idle
      <4> QED
        BY <1>1, <1>6, <3>1, <4>1 DEF Asking
    <3>2. CASE ~req[v].on
      BY <1>1, <1>6, <3>2 DEF Idle
    <3> QED
      BY <3>1, <3>2
  <2>2. req'[w] = Request(order, Lead, FALSE, \A u \in Workers : ~req[u].on)
    BY <1>1
  <2>3. \A u \in Workers : ~req[u].on
    BY <1>6, <2>1, <2>2 DEF Request
  <2>4. \A u \in Workers : u # w => req'[u] = Idle
    BY <1>1, <2>3
  <2> QED
    BY <1>2, <2>1, <2>2, <2>4 DEF Request, Idle
<1> QED
  BY <1>2, <1>5, <1>6, UnbookedStep DEF Alone

\* A request that ends or is replayed without having been served.
LEMMA UnservedStep ==
  ASSUME RotaInv, NEW w \in Workers, Exhausted(w) \/ Replay(w)
  PROVE  RotaInv'
<1> USE DEF RotaInv
<1>1. /\ UNCHANGED <<rr, served, streak>> /\ Lead' = Lead /\ Lead \in Indices
      /\ req \in [Workers -> {Idle} \cup Asking] /\ req[w].on
  BY LeadIsLeg DEF Exhausted, Replay, rr, Lead, RotaTypes
<1>2. \E q \in {Idle} \cup Asking : req' = [req EXCEPT ![w] = q] /\ (q.on => ~q.alone)
  <2>1. CASE Exhausted(w)
    <3>1. req' = [req EXCEPT ![w] = Idle] /\ ~Idle.on
      BY <2>1 DEF Exhausted, Idle
    <3> QED
      BY <3>1
  <2>2. CASE Replay(w)
    <3> DEFINE moved == [j \in Indices |-> At(req[w].order, req[w].lead, j)]
    <3>1. PICK order \in Orders :
            req' = [req EXCEPT ![w] = Request([j \in Indices |-> moved[order[j]]], Lead, TRUE, FALSE)]
      BY <2>2 DEF Replay
    <3>2. req[w].order \in [Indices -> Indices] /\ req[w].lead \in Indices
      <4>1. req[w] \in Asking
        BY <1>1 DEF Idle
      <4> QED
        BY <4>1 DEF Asking
    <3>3. \A j \in Indices : (j + req[w].lead) % N \in Indices
      BY <3>2, RoundRobinAssumption DEF Indices
    <3>4. moved \in [Indices -> Indices]
      BY <3>2, <3>3 DEF At
    <3>5. order \in [Indices -> Indices]
      BY RoundRobinAssumption
    <3>6. [j \in Indices |-> moved[order[j]]] \in [Indices -> Indices]
      BY <3>4, <3>5
    <3> DEFINE list == [j \in Indices |-> moved[order[j]]]
    <3> HIDE DEF moved, list
    <3>7. /\ Request(list, Lead, TRUE, FALSE) \in Asking
          /\ ~Request(list, Lead, TRUE, FALSE).alone
      BY <1>1, <3>6 DEF Request, Asking, list
    <3> QED
      BY <3>1, <3>7 DEF list
  <2> QED
    BY <2>1, <2>2
<1>3. PICK q \in {Idle} \cup Asking : req' = [req EXCEPT ![w] = q] /\ (q.on => ~q.alone)
  BY <1>2
<1>4. req' \in [Workers -> {Idle} \cup Asking]
  BY <1>1, <1>3
<1>5. Alone'
  BY <1>1, <1>3 DEF Alone
<1> QED
  BY <1>1, <1>4, <1>5, UnbookedStep

\* A leg served: what is booked is what the next request will lead with.
LEMMA ServedStep ==
  ASSUME RotaInv, NEW w \in Workers, NEW idx \in Indices, recordRRSuccess(w, idx)
  PROVE  RotaInv'
<1> USE RoundRobinAssumption DEF RotaInv
<1> DEFINE q == req[w]
           orig == Original(idx, q.lead)
           n == IF idx = 0 /\ winner = orig THEN run + 1 ELSE 1
           target == At(q.order, q.lead, idx)
           own == q.alone /\ q.order = Configured /\ idx = 0
<1>1. /\ q.on
      /\ \/ /\ RunLeft(n)
            /\ winner' = orig /\ run' = n /\ counter' = counter
            /\ served' = IF q.order = Configured THEN target ELSE Nobody
         \/ /\ ~RunLeft(n)
            /\ winner' = -1 /\ run' = 0 /\ counter' = AfterRun(orig)
            /\ served' = Nobody
      /\ req' = [req EXCEPT ![w] = Idle]
      /\ streak' = IF own
                   THEN [of |-> target, n |-> IF streak.of = target THEN streak.n + 1 ELSE 1]
                   ELSE NoStreak
  BY DEF recordRRSuccess
<1>2. /\ counter \in Nat /\ run \in Nat /\ run < Limit /\ winner \in -1 .. (N - 1)
      /\ N \in Nat /\ N > 1 /\ Limit \in Nat \ {0} /\ streak \in [of : -1 .. (N - 1), n : Nat]
      /\ req \in [Workers -> {Idle} \cup Asking] /\ counter <= N
      /\ winner = -1 <=> run = 0
  BY DEF RotaTypes, RotaTypeOK
<1>3. q \in Asking
  BY <1>1, <1>2 DEF Idle
<1>4. q.order \in [Indices -> Indices] /\ q.lead \in 0 .. (N - 1) /\ idx \in 0 .. (N - 1)
  BY <1>3 DEF Asking, Indices
<1>5. orig \in 0 .. (N - 1) /\ target \in 0 .. (N - 1) /\ target = q.order[orig]
  <2> HIDE DEF q
  <2>1. orig \in 0 .. (N - 1)
    BY <1>2, <1>4 DEF Original
  <2>2. target = q.order[orig]
    BY DEF At, Original
  <2> HIDE DEF orig, target
  <2> QED
    BY <1>4, <2>1, <2>2 DEF Indices
<1>6. q.order = Configured => target = orig
  BY <1>2, <1>4, <1>5 DEF Configured, Indices
<1>7. idx = 0 => orig = q.lead
  BY <1>2, <1>4 DEF Original
<1>8. n \in Nat \ {0} /\ n <= Limit
  BY <1>2
<1>9. idx = 0 /\ winner = orig => n = run + 1
  OBVIOUS
<1>10. own => q.alone /\ q.order = Configured /\ idx = 0
  OBVIOUS
<1> HIDE DEF q, orig, n, target, own
<1>11. RotaTypes'
  <2>1. counter' \in Nat /\ run' \in Nat
    BY <1>1, <1>2, <1>5, <1>8 DEF AfterRun
  <2>2. req' \in [Workers -> {Idle} \cup Asking]
    BY <1>1, <1>2
  <2>3. streak' \in [of : -1 .. (N - 1), n : Nat]
    BY <1>1, <1>2, <1>5 DEF NoStreak, Nobody
  <2> QED
    BY <2>1, <2>2, <2>3 DEF RotaTypes
<1>12. RotaTypeOK'
  <2>1. counter' \in 0 .. N /\ winner' \in -1 .. (N - 1)
    BY <1>1, <1>2, <1>5 DEF AfterRun
  <2>2. run' \in 0 .. (Limit - 1) /\ (winner' = -1 <=> run' = 0)
    BY <1>1, <1>2, <1>5, <1>8 DEF RunLeft
  <2>3. served' \in -1 .. (N - 1)
    BY <1>1, <1>2, <1>5 DEF Nobody
  <2>4. streak'.of \in -1 .. (N - 1)
    BY <1>11 DEF RotaTypes
  <2> QED
    BY <2>1, <2>2, <2>3, <2>4 DEF RotaTypeOK
<1>13. StickyServes'
  <2> SUFFICES ASSUME served' # Nobody PROVE Lead' = served'
    BY DEF StickyServes
  <2>1. winner' = orig /\ run' = n /\ RunLeft(n) /\ served' = orig
    BY <1>1, <1>6
  <2> QED
    BY <1>2, <1>5, <1>8, <2>1 DEF Lead, RunLeft
<1>14. Alone'
  <2>1. \A v \in Workers : req'[v].on => v # w /\ req'[v] = req[v]
    BY <1>1, <1>2 DEF Idle
  <2>2. \A v \in Workers : req[v].on /\ req[v].alone => \A u \in Workers : req[u].on => u = v
    BY DEF Alone
  <2>3. req[w].on
    BY <1>1 DEF q
  <2> QED
    BY <2>1, <2>2, <2>3 DEF Alone
<1>15. InRun'
  <2>1. CASE ~own
    <3>1. streak'.of = Nobody /\ streak'.n = 0
      BY <1>1, <2>1 DEF NoStreak
    <3> QED
      BY <1>2, <3>1 DEF InRun
  <2>2. CASE own
    <3>1. q.lead = Lead /\ target = orig /\ orig = q.lead /\ idx = 0
      BY <1>1, <1>6, <1>7, <1>10, <2>2 DEF Alone, q
    <3>2. streak'.of = orig /\ streak'.n = IF streak.of = orig THEN streak.n + 1 ELSE 1
      BY <1>1, <2>2, <3>1
    <3>3. streak.of = orig => winner = orig /\ streak.n <= run
      <4>1. SUFFICES ASSUME streak.of = orig, winner = -1, counter = orig + 1 PROVE FALSE
        BY <1>5 DEF InRun, Nobody
      <4>2. \A t \in Indices : winner = -1 /\ counter = t + 1 => Lead # t
        BY LeadIsLeg
      <4> QED
        BY <1>5, <3>1, <4>1, <4>2 DEF Indices
    <3>4. streak'.n <= n
      BY <1>2, <1>8, <1>9, <3>1, <3>2, <3>3
    <3>5. streak'.n \in Nat /\ streak'.n <= Limit
      BY <1>2, <1>8, <1>11, <3>4 DEF RotaTypes
    <3>6. CASE RunLeft(n)
      BY <1>1, <3>2, <3>4, <3>5, <3>6 DEF InRun
    <3>7. CASE ~RunLeft(n)
      BY <1>1, <3>2, <3>5, <3>7 DEF InRun, AfterRun
    <3> QED
      BY <3>6, <3>7
  <2> QED
    BY <2>1, <2>2
<1> QED
  BY <1>11, <1>12, <1>13, <1>14, <1>15

LEMMA InitRota == RotaInit => RotaInv
<1> SUFFICES ASSUME RotaInit PROVE RotaInv
  OBVIOUS
<1> USE RoundRobinAssumption
<1>1. /\ counter = 0 /\ winner = -1 /\ run = 0 /\ served = -1
      /\ streak = [of |-> -1, n |-> 0] /\ \A w \in Workers : req[w] = Idle
      /\ req \in [Workers -> {Idle}]
  BY DEF RotaInit, NoStreak, Nobody
<1>2. RotaTypes
  BY <1>1 DEF RotaTypes
<1>3. RotaTypeOK /\ StickyServes /\ InRun
  BY <1>1 DEF RotaTypeOK, StickyServes, InRun, Nobody
<1>4. Alone
  BY <1>1 DEF Alone, Idle
<1> QED
  BY <1>2, <1>3, <1>4 DEF RotaInv

LEMMA StepRota == RotaInv /\ [RotaNext]_rotaVars => RotaInv'
<1> SUFFICES ASSUME RotaInv, [RotaNext]_rotaVars PROVE RotaInv'
  OBVIOUS
<1>1. CASE UNCHANGED rotaVars
  <2>1. UNCHANGED <<rr, served, streak>> /\ req' = req /\ Lead' = Lead
    BY <1>1 DEF rotaVars, rr, Lead
  <2>2. req' \in [Workers -> {Idle} \cup Asking]
    BY <2>1 DEF RotaInv, RotaTypes
  <2>3. Alone'
    BY <2>1 DEF RotaInv, Alone
  <2> QED
    BY <2>1, <2>2, <2>3, UnbookedStep
<1> QED
  BY <1>1, RotateStep, ServedStep, UnservedStep DEF RotaNext

(* For every combo, run length and number of requests in flight: mid-run   *)
(* the leg that served leads next, and no leg leads and serves more than a *)
(* run of requests in a row (rotateRoundRobin, recordRRSuccess).           *)
THEOREM RunsRotate == RotaSpec => []Rotates
<1>1. RotaInv => Rotates
  BY DEF RotaInv, Rotates, InRun, RunEnds
<1> QED
  BY <1>1, InitRota, StepRota, PTL DEF RotaSpec
-----------------------------------------------------------------------------
(* The entries of the idempotency cache.  What some of them store is a set *)
(* of cells, so that a sum over entries is a cardinality.                  *)
Stored(ents, ks) == UNION {{k} \X (1 .. SizeOf(ents[k])) : k \in ks}

Sizes(ents) == \A k \in Keys : SizeOf(ents[k]) \in Nat

\* What some entries store is finite.
LEMMA FreedNat ==
  ASSUME NEW ents, Sizes(ents), NEW ks \in SUBSET Keys
  PROVE  /\ IsFiniteSet(Stored(ents, ks)) /\ Freed(ents, ks) = Cardinality(Stored(ents, ks))
         /\ Freed(ents, ks) \in Nat
<1> DEFINE slab(k) == {k} \X (1 .. SizeOf(ents[k]))
           T == {slab(k) : k \in ks}
           s == [k \in ks |-> slab(k)]
<1>1. IsFiniteSet(ks)
  BY CacheAssumption, FS_Subset
<1>2. s \in Surjection(ks, T)
  BY DEF Surjection
<1>3. IsFiniteSet(T)
  BY <1>1, <1>2, FS_Surjection
<1>4. ASSUME NEW k \in ks PROVE IsFiniteSet(slab(k))
  <2>1. 1 \in Int /\ SizeOf(ents[k]) \in Int
    BY DEF Sizes
  <2>2. IsFiniteSet(1 .. SizeOf(ents[k]))
    BY <2>1, FS_Interval, Zenon
  <2>3. IsFiniteSet({k})
    BY FS_Singleton
  <2> QED BY <2>2, <2>3, FS_Product
<1>5. \A S \in T : IsFiniteSet(S)
  BY <1>4
<1>6. Stored(ents, ks) = UNION T
  BY DEF Stored
<1> HIDE DEF T
<1>7. IsFiniteSet(Stored(ents, ks))
  BY <1>3, <1>5, <1>6, FS_UNION
<1> QED
  BY <1>7, FS_CardinalityType DEF Freed, Stored

LEMMA FreedOne ==
  ASSUME NEW ents, Sizes(ents), NEW k \in Keys
  PROVE  Freed(ents, {k}) = SizeOf(ents[k])
<1>1. Freed(ents, {k}) = Cardinality({k} \X (1 .. SizeOf(ents[k])))
  BY DEF Freed
<1>2. 1 \in Int /\ SizeOf(ents[k]) \in Nat /\ SizeOf(ents[k]) \in Int
  BY DEF Sizes
<1>3. /\ IsFiniteSet(1 .. SizeOf(ents[k]))
      /\ Cardinality(1 .. SizeOf(ents[k])) = IF 1 > SizeOf(ents[k]) THEN 0 ELSE SizeOf(ents[k]) - 1 + 1
  BY <1>2, FS_Interval, Zenon
<1>4. IsFiniteSet({k}) /\ Cardinality({k}) = 1
  BY FS_Singleton
<1>5. Cardinality({k} \X (1 .. SizeOf(ents[k]))) = Cardinality({k}) * Cardinality(1 .. SizeOf(ents[k]))
  BY <1>3, <1>4, FS_Product
<1>6. Cardinality(1 .. SizeOf(ents[k])) = SizeOf(ents[k])
  BY <1>2, <1>3
<1> QED
  BY <1>1, <1>2, <1>4, <1>5, <1>6

LEMMA FreedSplit ==
  ASSUME NEW ents, Sizes(ents), NEW A \in SUBSET Keys, NEW B \in SUBSET Keys, A \cap B = {}
  PROVE  Freed(ents, A \cup B) = Freed(ents, A) + Freed(ents, B)
<1>1. /\ IsFiniteSet(Stored(ents, A)) /\ Freed(ents, A) = Cardinality(Stored(ents, A))
      /\ IsFiniteSet(Stored(ents, B)) /\ Freed(ents, B) = Cardinality(Stored(ents, B))
      /\ Freed(ents, A \cup B) = Cardinality(Stored(ents, A \cup B))
      /\ Freed(ents, A) \in Nat /\ Freed(ents, B) \in Nat
  <2>1. A \cup B \in SUBSET Keys
    OBVIOUS
  <2> QED BY <2>1, FreedNat
<1>2. Stored(ents, A \cup B) = Stored(ents, A) \cup Stored(ents, B)
  BY DEF Stored
<1>3. Stored(ents, A) \cap Stored(ents, B) = {}
  <2> SUFFICES ASSUME NEW c \in Stored(ents, A), c \in Stored(ents, B) PROVE FALSE
    OBVIOUS
  <2>1. PICK k \in A : c \in {k} \X (1 .. SizeOf(ents[k]))
    BY DEF Stored
  <2>2. PICK l \in B : c \in {l} \X (1 .. SizeOf(ents[l]))
    BY DEF Stored
  <2>3. c[1] = k /\ c[1] = l
    BY <2>1, <2>2
  <2> QED BY <2>3
<1>4. /\ Cardinality(Stored(ents, A) \cup Stored(ents, B))
           = Cardinality(Stored(ents, A)) + Cardinality(Stored(ents, B))
               - Cardinality(Stored(ents, A) \cap Stored(ents, B))
      /\ Cardinality(Stored(ents, A) \cap Stored(ents, B)) = 0
  BY <1>1, <1>3, FS_Union, FS_EmptySet
<1>5. Cardinality(Stored(ents, A \cup B)) = Cardinality(Stored(ents, A) \cup Stored(ents, B))
  BY <1>2
<1>6. ASSUME NEW a \in Nat, NEW b \in Nat, NEW u, NEW z, u = a + b - z, z = 0 PROVE u = a + b
  BY <1>6
<1> QED
  BY <1>1, <1>4, <1>5, <1>6

LEMMA FreedSame ==
  ASSUME NEW e, NEW f, NEW ks, \A k \in ks : SizeOf(e[k]) = SizeOf(f[k])
  PROVE  Freed(e, ks) = Freed(f, ks)
<1>1. {{k} \X (1 .. SizeOf(e[k])) : k \in ks} = {{k} \X (1 .. SizeOf(f[k])) : k \in ks}
  OBVIOUS
<1> QED
  BY <1>1 DEF Freed

LEMMA FreedNone ==
  ASSUME NEW ents, NEW ks, \A k \in ks : SizeOf(ents[k]) = 0
  PROVE  Freed(ents, ks) = 0
<1>1. 1 .. 0 = {}
  OBVIOUS
<1>2. Stored(ents, ks) = {}
  BY <1>1 DEF Stored
<1> QED
  BY <1>2, FS_EmptySet DEF Freed, Stored

\* One entry is replaced.
LEMMA FreedAt ==
  ASSUME NEW e, NEW f, Sizes(e), Sizes(f), NEW k \in Keys,
         \A l \in Keys : l # k => SizeOf(e[l]) = SizeOf(f[l])
  PROVE  Freed(f, Keys) = Freed(e, Keys) - SizeOf(e[k]) + SizeOf(f[k])
<1> DEFINE R == Keys \ {k}
<1>1. R \in SUBSET Keys /\ {k} \in SUBSET Keys /\ R \cap {k} = {} /\ R \cup {k} = Keys
  OBVIOUS
<1>2. Freed(e, R) = Freed(f, R) /\ Freed(e, R) \in Nat
  BY <1>1, FreedSame, FreedNat
<1>3. Freed(e, Keys) = Freed(e, R) + Freed(e, {k}) /\ Freed(f, Keys) = Freed(f, R) + Freed(f, {k})
  <2> HIDE DEF R
  <2>1. Freed(e, R \cup {k}) = Freed(e, R) + Freed(e, {k})
    BY <1>1, FreedSplit
  <2>2. Freed(f, R \cup {k}) = Freed(f, R) + Freed(f, {k})
    BY <1>1, FreedSplit
  <2> QED BY <1>1, <2>1, <2>2
<1>4. Freed(e, {k}) = SizeOf(e[k]) /\ Freed(f, {k}) = SizeOf(f[k]) /\ SizeOf(e[k]) \in Nat /\ SizeOf(f[k]) \in Nat
  BY FreedOne DEF Sizes
<1> HIDE DEF R
<1> QED
  BY <1>2, <1>3, <1>4

\* Some entries go.
LEMMA FreedWithout ==
  ASSUME NEW ents, Sizes(ents), NEW ks \in SUBSET Keys
  PROVE  /\ Sizes(Without(ents, ks))
         /\ Freed(Without(ents, ks), Keys) = Freed(ents, Keys) - Freed(ents, ks)
         /\ Freed(ents, Keys) \in Nat /\ Freed(ents, ks) \in Nat
<1> DEFINE R == Keys \ ks  w == Without(ents, ks)
<1>1. R \in SUBSET Keys /\ R \cap ks = {} /\ R \cup ks = Keys
  OBVIOUS
<1>2. SizeOf(Vacant) = 0
  BY DEF SizeOf, Vacant
<1>3. \A k \in Keys : w[k] = IF k \in ks THEN Vacant ELSE ents[k]
  BY DEF Without
<1> HIDE DEF w
<1>4. Sizes(w) /\ (\A k \in ks : SizeOf(w[k]) = 0) /\ \A k \in R : SizeOf(w[k]) = SizeOf(ents[k])
  BY <1>2, <1>3 DEF Sizes
<1> HIDE DEF R
<1>5. Freed(w, ks) = 0 /\ Freed(w, R) = Freed(ents, R)
  BY <1>4, FreedNone, FreedSame
<1>6. Freed(w, R \cup ks) = Freed(w, R) + Freed(w, ks) /\ Freed(ents, R \cup ks) = Freed(ents, R) + Freed(ents, ks)
  BY <1>1, <1>4, FreedSplit
<1>7. Freed(ents, R) \in Nat /\ Freed(ents, ks) \in Nat
  BY <1>1, FreedNat
<1>8. Freed(w, Keys) = Freed(ents, Keys) - Freed(ents, ks) /\ Freed(ents, Keys) \in Nat
  BY <1>1, <1>5, <1>6, <1>7
<1> QED
  BY <1>4, <1>7, <1>8 DEF w

LEMMA FreedLess ==
  ASSUME NEW ents, Sizes(ents), NEW A, NEW B \in SUBSET Keys, A \subseteq B
  PROVE  Freed(ents, A) <= Freed(ents, B)
<1>1. /\ IsFiniteSet(Stored(ents, B)) /\ Freed(ents, B) = Cardinality(Stored(ents, B))
      /\ Freed(ents, A) = Cardinality(Stored(ents, A))
  BY FreedNat
<1>2. Stored(ents, A) \subseteq Stored(ents, B)
  BY DEF Stored
<1> QED
  BY <1>1, <1>2, FS_Subset

\* The list orders the live entries.
Lined(order, live) ==
  /\ live \subseteq Keys /\ order \subseteq live \X live
  /\ \A k \in Keys : <<k, k>> \notin order
  /\ \A k, l \in live : k # l => <<k, l>> \in order \/ <<l, k>> \in order
  /\ \A k, l, m \in Keys : <<k, l>> \in order /\ <<l, m>> \in order => <<k, m>> \in order

LEMMA DroppedLined ==
  ASSUME NEW order, NEW live, Lined(order, live), NEW ks
  PROVE  Lined(Dropped(order, ks), live \ ks)
<1>1. \A k, l : <<k, l>> \in Dropped(order, ks) <=> <<k, l>> \in order /\ k \notin ks /\ l \notin ks
  BY DEF Dropped
<1>2. Dropped(order, ks) \subseteq (live \ ks) \X (live \ ks)
  <2>1. ASSUME NEW p \in Dropped(order, ks) PROVE p \in (live \ ks) \X (live \ ks)
    <3>1. p \in live \X live /\ p[1] \notin ks /\ p[2] \notin ks
      BY DEF Dropped, Lined
    <3> QED BY <3>1
  <2> QED BY <2>1
<1> QED
  BY <1>1, <1>2 DEF Lined

LEMMA FrontLined ==
  ASSUME NEW order, NEW live, Lined(order, live), NEW k \in Keys
  PROVE  Lined(InFront(order, k, live), live \cup {k})
<1> DEFINE f == InFront(order, k, live)
<1>1. Lined(Dropped(order, {k}), live \ {k})
  BY DroppedLined
<1>2. \A a, b : <<a, b>> \in f <=> \/ <<a, b>> \in order /\ a # k /\ b # k
                                   \/ a = k /\ b \in live \ {k}
  BY DEF InFront, Dropped
<1>3. f \subseteq (live \cup {k}) \X (live \cup {k})
  <2>1. \A p \in f : p \in (live \cup {k}) \X (live \cup {k})
    BY <1>1 DEF InFront, Lined
  <2> QED BY <2>1
<1> HIDE DEF f
<1>4. \A a, b : <<a, b>> \in order => a \in live /\ b \in live
  BY DEF Lined
<1>5. \A a \in Keys : <<a, a>> \notin f
  BY <1>2 DEF Lined
<1>6. \A a, b \in live \cup {k} : a # b => <<a, b>> \in f \/ <<b, a>> \in f
  BY <1>2 DEF Lined
<1>7. \A a, b, c \in Keys : <<a, b>> \in f /\ <<b, c>> \in f => <<a, c>> \in f
  BY <1>2, <1>4 DEF Lined
<1> QED
  BY <1>3, <1>5, <1>6, <1>7 DEF Lined, f

DoneKeys(ents) == {k \in Keys : ents[k].st = "done"}

\* A number is the least of its kind somewhere.
LEMMA LeastOf ==
  ASSUME NEW S, S # {}, NEW f \in [S -> Nat]
  PROVE  \E x \in S : \A y \in S : f[x] <= f[y]
<1> DEFINE V == {f[x] : x \in S}
<1>1. V \subseteq Nat /\ V # {}
  OBVIOUS
<1>2. \A n \in V : \E x \in S : f[x] = n
  OBVIOUS
<1>3. \A x \in S : f[x] \in V
  OBVIOUS
<1> HIDE DEF V
<1>4. PICK n \in V : \A m \in V : ~(<<m, n>> \in OpToRel(<, Nat))
  BY <1>1, NatLessThanWellFounded, WFMin
<1>5. ASSUME NEW m \in V PROVE n <= m
  <2>1. m \in Nat /\ n \in Nat
    BY <1>1
  <2>2. ASSUME m < n PROVE FALSE
    <3>1. <<m, n>> \in Nat \X Nat /\ <<m, n>>[1] < <<m, n>>[2]
      BY <2>1, <2>2
    <3>2. <<m, n>> \in OpToRel(<, Nat)
      BY <3>1, Zenon DEF OpToRel
    <3> QED BY <1>4, <3>2
  <2> QED BY <2>1, <2>2
<1> QED
  BY <1>2, <1>3, <1>5

(* enforce ends within both caps or with nothing left that may go.         *)
LEMMA Enforced ==
  ASSUME NEW ents, Sizes(ents), NEW order, Lined(order, Live(ents)), NEW size \in Nat
  PROVE  LET vs == Victims(ents, order, size)
         IN  /\ vs \subseteq Evictable(ents) /\ vs \subseteq Live(ents)
             /\ \/ Evictable(ents) \subseteq vs
                \/ WithinCaps(Cardinality(Live(ents)) - Cardinality(vs), size - Freed(ents, vs))
<1> DEFINE vs == Victims(ents, order, size)
           old == Evictable(ents)
           live == Live(ents)
           Before(k) == {l \in old : <<k, l>> \in order}
           FitsBefore(k) == WithinCaps(Cardinality(live) - Cardinality(Before(k)), size - Freed(ents, Before(k)))
<1>1. vs = {k \in old : ~FitsBefore(k)}
  BY DEF Victims
<1>2. old \subseteq live /\ live \subseteq Keys
  BY DEF Evictable, Live
<1> SUFFICES ASSUME ~(old \subseteq vs)
             PROVE  WithinCaps(Cardinality(live) - Cardinality(vs), size - Freed(ents, vs))
  BY <1>1, <1>2
<1> DEFINE rest == old \ vs
           rank == [k \in rest |-> Cardinality(Before(k))]
<1>3. IsFiniteSet(live) /\ IsFiniteSet(vs) /\ \A k : IsFiniteSet(Before(k))
  BY <1>1, <1>2, CacheAssumption, FS_Subset
<1>4. rank \in [rest -> Nat]
  BY <1>3, FS_CardinalityType
<1>5. PICK k \in rest : \A l \in rest : rank[k] <= rank[l]
  <2>1. rest # {}
    OBVIOUS
  <2> HIDE DEF rest, rank
  <2> QED BY <1>4, <2>1, LeastOf
<1>6. Before(k) \subseteq vs
  <2> SUFFICES ASSUME NEW l \in Before(k), l \notin vs PROVE FALSE
    OBVIOUS
  <2>1. l \in rest /\ k \in Keys /\ l \in Keys /\ <<k, l>> \in order
    BY <1>2
  <2>2. Before(l) \subseteq Before(k) \ {l}
    <3>1. ASSUME NEW m \in Before(l) PROVE m \in Before(k) /\ m # l
      <4>1. m \in Keys /\ <<l, m>> \in order
        BY <1>2
      <4> QED BY <2>1, <4>1 DEF Lined
    <3> QED BY <3>1
  <2>3. Cardinality(Before(l)) < Cardinality(Before(k))
    <3>1. Before(l) \subseteq Before(k) /\ Before(l) # Before(k)
      BY <2>2
    <3>2. Cardinality(Before(l)) <= Cardinality(Before(k)) /\ Cardinality(Before(l)) # Cardinality(Before(k))
      BY <1>3, <3>1, FS_Subset
    <3>3. Cardinality(Before(l)) \in Nat /\ Cardinality(Before(k)) \in Nat
      BY <1>3, FS_CardinalityType
    <3> QED BY <3>2, <3>3
  <2>4. rank[l] < rank[k]
    BY <2>1, <2>3
  <2>5. rank[k] <= rank[l] /\ rank[k] \in Nat /\ rank[l] \in Nat
    BY <1>4, <1>5, <2>1
  <2> QED BY <2>4, <2>5
<1>7. FitsBefore(k)
  BY <1>1
<1>8. /\ Cardinality(Before(k)) \in Nat /\ Cardinality(vs) \in Nat /\ Cardinality(live) \in Nat
      /\ Cardinality(Before(k)) <= Cardinality(vs)
  BY <1>3, <1>6, FS_Subset, FS_CardinalityType
<1>9. /\ Freed(ents, Before(k)) \in Nat /\ Freed(ents, vs) \in Nat
      /\ Freed(ents, Before(k)) <= Freed(ents, vs)
  <2>1. vs \in SUBSET Keys /\ Before(k) \in SUBSET Keys
    BY <1>1, <1>2
  <2> QED BY <1>6, <2>1, FreedNat, FreedLess
<1>10. Cap \in Nat /\ TotalBodyBudget \in Nat
  BY CacheAssumption
<1> HIDE DEF vs, live, Before
<1> QED
  BY <1>7, <1>8, <1>9, <1>10 DEF WithinCaps

Results == {Gone} \cup {Body(r, s) : r \in Callers, s \in RecordSizes} \cup {Stream(r) : r \in Callers}

Entries == [st : {"none", "flight", "done"}, created : Nat, origin : Callers \cup {None},
            res : Results \cup {None}, waiters : SUBSET Waiters]

CacheTypes ==
  /\ now \in 1 .. MaxTime /\ items \in [Keys -> Entries]
  /\ \A k \in Keys : items[k].st = "done" => items[k].res \in Results
  /\ claim \in [Callers -> {"new", "origin", "wait", "bare", "done"}]
  /\ key \in [Callers -> Keys] /\ round \in [Callers -> 1 .. 2]
  /\ began \in [Callers -> Nat] /\ \A r \in Callers : began[r] <= now
  /\ DOMAIN ch = Waiters /\ intruded \in BOOLEAN

\* Nothing was sent to w, and no entry knows it.
Blank(w) == ch[w] = <<>> /\ \A k \in Keys : w \notin items[k].waiters

(* A waiter stands on one entry in flight, of its key, and was sent        *)
(* nothing; the claim a request makes next finds its channel unused.       *)
Mail ==
  /\ \A k \in Keys : \A w \in items[k].waiters :
        items[k].st = "flight" /\ key[w[1]] = k /\ ch[w] = <<>>
  /\ \A r \in Callers : /\ claim[r] = "new" => Blank(<<r, round[r]>>)
                        /\ round[r] = 1 => Blank(<<r, 2>>)
  /\ \A w \in Waiters : ch[w] = <<>> \/ \E x : ch[w] = <<x>>
  /\ NoStranded

Book ==
  /\ Lined(ll, Live(items)) /\ bytes = Freed(items, Keys) /\ bytes <= TotalBodyBudget
  /\ Cardinality(DoneKeys(items)) <= Cap

(* An entry in flight is its origin's, who is running; and as long as no   *)
(* stranger settled an entry, an origin within the TTL has its own.        *)
Runs ==
  /\ \A k \in Keys : items[k].st = "flight" =>
        /\ items[k].origin \in Callers /\ claim[items[k].origin] = "origin"
        /\ key[items[k].origin] = k /\ items[k].created = began[items[k].origin]
  /\ \A r \in Callers : ~intruded /\ claim[r] = "origin" /\ ~(now - began[r] > Ttl) =>
        items[key[r]].st = "flight" /\ items[key[r]].origin = r
  /\ Coalesced

CacheInv == CacheTypes /\ Mail /\ Book /\ Runs

LEMMA SizeOfEntry ==
  ASSUME NEW e \in Entries, e.st = "done" => e.res \in Results
  PROVE  SizeOf(e) \in 0 .. TotalBodyBudget /\ SizeOf(e) \in Nat /\ (e.st # "done" => SizeOf(e) = 0)
<1>1. TotalBodyBudget \in Nat /\ RecordSizes \subseteq 0 .. TotalBodyBudget
  BY CacheAssumption
<1>2. CASE e.st # "done"
  BY <1>1, <1>2 DEF SizeOf
<1>3. CASE e.st = "done"
  <2>1. CASE e.res.kind # "body"
    BY <1>1, <2>1 DEF SizeOf
  <2>2. CASE e.res.kind = "body"
    <3>1. e.res # Gone /\ \A r \in Callers : e.res # Stream(r)
      BY <2>2 DEF Gone, Stream
    <3>2. PICK r \in Callers, s \in RecordSizes : e.res = Body(r, s)
      BY <1>3, <3>1 DEF Results
    <3>3. e.res.size = s
      BY <3>2 DEF Body
    <3> QED BY <1>1, <1>3, <2>2, <3>3 DEF SizeOf
  <2> QED BY <2>1, <2>2
<1> QED
  BY <1>2, <1>3

LEMMA CacheSizes == ASSUME CacheTypes PROVE Sizes(items)
  BY SizeOfEntry DEF CacheTypes, Sizes

LEMMA WaiterIs ==
  /\ \A w \in Waiters : w[1] \in Callers /\ w[2] \in 1 .. 2 /\ w = <<w[1], w[2]>>
  /\ \A r \in Callers, n \in 1 .. 2 : <<r, n>> \in Waiters /\ <<r, n>>[1] = r /\ <<r, n>>[2] = n
  BY DEF Waiters

(* Those of W get one result and leave their entries; r starts or ends.    *)
LEMMA Woke ==
  ASSUME CacheTypes, Mail, NEW r \in Callers, NEW W \in SUBSET Waiters, UNCHANGED <<key, round>>,
         claim'[r] \notin {"new", "wait"}, \A q \in Callers : q # r => claim'[q] = claim[q],
         \A w \in W : (\E k \in Keys : w \in items[k].waiters) /\ \E x : ch'[w] = <<x>>,
         \A w \in Waiters \ W : ch'[w] = ch[w],
         \A k \in Keys : \/ items'[k].waiters = {} /\ items[k].waiters \subseteq W
                         \/ /\ items'[k].waiters = items[k].waiters /\ items'[k].st = items[k].st
                            /\ items[k].waiters \cap W = {}
  PROVE  Mail'
<1>1. \A k \in Keys : \A w \in items'[k].waiters :
        w \in items[k].waiters /\ items'[k].st = items[k].st /\ w \notin W
  OBVIOUS
<1>2. \A k \in Keys : items[k].waiters \subseteq Waiters
  BY DEF CacheTypes, Entries
<1>3. \A k \in Keys : \A w \in items'[k].waiters :
        items'[k].st = "flight" /\ key'[w[1]] = k /\ ch'[w] = <<>>
  BY <1>1, <1>2 DEF Mail
<1>4. \A w \in Waiters : Blank(w) => ch'[w] = <<>> /\ \A k \in Keys : w \notin items'[k].waiters
  BY <1>1 DEF Blank
<1>5. ASSUME NEW q \in Callers
      PROVE  /\ claim'[q] = "new" => /\ ch'[<<q, round[q]>>] = <<>>
                                     /\ \A k \in Keys : <<q, round[q]>> \notin items'[k].waiters
             /\ round[q] = 1 => ch'[<<q, 2>>] = <<>> /\ \A k \in Keys : <<q, 2>> \notin items'[k].waiters
  <2>1. round[q] \in 1 .. 2
    BY DEF CacheTypes
  <2>2. <<q, round[q]>> \in Waiters /\ <<q, 2>> \in Waiters
    BY <2>1 DEF Waiters
  <2>3. claim'[q] = "new" => claim[q] = "new"
    OBVIOUS
  <2> QED BY <1>4, <2>2, <2>3 DEF Mail
<1>6. \A w \in Waiters : ch'[w] = <<>> \/ \E x : ch'[w] = <<x>>
  BY DEF Mail
<1>7. NoStranded'
  <2> SUFFICES ASSUME NEW q \in Callers, claim'[q] = "wait", ch'[<<q, round[q]>>] = <<>>
               PROVE  \E k \in Keys : items'[k].st = "flight" /\ <<q, round[q]>> \in items'[k].waiters
    BY DEF NoStranded
  <2>1. <<q, round[q]>> \in Waiters /\ claim[q] = "wait"
    BY WaiterIs DEF CacheTypes
  <2>2. <<q, round[q]>> \notin W
    <3>1. \A x : <<x>> # <<>>
      OBVIOUS
    <3> QED BY <3>1
  <2>3. ch[<<q, round[q]>>] = <<>>
    BY <2>1, <2>2
  <2>4. PICK k \in Keys : items[k].st = "flight" /\ <<q, round[q]>> \in items[k].waiters
    BY <2>1, <2>3 DEF Mail, NoStranded
  <2> QED BY <2>2, <2>4
<1> QED
  BY <1>3, <1>5, <1>6, <1>7 DEF Mail, Blank

\* Nobody is woken.
LEMMA MailKept ==
  ASSUME CacheTypes, Mail, NEW r \in Callers, UNCHANGED <<items, ch, key, round>>,
         claim'[r] \notin {"new", "wait"}, \A q \in Callers : q # r => claim'[q] = claim[q]
  PROVE  Mail'
<1>1. \A k \in Keys : items'[k].waiters = items[k].waiters /\ items'[k].st = items[k].st
  OBVIOUS
<1>2. PICK W \in SUBSET Waiters : W = {}
  OBVIOUS
<1>3. /\ \A w \in W : (\E k \in Keys : w \in items[k].waiters) /\ \E x : ch'[w] = <<x>>
      /\ \A w \in Waiters \ W : ch'[w] = ch[w]
      /\ \A k \in Keys : items'[k].waiters = items[k].waiters /\ items'[k].st = items[k].st
                         /\ items[k].waiters \cap W = {}
  BY <1>1, <1>2
<1> QED
  BY <1>3, Woke

LEMMA FewerDone ==
  ASSUME NEW S, NEW T \in SUBSET Keys, S \subseteq T, Cardinality(T) <= Cap
  PROVE  Cardinality(S) <= Cap
<1>1. IsFiniteSet(T)
  BY CacheAssumption, FS_Subset
<1>2. IsFiniteSet(S) /\ Cardinality(S) <= Cardinality(T)
  BY <1>1, FS_Subset
<1>3. Cardinality(S) \in Nat /\ Cardinality(T) \in Nat /\ Cap \in Nat
  BY <1>1, <1>2, FS_CardinalityType, CacheAssumption
<1> QED
  BY <1>2, <1>3

LEMMA ClaimMissStep ==
  ASSUME CacheInv, NEW r \in Callers, claim[r] = "new", ClaimMiss(r), UNCHANGED <<now, key, round, intruded>>
  PROVE  CacheInv'
<1> DEFINE k == key[r]
           old == items[k]
           new == [st |-> "flight", created |-> now, origin |-> r, res |-> None, waiters |-> {}]
<1>1. /\ old.st = "none" \/ expired(old)
      /\ bytes' = bytes - SizeOf(old) /\ ll' = InFront(ll, k, Live(items))
  BY DEF ClaimMiss
<1>2. /\ ch' = Sent(ch, old.waiters, Gone) /\ items' = [items EXCEPT ![k] = new]
      /\ claim' = [claim EXCEPT ![r] = "origin"] /\ began' = [began EXCEPT ![r] = now]
  BY DEF ClaimMiss
<1>3. k \in Keys /\ now \in Nat /\ old \in Entries /\ new \in Entries
  BY DEF CacheInv, CacheTypes, Entries, Results
<1> HIDE DEF k, old, new
<1>4. items' \in [Keys -> Entries] /\ items'[k] = new /\ \A l \in Keys : l # k => items'[l] = items[l]
  BY <1>2, <1>3 DEF CacheInv, CacheTypes
<1>5. /\ claim'[r] = "origin" /\ \A q \in Callers : q # r => claim'[q] = claim[q]
      /\ began'[r] = now /\ \A q \in Callers : q # r => began'[q] = began[q]
      /\ claim' \in [Callers -> {"new", "origin", "wait", "bare", "done"}] /\ began' \in [Callers -> Nat]
  BY <1>2, <1>3 DEF CacheInv, CacheTypes
<1>6. new.st = "flight" /\ new.created = now /\ new.origin = r /\ new.waiters = {}
  BY DEF new
<1>7. CacheTypes'
  <2>1. DOMAIN ch' = Waiters
    BY <1>2 DEF Sent
  <2>2. \A l \in Keys : items'[l].st = "done" => items'[l].res \in Results
    BY <1>4, <1>6 DEF CacheInv, CacheTypes
  <2>3. \A q \in Callers : began'[q] <= now
    BY <1>3, <1>5 DEF CacheInv, CacheTypes
  <2> QED BY <1>4, <1>5, <2>1, <2>2, <2>3 DEF CacheInv, CacheTypes
<1>8. Mail'
  <2>1. PICK W \in SUBSET Waiters : W = old.waiters
    BY <1>3 DEF Entries
  <2>2. \A w \in W : w \in items[k].waiters /\ \E x : ch'[w] = <<x>>
    <3>1. \A w \in W : ch[w] = <<>> /\ ch'[w] = Append(ch[w], Gone)
      BY <1>2, <1>3, <2>1 DEF Sent, CacheInv, Mail, old
    <3>2. \A x : Append(<<>>, x) = <<x>>
      OBVIOUS
    <3> QED BY <2>1, <3>1, <3>2 DEF old
  <2>3. \A w \in Waiters \ W : ch'[w] = ch[w]
    BY <1>2, <2>1 DEF Sent
  <2>4. ASSUME NEW l \in Keys
        PROVE  \/ items'[l].waiters = {} /\ items[l].waiters \subseteq W
               \/ /\ items'[l].waiters = items[l].waiters /\ items'[l].st = items[l].st
                  /\ items[l].waiters \cap W = {}
    <3>1. CASE l = k
      BY <1>4, <1>6, <2>1, <3>1 DEF old
    <3>2. CASE l # k
      <4>1. items[l].waiters \cap W = {}
        BY <1>3, <2>1, <3>2 DEF CacheInv, Mail, old
      <4> QED BY <1>4, <3>2, <4>1
    <3> QED BY <3>1, <3>2
  <2> QED BY <1>3, <1>5, <2>2, <2>3, <2>4, Woke DEF CacheInv
<1>9. Book'
  <2>1. Lined(ll', Live(items'))
    <3>1. Live(items') = Live(items) \cup {k}
      BY <1>3, <1>4, <1>6 DEF Live
    <3>2. Lined(InFront(ll, k, Live(items)), Live(items) \cup {k})
      BY <1>3, FrontLined DEF CacheInv, Book
    <3> QED BY <1>1, <3>1, <3>2
  <2>2. Sizes(items) /\ Sizes(items') /\ SizeOf(items'[k]) = 0 /\ SizeOf(old) \in Nat
    <3>1. Sizes(items) /\ Sizes(items)'
      BY <1>7, CacheSizes, PTL DEF CacheInv
    <3>2. SizeOf(items'[k]) = 0
      BY <1>4, <1>6 DEF SizeOf
    <3> QED BY <1>3, <3>1, <3>2 DEF Sizes, old
  <2>3. Freed(items', Keys) = Freed(items, Keys) - SizeOf(old) + 0
    BY <1>3, <1>4, <2>2, FreedAt DEF old
  <2>4. Freed(items, Keys) \in Nat /\ Freed(items', Keys) \in Nat
    BY <2>2, FreedNat
  <2>5. bytes' = Freed(items', Keys) /\ bytes' <= TotalBodyBudget
    BY <1>1, <2>2, <2>3, <2>4, CacheAssumption DEF CacheInv, Book
  <2>6. Cardinality(DoneKeys(items')) <= Cap
    <3>1. DoneKeys(items') \subseteq DoneKeys(items) /\ DoneKeys(items) \subseteq Keys
      BY <1>4, <1>6 DEF DoneKeys
    <3> QED BY <3>1, FewerDone DEF CacheInv, Book
  <2> QED BY <2>1, <2>5, <2>6 DEF Book
<1>10. Runs'
  <2>1. \A q \in Callers : ~intruded /\ claim[q] = "origin" /\ key[q] = k => now - began[q] > Ttl
    <3> SUFFICES ASSUME NEW q \in Callers, ~intruded, claim[q] = "origin", key[q] = k, ~(now - began[q] > Ttl)
                 PROVE  FALSE
      OBVIOUS
    <3>1. old.st = "flight" /\ old.origin = q
      BY DEF CacheInv, Runs, old
    <3>2. old.created = began[q]
      BY <1>3, <3>1 DEF CacheInv, Runs, old
    <3> QED BY <1>1, <3>1, <3>2 DEF expired
  <2>2. \A l \in Keys : items'[l].st = "flight" =>
          /\ items'[l].origin \in Callers /\ claim'[items'[l].origin] = "origin"
          /\ key[items'[l].origin] = l /\ items'[l].created = began'[items'[l].origin]
    <3>1. ASSUME NEW l \in Keys, l # k, items[l].st = "flight"
          PROVE  /\ items[l].origin \in Callers /\ items[l].origin # r /\ claim[items[l].origin] = "origin"
                 /\ key[items[l].origin] = l /\ items[l].created = began[items[l].origin]
      BY <3>1 DEF CacheInv, Runs
    <3> QED BY <1>4, <1>5, <1>6, <3>1 DEF k
  <2>3. \A q \in Callers : ~intruded /\ claim'[q] = "origin" /\ ~(now - began'[q] > Ttl) =>
          items'[key[q]].st = "flight" /\ items'[key[q]].origin = q
    <3> SUFFICES ASSUME NEW q \in Callers, ~intruded, claim'[q] = "origin", ~(now - began'[q] > Ttl)
                 PROVE  items'[key[q]].st = "flight" /\ items'[key[q]].origin = q
      OBVIOUS
    <3>1. CASE q = r
      BY <1>4, <1>6, <3>1 DEF k
    <3>2. CASE q # r
      <4>1. claim[q] = "origin" /\ began[q] = began'[q] /\ key[q] \in Keys
        BY <1>5, <3>2 DEF CacheInv, CacheTypes
      <4>2. key[q] # k
        BY <2>1, <4>1
      <4> QED BY <1>4, <4>1, <4>2 DEF CacheInv, Runs
    <3> QED BY <3>1, <3>2
  <2>4. ASSUME NEW q \in Callers, NEW p \in Callers, ~intruded, q # p, key[q] = key[p],
               claim'[q] = "origin", claim'[p] = "origin"
        PROVE  began'[q] - began'[p] > Ttl \/ began'[p] - began'[q] > Ttl
    <3>1. CASE q # r /\ p # r
      BY <1>5, <2>4, <3>1 DEF CacheInv, Runs, Coalesced
    <3>2. CASE q = r
      <4>1. p # r /\ claim[p] = "origin" /\ key[p] = k /\ began'[p] = began[p] /\ began'[q] = now
        BY <1>5, <2>4, <3>2 DEF k
      <4> QED BY <2>1, <2>4, <4>1
    <3>3. CASE p = r
      <4>1. q # r /\ claim[q] = "origin" /\ key[q] = k /\ began'[q] = began[q] /\ began'[p] = now
        BY <1>5, <2>4, <3>3 DEF k
      <4> QED BY <2>1, <2>4, <4>1
    <3> QED BY <3>1, <3>2, <3>3
  <2>5. Coalesced'
    BY <2>4 DEF Coalesced
  <2> QED BY <2>2, <2>3, <2>5 DEF Runs
<1> QED
  BY <1>7, <1>8, <1>9, <1>10 DEF CacheInv

LEMMA ClaimWaitStep ==
  ASSUME CacheInv, NEW r \in Callers, claim[r] = "new", ClaimWait(r), UNCHANGED <<now, key, round, intruded>>
  PROVE  CacheInv'
<1> DEFINE k == key[r]
           w == <<r, round[r]>>
<1>1. /\ items[k].st = "flight" /\ items' = [items EXCEPT ![k].waiters = @ \cup {w}]
      /\ claim' = [claim EXCEPT ![r] = "wait"]
      /\ UNCHANGED <<ll, bytes, ch, began>>
  BY DEF ClaimWait
<1>2. k \in Keys /\ w \in Waiters /\ round[r] \in 1 .. 2
  BY DEF CacheInv, CacheTypes, Waiters
<1> HIDE DEF k
<1>3. /\ items' \in [Keys -> Entries] /\ \A l \in Keys : l # k => items'[l] = items[l]
      /\ items'[k].waiters = items[k].waiters \cup {w} /\ items'[k].st = items[k].st
      /\ items'[k].created = items[k].created /\ items'[k].origin = items[k].origin
      /\ items'[k].res = items[k].res
  <2>1. ASSUME NEW e \in Entries PROVE [e EXCEPT !.waiters = @ \cup {w}] \in Entries
    BY <1>2 DEF Entries
  <2>2. items[k] \in Entries /\ items' = [items EXCEPT ![k] = [items[k] EXCEPT !.waiters = @ \cup {w}]]
    BY <1>1, <1>2 DEF CacheInv, CacheTypes
  <2>3. items' \in [Keys -> Entries]
    BY <2>1, <2>2 DEF CacheInv, CacheTypes
  <2>4. items'[k] = [items[k] EXCEPT !.waiters = @ \cup {w}]
    BY <1>2, <2>2 DEF CacheInv, CacheTypes
  <2>5. \A l \in Keys : l # k => items'[l] = items[l]
    BY <2>2 DEF CacheInv, CacheTypes
  <2> QED BY <2>2, <2>3, <2>4, <2>5 DEF Entries
<1>4. /\ \A l \in Keys : /\ items'[l].st = items[l].st /\ items'[l].origin = items[l].origin
                         /\ items'[l].created = items[l].created /\ items'[l].res = items[l].res
      /\ \A l \in Keys : \A x \in items'[l].waiters : x \in items[l].waiters \/ (l = k /\ x = w)
  <2> SUFFICES ASSUME NEW l \in Keys
               PROVE  /\ items'[l].st = items[l].st /\ items'[l].origin = items[l].origin
                      /\ items'[l].created = items[l].created /\ items'[l].res = items[l].res
                      /\ \A x \in items'[l].waiters : x \in items[l].waiters \/ (l = k /\ x = w)
    BY Zenon
  <2>1. CASE l = k
    BY <1>3, <2>1
  <2>2. CASE l # k
    BY <1>3, <2>2
  <2> QED BY <2>1, <2>2
<1>5. /\ claim'[r] = "wait" /\ \A q \in Callers : q # r => claim'[q] = claim[q]
      /\ claim' \in [Callers -> {"new", "origin", "wait", "bare", "done"}]
  BY <1>1 DEF CacheInv, CacheTypes
<1>6. CacheTypes'
  BY <1>1, <1>3, <1>4, <1>5 DEF CacheInv, CacheTypes
<1>7. Mail'
  <2>1. Blank(w)
    BY DEF CacheInv, Mail
  <2>2. \A l \in Keys : \A x \in items'[l].waiters :
          items'[l].st = "flight" /\ key'[x[1]] = l /\ ch'[x] = <<>>
    <3>1. w[1] = r /\ ch[w] = <<>>
      BY <2>1 DEF Blank
    <3> QED BY <1>1, <1>4, <3>1 DEF CacheInv, Mail, k
  <2>3. ASSUME NEW x, Blank(x), x # w PROVE Blank(x)'
    BY <1>1, <1>4, <2>3 DEF Blank
  <2>4. ASSUME NEW q \in Callers
        PROVE  (claim'[q] = "new" => Blank(<<q, round[q]>>)') /\ (round[q] = 1 => Blank(<<q, 2>>)')
    <3>1. CASE q # r
      BY <1>1, <1>5, <2>3, <3>1 DEF CacheInv, Mail
    <3>2. CASE q = r
      <4> SUFFICES ASSUME round[r] = 1 PROVE Blank(<<r, 2>>)'
        BY <1>1, <1>5, <3>2
      <4>1. Blank(<<r, 2>>)
        BY DEF CacheInv, Mail
      <4>2. <<r, 2>> # w
        OBVIOUS
      <4> QED BY <2>3, <4>1, <4>2
    <3> QED BY <3>1, <3>2
  <2>5. ASSUME NEW q \in Callers, claim'[q] = "wait", ch[<<q, round[q]>>] = <<>>
        PROVE  \E l \in Keys : items'[l].st = "flight" /\ <<q, round[q]>> \in items'[l].waiters
    <3>1. CASE q = r
      BY <1>1, <1>2, <1>3, <3>1
    <3>2. CASE q # r
      <4>1. PICK l \in Keys : items[l].st = "flight" /\ <<q, round[q]>> \in items[l].waiters
        BY <1>5, <2>5, <3>2 DEF CacheInv, Mail, NoStranded
      <4> QED BY <1>3, <4>1
    <3> QED BY <3>1, <3>2
  <2>6. NoStranded'
    BY <1>1, <2>5 DEF NoStranded
  <2> QED BY <1>1, <2>2, <2>4, <2>6 DEF CacheInv, Mail
<1>8. Book'
  <2>1. Live(items') = Live(items) /\ DoneKeys(items') = DoneKeys(items)
    BY <1>4 DEF Live, DoneKeys
  <2>2. Freed(items', Keys) = Freed(items, Keys)
    <3>1. \A l \in Keys : SizeOf(items'[l]) = SizeOf(items[l])
      BY <1>4 DEF SizeOf
    <3> QED BY <3>1, FreedSame
  <2> QED BY <1>1, <2>1, <2>2 DEF CacheInv, Book
<1>9. Runs'
  <2>1. \A q \in Callers : claim'[q] = "origin" <=> claim[q] = "origin"
    BY <1>5
  <2>2. \A l \in Keys : items'[l].st = "flight" =>
        /\ items'[l].origin \in Callers /\ claim'[items'[l].origin] = "origin"
        /\ key[items'[l].origin] = l /\ items'[l].created = began[items'[l].origin]
    BY <1>4, <2>1 DEF CacheInv, Runs
  <2>3. \A q \in Callers : ~intruded /\ claim'[q] = "origin" /\ ~(now - began[q] > Ttl) =>
        items'[key[q]].st = "flight" /\ items'[key[q]].origin = q
    BY <1>4, <2>1 DEF CacheInv, CacheTypes, Runs
  <2>4. Coalesced'
    BY <1>1, <2>1 DEF CacheInv, Runs, Coalesced
  <2> QED BY <1>1, <2>2, <2>3, <2>4 DEF Runs
<1> QED
  BY <1>6, <1>7, <1>8, <1>9 DEF CacheInv

\* What is said of a request that is no origin says nothing of a run.
LEMMA NoRunStep ==
  ASSUME CacheInv, NEW r \in Callers, claim[r] # "origin", claim'[r] # "origin",
         \A q \in Callers : q # r => claim'[q] = claim[q], UNCHANGED <<now, items, key, began, intruded>>
  PROVE  Runs'
<1>1. \A q \in Callers : claim'[q] = "origin" <=> claim[q] = "origin"
  OBVIOUS
<1>2. \A l \in Keys : items'[l].st = "flight" =>
      /\ items'[l].origin \in Callers /\ claim'[items'[l].origin] = "origin"
      /\ key'[items'[l].origin] = l /\ items'[l].created = began'[items'[l].origin]
  BY <1>1 DEF CacheInv, Runs
<1>3. Coalesced'
  BY <1>1 DEF CacheInv, Runs, Coalesced
<1> QED
  BY <1>1, <1>2, <1>3 DEF CacheInv, Runs

LEMMA ClaimReplayStep ==
  ASSUME CacheInv, NEW r \in Callers, claim[r] = "new", ClaimReplay(r), UNCHANGED <<now, key, round, intruded>>
  PROVE  CacheInv'
<1> DEFINE k == key[r]
<1>1. /\ items[k].st = "done" /\ ll' = InFront(ll, k, Live(items))
      /\ claim' = [claim EXCEPT ![r] = "done"] /\ UNCHANGED <<items, bytes, ch, began>>
  BY DEF ClaimReplay
<1>2. k \in Keys
  BY DEF CacheInv, CacheTypes
<1>3. /\ claim'[r] = "done" /\ \A q \in Callers : q # r => claim'[q] = claim[q]
      /\ claim' \in [Callers -> {"new", "origin", "wait", "bare", "done"}]
  BY <1>1 DEF CacheInv, CacheTypes
<1>4. CacheTypes'
  BY <1>1, <1>3 DEF CacheInv, CacheTypes
<1>5. Mail'
  BY <1>1, <1>3, MailKept DEF CacheInv
<1>6. Book'
  <2>1. Live(items) = Live(items) \cup {k}
    BY <1>1, <1>2 DEF Live
  <2>2. Lined(InFront(ll, k, Live(items)), Live(items) \cup {k})
    BY <1>2, FrontLined DEF CacheInv, Book
  <2>3. Lined(ll', Live(items'))
    BY <1>1, <2>1, <2>2
  <2> QED BY <1>1, <2>3 DEF CacheInv, Book
<1>7. Runs'
  BY <1>1, <1>3, NoRunStep
<1> QED
  BY <1>4, <1>5, <1>6, <1>7 DEF CacheInv

\* The steps of a request that leave the cache alone.
LEMMA OutsideStep ==
  ASSUME CacheInv, NEW r \in Callers, Woken(r) \/ WaitEnds(r) \/ BareReturns(r)
  PROVE  CacheInv'
<1>1. /\ UNCHANGED <<now, ll, items, bytes, key, ch, began, intruded>> /\ claim[r] \in {"wait", "bare"}
  BY DEF Woken, WaitEnds, BareReturns
<1>2. \/ /\ round[r] = 1 /\ claim' = [claim EXCEPT ![r] = "new"] /\ round' = [round EXCEPT ![r] = 2]
      \/ \E c \in {"bare", "done"} : claim' = [claim EXCEPT ![r] = c] /\ UNCHANGED round
  BY DEF Woken, WaitEnds, BareReturns
<1>3. /\ claim'[r] \in {"new", "bare", "done"} /\ \A q \in Callers : q # r => claim'[q] = claim[q]
      /\ claim' \in [Callers -> {"new", "origin", "wait", "bare", "done"}]
      /\ round' \in [Callers -> 1 .. 2] /\ \A q \in Callers : q # r => round'[q] = round[q]
  BY <1>2 DEF CacheInv, CacheTypes
<1>4. CacheTypes'
  BY <1>1, <1>3 DEF CacheInv, CacheTypes
<1>5. Mail'
  <2>1. CASE claim'[r] = "new" /\ round[r] = 1 /\ round'[r] = 2
    <3>1. \A x : Blank(x) <=> Blank(x)'
      BY <1>1 DEF Blank
    <3>2. ASSUME NEW q \in Callers
          PROVE  /\ claim'[q] = "new" => ch[<<q, round'[q]>>] = <<>>
                                         /\ \A k \in Keys : <<q, round'[q]>> \notin items[k].waiters
                 /\ round'[q] = 1 => ch[<<q, 2>>] = <<>> /\ \A k \in Keys : <<q, 2>> \notin items[k].waiters
      <4>1. CASE q = r
        BY <2>1, <4>1 DEF CacheInv, Mail, Blank
      <4>2. CASE q # r
        BY <1>3, <4>2 DEF CacheInv, Mail, Blank
      <4> QED BY <4>1, <4>2
    <3>3. NoStranded'
      BY <1>1, <1>3, <2>1 DEF CacheInv, Mail, NoStranded
    <3> QED BY <1>1, <3>2, <3>3 DEF CacheInv, Mail, Blank
  <2>2. CASE claim'[r] \in {"bare", "done"} /\ UNCHANGED round
    BY <1>1, <1>3, <2>2, MailKept DEF CacheInv
  <2>3. round' \in [Callers -> 1 .. 2] /\ round \in [Callers -> 1 .. 2] /\ DOMAIN claim = Callers
    BY <1>3 DEF CacheInv, CacheTypes
  <2> QED BY <1>2, <2>1, <2>2, <2>3
<1>6. Book'
  BY <1>1 DEF CacheInv, Book
<1>7. Runs'
  BY <1>1, <1>3, NoRunStep
<1> QED
  BY <1>4, <1>5, <1>6, <1>7 DEF CacheInv

LEMMA CacheTickStep == ASSUME CacheInv, CacheTick PROVE CacheInv'
<1>1. /\ now < MaxTime /\ now' = now + 1 /\ now \in Nat
      /\ UNCHANGED <<ll, items, bytes, claim, key, round, ch, began, intruded>>
  BY DEF CacheTick, CacheInv, CacheTypes
<1>2. CacheTypes'
  <2>1. now' \in 1 .. MaxTime /\ \A r \in Callers : began[r] <= now'
    BY <1>1, CacheAssumption DEF CacheInv, CacheTypes
  <2> QED BY <1>1, <2>1 DEF CacheInv, CacheTypes
<1>3. Mail'
  BY <1>1 DEF CacheInv, Mail, Blank, NoStranded
<1>4. Book'
  BY <1>1 DEF CacheInv, Book
<1>5. Runs'
  <2>1. \A r \in Callers : ~(now' - began[r] > Ttl) => ~(now - began[r] > Ttl)
    BY <1>1, CacheAssumption DEF CacheInv, CacheTypes
  <2>2. Coalesced'
    BY <1>1 DEF CacheInv, Runs, Coalesced
  <2> QED BY <1>1, <2>1, <2>2 DEF CacheInv, Runs
<1> QED
  BY <1>2, <1>3, <1>4, <1>5 DEF CacheInv


(* An origin returns, and entries leave: its own, complete ones, and those *)
(* that outlived the TTL.                                                  *)
LEMMA RunsEnd ==
  ASSUME CacheTypes, Runs, NEW r \in Callers, claim[r] = "origin", claim'[r] = "done",
         \A q \in Callers : q # r => claim'[q] = claim[q], UNCHANGED <<now, key, began>>,
         intruded' = (intruded \/ (items[key[r]].st = "flight" /\ items[key[r]].origin # r)),
         items'[key[r]].st # "flight",
         \A l \in Keys : l # key[r] =>
           \/ items'[l] = items[l]
           \/ items'[l].st # "flight" /\ (items[l].st # "flight" \/ expired(items[l]))
  PROVE  Runs'
<1>1. \A l \in Keys : items'[l].st = "flight" => l # key[r] /\ items'[l] = items[l]
  OBVIOUS
<1>2. \A l \in Keys : items'[l].st = "flight" =>
        /\ items'[l].origin \in Callers /\ claim'[items'[l].origin] = "origin"
        /\ key'[items'[l].origin] = l /\ items'[l].created = began'[items'[l].origin]
  <2> SUFFICES ASSUME NEW l \in Keys, items'[l].st = "flight"
               PROVE  /\ items'[l].origin \in Callers /\ claim'[items'[l].origin] = "origin"
                      /\ key'[items'[l].origin] = l /\ items'[l].created = began'[items'[l].origin]
    OBVIOUS
  <2>1. l # key[r] /\ items'[l] = items[l] /\ items[l].st = "flight"
    BY <1>1
  <2>2. /\ items[l].origin \in Callers /\ claim[items[l].origin] = "origin"
        /\ key[items[l].origin] = l /\ items[l].created = began[items[l].origin]
    BY <2>1 DEF Runs
  <2>3. items[l].origin # r
    BY <2>1, <2>2
  <2> QED BY <2>1, <2>2, <2>3
<1>3. ASSUME NEW q \in Callers, ~intruded', claim'[q] = "origin", ~(now - began[q] > Ttl)
      PROVE  items'[key[q]].st = "flight" /\ items'[key[q]].origin = q
  <2>1. q # r /\ claim[q] = "origin" /\ ~intruded /\ key[q] \in Keys
    BY <1>3 DEF CacheTypes
  <2>2. items[key[q]].st = "flight" /\ items[key[q]].origin = q
    BY <1>3, <2>1 DEF Runs
  <2>3. items[key[q]].created = began[q]
    BY <2>1, <2>2 DEF Runs
  <2>4. key[q] # key[r]
    BY <1>3, <2>1, <2>2
  <2>5. ~expired(items[key[q]])
    BY <1>3, <2>3 DEF expired
  <2> QED BY <2>1, <2>2, <2>4, <2>5
<1>4. \A q \in Callers : claim'[q] = "origin" => claim[q] = "origin"
  OBVIOUS
<1>5. ~intruded' => ~intruded
  OBVIOUS
<1>6. Coalesced'
  BY <1>4, <1>5 DEF Runs, Coalesced
<1> QED
  BY <1>2, <1>3, <1>6 DEF Runs

\* What the origin's return changes besides the cache.
Returns(r) ==
  /\ claim[r] = "origin" /\ claim' = [claim EXCEPT ![r] = "done"]
  /\ intruded' = (intruded \/ (items[key[r]].st = "flight" /\ items[key[r]].origin # r))
  /\ UNCHANGED <<now, key, round, answer, began>>

LEMMA ReturnIs ==
  ASSUME CacheTypes, NEW r \in Callers, Returns(r)
  PROVE  /\ claim[r] = "origin" /\ claim'[r] = "done" /\ \A q \in Callers : q # r => claim'[q] = claim[q]
         /\ claim' \in [Callers -> {"new", "origin", "wait", "bare", "done"}]
         /\ intruded' \in BOOLEAN
  BY DEF Returns, CacheTypes

LEMMA VacantIs ==
  /\ Vacant \in Entries /\ Vacant.st = "none" /\ Vacant.waiters = {} /\ SizeOf(Vacant) = 0
<1>1. Vacant.st = "none" /\ Vacant.waiters = {}
  BY DEF Vacant
<1> QED
  BY <1>1 DEF Vacant, Entries, SizeOf

\* Its entry is no longer there, or complete already.
LEMMA SettleNothingStep ==
  ASSUME CacheInv, NEW r \in Callers, Returns(r), items[key[r]].st # "flight", UNCHANGED <<items, ll, bytes, ch>>
  PROVE  CacheInv'
<1>1. /\ claim[r] = "origin" /\ claim'[r] = "done" /\ \A q \in Callers : q # r => claim'[q] = claim[q]
      /\ claim' \in [Callers -> {"new", "origin", "wait", "bare", "done"}]
      /\ intruded' \in BOOLEAN /\ UNCHANGED <<now, key, round, began>>
  BY ReturnIs DEF CacheInv, Returns
<1>2. CacheTypes'
  BY <1>1 DEF CacheInv, CacheTypes
<1>3. Mail'
  BY <1>1, MailKept DEF CacheInv
<1>4. Book'
  BY DEF CacheInv, Book
<1>5. Runs'
  BY <1>1, RunsEnd DEF CacheInv, Returns
<1> QED
  BY <1>2, <1>3, <1>4, <1>5 DEF CacheInv

\* It abandons its entry.
LEMMA SettleGoneStep ==
  ASSUME CacheInv, NEW r \in Callers, Returns(r), items[key[r]].st = "flight", UNCHANGED bytes,
         items' = Without(items, {key[r]}), ll' = Dropped(ll, {key[r]}),
         ch' = Sent(ch, items[key[r]].waiters, Gone)
  PROVE  CacheInv'
<1> DEFINE k == key[r]
<1>1. /\ claim[r] = "origin" /\ claim'[r] = "done" /\ \A q \in Callers : q # r => claim'[q] = claim[q]
      /\ claim' \in [Callers -> {"new", "origin", "wait", "bare", "done"}]
      /\ intruded' \in BOOLEAN /\ UNCHANGED <<now, key, round, began>>
  BY ReturnIs DEF CacheInv, Returns
<1>2. k \in Keys /\ items[k] \in Entries
  BY DEF CacheInv, CacheTypes
<1>3. /\ items' = [l \in Keys |-> IF l = k THEN Vacant ELSE items[l]]
      /\ items'[k] = Vacant /\ \A l \in Keys : l # k => items'[l] = items[l]
  BY <1>2 DEF Without
<1>4. CacheTypes'
  <2>1. items' \in [Keys -> Entries]
    BY <1>3, VacantIs DEF CacheInv, CacheTypes
  <2>2. \A l \in Keys : items'[l].st = "done" => items'[l].res \in Results
    BY <1>3, VacantIs DEF CacheInv, CacheTypes
  <2>3. DOMAIN ch' = Waiters
    BY DEF Sent
  <2> QED BY <1>1, <2>1, <2>2, <2>3 DEF CacheInv, CacheTypes
<1>5. Mail'
  <2>1. PICK W \in SUBSET Waiters : W = items[k].waiters
    BY <1>2 DEF Entries
  <2>2. \A w \in W : w \in items[k].waiters /\ \E x : ch'[w] = <<x>>
    <3>1. \A w \in W : ch[w] = <<>> /\ ch'[w] = Append(ch[w], Gone)
      BY <1>2, <2>1 DEF Sent, CacheInv, Mail
    <3>2. \A x : Append(<<>>, x) = <<x>>
      OBVIOUS
    <3> QED BY <2>1, <3>1, <3>2
  <2>3. \A w \in Waiters \ W : ch'[w] = ch[w]
    BY <2>1 DEF Sent
  <2>4. ASSUME NEW l \in Keys
        PROVE  \/ items'[l].waiters = {} /\ items[l].waiters \subseteq W
               \/ /\ items'[l].waiters = items[l].waiters /\ items'[l].st = items[l].st
                  /\ items[l].waiters \cap W = {}
    <3>1. CASE l = k
      BY <1>3, <2>1, <3>1, VacantIs
    <3>2. CASE l # k
      <4>1. items[l].waiters \cap W = {}
        BY <1>2, <2>1, <3>2 DEF CacheInv, Mail
      <4> QED BY <1>3, <3>2, <4>1
    <3> QED BY <3>1, <3>2
  <2> HIDE DEF k
  <2> QED BY <1>1, <1>2, <2>2, <2>3, <2>4, Woke DEF CacheInv
<1>6. Book'
  <2>1. Live(items') = Live(items) \ {k} /\ DoneKeys(items') \subseteq DoneKeys(items) /\ DoneKeys(items) \subseteq Keys
    BY <1>3, VacantIs DEF Live, DoneKeys
  <2>2. Lined(ll', Live(items'))
    BY <2>1, DroppedLined DEF CacheInv, Book
  <2>3. Sizes(items) /\ Freed(items, {k}) = 0
    <3>1. Sizes(items)
      BY CacheSizes DEF CacheInv
    <3>2. SizeOf(items[k]) = 0
      BY DEF SizeOf
    <3> QED BY <1>2, <3>1, <3>2, FreedOne
  <2>4. /\ Freed(Without(items, {k}), Keys) = Freed(items, Keys) - Freed(items, {k})
        /\ Freed(items, Keys) \in Nat
    BY <1>2, <2>3, FreedWithout
  <2>5. Freed(items', Keys) = Freed(items, Keys)
    BY <2>3, <2>4
  <2>6. Cardinality(DoneKeys(items')) <= Cap
    BY <2>1, FewerDone DEF CacheInv, Book
  <2> QED BY <2>2, <2>5, <2>6 DEF CacheInv, Book
<1>7. Runs'
  BY <1>1, <1>3, VacantIs, RunsEnd DEF CacheInv, Returns
<1> QED
  BY <1>4, <1>5, <1>6, <1>7 DEF CacheInv


(* The entry of the origin as it is once its result is on record.          *)
LEMMA CompletedIs ==
  ASSUME NEW e \in Entries, NEW res \in Results
  PROVE  /\ Completed(e, res) \in Entries /\ Completed(e, res).st = "done"
         /\ Completed(e, res).res = res /\ Completed(e, res).waiters = {}
  BY DEF Completed, Entries

(* It records its result, and what no longer fits goes.                    *)
LEMMA SettleResultStep ==
  ASSUME CacheInv, NEW r \in Callers, Returns(r), items[key[r]].st = "flight", NEW res \in Results,
         NEW after, after = [items EXCEPT ![key[r]] = Completed(items[key[r]], res)],
         NEW vs, vs = Victims(after, ll, bytes + SizeOf(after[key[r]])),
         items' = Without(after, vs), ll' = Dropped(ll, vs),
         bytes' = bytes + SizeOf(after[key[r]]) - Freed(after, vs),
         ch' = Sent(Sent(ch, items[key[r]].waiters, res), UNION {after[v].waiters : v \in vs}, Gone)
  PROVE  CacheInv'
<1> DEFINE k == key[r]
           size == bytes + SizeOf(after[k])
<1>1. /\ claim[r] = "origin" /\ claim'[r] = "done" /\ \A q \in Callers : q # r => claim'[q] = claim[q]
      /\ claim' \in [Callers -> {"new", "origin", "wait", "bare", "done"}]
      /\ intruded' \in BOOLEAN /\ UNCHANGED <<now, key, round, began>>
  BY ReturnIs DEF CacheInv, Returns
<1>2. k \in Keys /\ items[k] \in Entries /\ items \in [Keys -> Entries]
  BY DEF CacheInv, CacheTypes
<1>3. /\ after \in [Keys -> Entries] /\ \A l \in Keys : l # k => after[l] = items[l]
      /\ after[k].st = "done" /\ after[k].res = res /\ after[k].waiters = {}
  <2>1. Completed(items[k], res) \in Entries
    BY <1>2, CompletedIs
  <2>2. after[k] = Completed(items[k], res)
    BY <1>2
  <2>3. /\ Completed(items[k], res).st = "done" /\ Completed(items[k], res).res = res
        /\ Completed(items[k], res).waiters = {}
    BY <1>2, CompletedIs
  <2> QED BY <1>2, <2>1, <2>2, <2>3
<1>4. \A l \in Keys : after[l].st = "done" => after[l].res \in Results
  BY <1>3 DEF CacheInv, CacheTypes
<1>5. Sizes(items) /\ Sizes(after) /\ SizeOf(items[k]) = 0 /\ SizeOf(after[k]) \in Nat
  <2>1. Sizes(items)
    BY CacheSizes DEF CacheInv
  <2>2. Sizes(after)
    BY <1>3, <1>4, SizeOfEntry DEF Sizes
  <2>3. SizeOf(items[k]) = 0
    BY DEF SizeOf
  <2> QED BY <1>2, <2>1, <2>2, <2>3 DEF Sizes
<1>6. Live(after) = Live(items) /\ Live(items) \subseteq Keys
  BY <1>2, <1>3 DEF Live
<1>7. Freed(after, Keys) = size /\ size \in Nat
  <2>1. Freed(after, Keys) = Freed(items, Keys) - SizeOf(items[k]) + SizeOf(after[k])
    <3>1. \A l \in Keys : l # k => SizeOf(items[l]) = SizeOf(after[l])
      BY <1>3
    <3> HIDE DEF k
    <3> QED BY <1>2, <1>5, <3>1, FreedAt
  <2>2. bytes = Freed(items, Keys) /\ Freed(items, Keys) \in Nat
    BY <1>5, FreedNat DEF CacheInv, Book
  <2> QED BY <1>5, <2>1, <2>2
<1>8. /\ vs \subseteq Evictable(after) /\ vs \subseteq Live(after)
      /\ \/ Evictable(after) \subseteq vs
         \/ WithinCaps(Cardinality(Live(after)) - Cardinality(vs), size - Freed(after, vs))
  <2>1. Lined(ll, Live(after))
    BY <1>6 DEF CacheInv, Book
  <2>2. vs = Victims(after, ll, size)
    OBVIOUS
  <2> HIDE DEF size
  <2> QED BY <1>5, <1>7, <2>1, <2>2, Enforced
<1>9. vs \in SUBSET Keys
  BY <1>6, <1>8
<1>10. /\ items' = [l \in Keys |-> IF l \in vs THEN Vacant ELSE after[l]]
       /\ \A l \in vs : items'[l] = Vacant
       /\ \A l \in Keys \ vs : items'[l] = after[l]
  BY <1>9 DEF Without
<1>11. CacheTypes'
  <2>1. items' \in [Keys -> Entries]
    BY <1>3, <1>10, VacantIs
  <2>2. \A l \in Keys : items'[l].st = "done" => items'[l].res \in Results
    BY <1>4, <1>10, VacantIs
  <2>3. DOMAIN ch' = Waiters
    BY DEF Sent
  <2> QED BY <1>1, <2>1, <2>2, <2>3 DEF CacheInv, CacheTypes
<1>12. Mail'
  <2> DEFINE own == items[k].waiters
             others == UNION {after[v].waiters : v \in vs}
             W == own \cup others
  <2>1. \A l \in Keys : items[l].waiters \subseteq Waiters /\ after[l].waiters \subseteq items[l].waiters
    BY <1>2, <1>3 DEF Entries
  <2>2. \A w \in others : \E v \in Keys : v \in vs /\ v # k /\ w \in items[v].waiters
    <3> SUFFICES ASSUME NEW w \in others PROVE \E v \in Keys : v \in vs /\ v # k /\ w \in items[v].waiters
      BY Zenon
    <3>1. PICK v \in vs : w \in after[v].waiters
      OBVIOUS
    <3>2. v \in Keys /\ v # k
      BY <1>3, <1>9, <3>1
    <3> QED BY <2>1, <3>1, <3>2
  <2>3. ASSUME NEW w \in own PROVE w \notin others /\ ch[w] = <<>> /\ w \in Waiters
    <3>1. ch[w] = <<>> /\ key[w[1]] = k /\ w \in Waiters
      BY <1>2, <2>1 DEF CacheInv, Mail
    <3>2. ASSUME NEW v \in Keys, v # k PROVE w \notin items[v].waiters
      BY <3>1, <3>2 DEF CacheInv, Mail
    <3> HIDE DEF others, k
    <3> QED BY <2>2, <3>1, <3>2
  <2>4. ASSUME NEW w \in others PROVE w \notin own /\ ch[w] = <<>> /\ w \in Waiters
    <3> HIDE DEF own, others
    <3>1. PICK v \in Keys : w \in items[v].waiters
      BY <2>2
    <3>2. w \notin own
      BY <2>3
    <3> QED BY <2>1, <3>1, <3>2 DEF CacheInv, Mail
  <2>5. \A x : Append(<<>>, x) = <<x>>
    OBVIOUS
  <2>6. \A w \in Waiters : ch'[w] = IF w \in others THEN Append(IF w \in own THEN Append(ch[w], res) ELSE ch[w], Gone)
                                    ELSE IF w \in own THEN Append(ch[w], res) ELSE ch[w]
    <3> HIDE DEF own, others
    <3>1. ch' = Sent(Sent(ch, own, res), others, Gone)
      BY DEF own, others
    <3> QED BY <3>1 DEF Sent
  <2>7. \A l \in vs : l # k => items[l].waiters \subseteq others
    BY <1>3, <1>9
  <2>8. ASSUME NEW l \in Keys
        PROVE  \/ items'[l].waiters = {} /\ items[l].waiters \subseteq W
               \/ /\ items'[l].waiters = items[l].waiters /\ items'[l].st = items[l].st
                  /\ items[l].waiters \cap W = {}
    <3>1. CASE l = k
      <4>1. items'[l].waiters = {}
        BY <1>3, <1>10, <3>1, VacantIs
      <4> QED BY <3>1, <4>1
    <3>2. CASE l # k /\ l \in vs
      BY <1>10, <2>7, <3>2, VacantIs
    <3>3. CASE l # k /\ l \notin vs
      <4>1. items'[l] = items[l]
        BY <1>3, <1>10, <3>3
      <4>2. ASSUME NEW w \in items[l].waiters PROVE w \notin W
        <5>1. \A m \in Keys : w \in items[m].waiters => m = l
          BY <4>2 DEF CacheInv, Mail
        <5> QED BY <1>2, <2>2, <3>3, <5>1
      <4> QED BY <4>1, <4>2
    <3> QED BY <3>1, <3>2, <3>3
  <2>9. W \in SUBSET Waiters
    BY <2>3, <2>4
  <2>10. \A w \in W : (\E l \in Keys : w \in items[l].waiters) /\ \E x : ch'[w] = <<x>>
    <3>1. \A w \in own : (\E l \in Keys : w \in items[l].waiters) /\ ch'[w] = <<res>>
      BY <1>2, <2>3, <2>5, <2>6
    <3>2. \A w \in others : (\E l \in Keys : w \in items[l].waiters) /\ ch'[w] = <<Gone>>
      <4> HIDE DEF own, others
      <4> QED BY <2>2, <2>4, <2>5, <2>6
    <3> HIDE DEF own, others
    <3> QED BY <3>1, <3>2
  <2>11. \A w \in Waiters \ W : ch'[w] = ch[w]
    <3> HIDE DEF own, others
    <3> QED BY <2>6
  <2> HIDE DEF W
  <2> QED BY <1>1, <2>8, <2>9, <2>10, <2>11, Woke DEF CacheInv
<1>13. Book'
  <2>1. Live(items') = Live(after) \ vs
    BY <1>6, <1>9, <1>10, VacantIs DEF Live
  <2>2. Lined(ll', Live(items'))
    <3>1. Lined(Dropped(ll, vs), Live(items) \ vs)
      BY DroppedLined DEF CacheInv, Book
    <3>2. Live(items') = Live(items) \ vs
      BY <1>6, <2>1
    <3> QED BY <3>1, <3>2
  <2>3. /\ Freed(items', Keys) = Freed(after, Keys) - Freed(after, vs) /\ Sizes(items')
        /\ Freed(after, vs) \in Nat
    BY <1>5, <1>9, FreedWithout
  <2>4. bytes' = size - Freed(after, vs) /\ bytes' = Freed(items', Keys)
    <3>1. bytes' = size - Freed(after, vs)
      <4>1. bytes = Freed(items, Keys) /\ Freed(items, Keys) \in Nat
        BY <1>5, FreedNat DEF CacheInv, Book
      <4> HIDE DEF k
      <4> QED BY <1>5, <2>3, <4>1 DEF k
    <3> HIDE DEF size
    <3> QED BY <1>7, <2>3, <3>1
  <2>5. DoneKeys(items') \subseteq Live(after) \ vs /\ DoneKeys(items') \subseteq Evictable(after)
    <3>1. ASSUME NEW l \in DoneKeys(items') PROVE l \in Keys \ vs /\ after[l].st = "done"
      BY <1>10, <3>1, VacantIs DEF DoneKeys
    <3> QED BY <3>1 DEF Live, Evictable
  <2>6. CASE Evictable(after) \subseteq vs
    <3>1. DoneKeys(items') = {}
      BY <2>5, <2>6
    <3>2. \A l \in Keys : SizeOf(items'[l]) = 0
      BY <3>1 DEF DoneKeys, SizeOf
    <3>3. Freed(items', Keys) = 0
      BY <3>2, FreedNone
    <3>4. Cardinality(DoneKeys(items')) = 0
      BY <3>1, FS_EmptySet
    <3> QED BY <2>2, <2>4, <3>3, <3>4, CacheAssumption DEF Book
  <2>7. CASE WithinCaps(Cardinality(Live(after)) - Cardinality(vs), size - Freed(after, vs))
    <3>1. IsFiniteSet(Live(after)) /\ IsFiniteSet(Live(after) \ vs)
      BY <1>6, CacheAssumption, FS_Subset
    <3>2. Live(after) \cap vs = vs
      BY <1>8
    <3>3. Cardinality(Live(after) \ vs) = Cardinality(Live(after)) - Cardinality(vs)
      <4>1. Cardinality(Live(after) \ vs) = Cardinality(Live(after)) - Cardinality(Live(after) \cap vs)
        BY <3>1, FS_Difference, Zenon
      <4> QED BY <3>2, <4>1
    <3>4. Cardinality(Live(after) \ vs) <= Cap /\ Live(after) \ vs \in SUBSET Keys
      BY <1>6, <2>7, <3>3 DEF WithinCaps
    <3>5. Cardinality(DoneKeys(items')) <= Cap
      BY <2>5, <3>4, FewerDone
    <3>6. bytes' <= TotalBodyBudget
      <4> HIDE DEF size
      <4> QED BY <2>4, <2>7 DEF WithinCaps
    <3> QED BY <2>2, <2>4, <3>5, <3>6 DEF Book
  <2> QED BY <1>8, <2>6, <2>7
<1>14. Runs'
  <2>1. items'[k].st # "flight"
    BY <1>2, <1>3, <1>10, VacantIs
  <2>2. ASSUME NEW l \in Keys, l # k
        PROVE  \/ items'[l] = items[l]
               \/ items'[l].st # "flight" /\ (items[l].st # "flight" \/ expired(items[l]))
    <3>1. CASE l \notin vs
      BY <1>3, <1>10, <2>2, <3>1
    <3>2. CASE l \in vs
      <4>1. after[l].st = "done" \/ expired(after[l])
        BY <1>8, <3>2 DEF Evictable
      <4>2. after[l] = items[l] /\ items'[l].st = "none"
        BY <1>3, <1>10, <2>2, <3>2, VacantIs
      <4> QED BY <4>1, <4>2
    <3> QED BY <3>1, <3>2
  <2> QED BY <1>1, <2>1, <2>2, RunsEnd DEF CacheInv, Returns
<1> QED
  BY <1>11, <1>12, <1>13, <1>14 DEF CacheInv

LEMMA ResultsAre ==
  ASSUME NEW r \in Callers, NEW res \in {Gone, Stream(r)} \cup {Body(r, s) : s \in RecordSizes}
  PROVE  res \in Results
  BY DEF Results

LEMMA SettleStep ==
  ASSUME CacheInv, NEW r \in Callers, Settle(r)
  PROVE  CacheInv'
<1> DEFINE k == key[r]
<1>1. PICK res \in {Gone, Stream(r)} \cup {Body(r, s) : s \in RecordSizes} : Finish(r, res)
  BY DEF Settle
<1>2. Returns(r) /\ res \in Results
  BY ResultsAre DEF Settle, Returns
<1>3. CASE items[k].st # "flight"
  BY <1>1, <1>2, <1>3, SettleNothingStep DEF Finish
<1>4. CASE items[k].st = "flight" /\ res = Gone
  BY <1>1, <1>2, <1>4, SettleGoneStep DEF Finish
<1>5. CASE items[k].st = "flight" /\ res # Gone
  <2>1. PICK after, vs :
          /\ after = [items EXCEPT ![k] = Completed(items[k], res)]
          /\ vs = Victims(after, ll, bytes + SizeOf(after[k]))
          /\ items' = Without(after, vs) /\ ll' = Dropped(ll, vs)
          /\ bytes' = bytes + SizeOf(after[k]) - Freed(after, vs)
          /\ ch' = Sent(Sent(ch, items[k].waiters, res), UNION {after[v].waiters : v \in vs}, Gone)
    BY <1>1, <1>5 DEF Finish
  <2> QED BY <1>2, <1>5, <2>1, SettleResultStep
<1> QED
  BY <1>3, <1>4, <1>5


LEMMA InitCache == ASSUME CacheInit PROVE CacheInv
<1>1. /\ now = 1 /\ ll = {} /\ bytes = 0 /\ items = [k \in Keys |-> Vacant] /\ key \in [Callers -> Keys]
      /\ claim = [r \in Callers |-> "new"] /\ round = [r \in Callers |-> 1] /\ ch = [w \in Waiters |-> <<>>]
      /\ began = [r \in Callers |-> 0] /\ intruded = FALSE
  BY DEF CacheInit
<1>2. \A k \in Keys : items[k] = Vacant /\ items[k].st = "none" /\ items[k].waiters = {}
  BY <1>1, VacantIs
<1>3. CacheTypes
  <2>1. now \in 1 .. MaxTime /\ \A r \in Callers : began[r] <= now
    BY <1>1, CacheAssumption
  <2>2. items \in [Keys -> Entries] /\ \A k \in Keys : items[k].st = "done" => items[k].res \in Results
    BY <1>1, <1>2, VacantIs
  <2>3. /\ claim \in [Callers -> {"new", "origin", "wait", "bare", "done"}]
        /\ key \in [Callers -> Keys] /\ round \in [Callers -> 1 .. 2]
    BY <1>1
  <2>4. began \in [Callers -> Nat] /\ DOMAIN ch = Waiters /\ intruded \in BOOLEAN
    BY <1>1
  <2> QED BY <2>1, <2>2, <2>3, <2>4 DEF CacheTypes
<1>4. Mail
  <2>1. \A w \in Waiters : Blank(w)
    BY <1>1, <1>2 DEF Blank
  <2>2. \A r \in Callers : Blank(<<r, round[r]>>) /\ Blank(<<r, 2>>)
    <3>1. \A r \in Callers : round[r] = 1 /\ <<r, 1>> \in Waiters /\ <<r, 2>> \in Waiters
      <4>1. 1 \in 1 .. 2 /\ 2 \in 1 .. 2
        OBVIOUS
      <4> QED BY <1>1, <4>1, WaiterIs
    <3> QED BY <2>1, <3>1
  <2>3. NoStranded
    BY <1>1 DEF NoStranded
  <2> QED BY <1>1, <1>2, <2>2, <2>3 DEF Mail
<1>5. Book
  <2>1. Live(items) = {} /\ DoneKeys(items) = {}
    BY <1>2 DEF Live, DoneKeys
  <2>2. Freed(items, Keys) = 0
    BY <1>2, VacantIs, FreedNone
  <2>3. Cardinality(DoneKeys(items)) = 0
    BY <2>1, FS_EmptySet
  <2> QED BY <1>1, <2>1, <2>2, <2>3, CacheAssumption DEF Book, Lined
<1>6. Runs
  BY <1>1, <1>2 DEF Runs, Coalesced
<1> QED
  BY <1>3, <1>4, <1>5, <1>6 DEF CacheInv

LEMMA StepCache == ASSUME CacheInv, [CacheNext]_cacheVars PROVE CacheInv'
<1>1. CASE CacheTick
  BY <1>1, CacheTickStep
<1>2. ASSUME NEW r \in Callers, Claim(r) PROVE CacheInv'
  BY <1>2, ClaimMissStep, ClaimWaitStep, ClaimReplayStep DEF Claim
<1>3. ASSUME NEW r \in Callers, Settle(r) PROVE CacheInv'
  BY <1>3, SettleStep
<1>4. ASSUME NEW r \in Callers, Woken(r) \/ WaitEnds(r) \/ BareReturns(r) PROVE CacheInv'
  BY <1>4, OutsideStep
<1>5. CASE UNCHANGED cacheVars
  BY <1>5 DEF cacheVars, CacheInv, CacheTypes, Mail, Blank, NoStranded, Book, Runs, Coalesced, expired
<1> QED
  BY <1>1, <1>2, <1>3, <1>4, <1>5 DEF CacheNext

(* The entries in flight are no more than the origins that run.            *)
LEMMA EntriesCounted == ASSUME CacheInv PROVE EntriesBounded
<1> DEFINE flights == {k \in Keys : items[k].st = "flight"}
           origins == {r \in Callers : claim[r] = "origin"}
           f == [k \in flights |-> items[k].origin]
<1>1. /\ IsFiniteSet(flights) /\ IsFiniteSet(origins) /\ IsFiniteSet(DoneKeys(items))
  BY CacheAssumption, FS_Subset DEF DoneKeys
<1>2. f \in Injection(flights, origins)
  <2>1. \A k \in flights : items[k].origin \in origins /\ key[items[k].origin] = k
    BY DEF CacheInv, Runs
  <2>2. f \in [flights -> origins]
    BY <2>1
  <2>3. \A k, l \in flights : f[k] = f[l] => k = l
    BY <2>1
  <2> HIDE DEF f, flights, origins
  <2> QED BY <2>2, <2>3 DEF Injection, IsInjective
<1>3. Cardinality(flights) <= Cardinality(origins)
  BY <1>1, <1>2, FS_Injection
<1>4. Live(items) = DoneKeys(items) \cup flights /\ DoneKeys(items) \cap flights = {}
  <2>1. \A k \in Keys : items[k].st \in {"none", "flight", "done"}
    BY DEF CacheInv, CacheTypes, Entries
  <2> QED BY <2>1 DEF Live, DoneKeys
<1> HIDE DEF flights, origins
<1>5. /\ Cardinality(Live(items)) = Cardinality(DoneKeys(items)) + Cardinality(flights)
                                      - Cardinality(DoneKeys(items) \cap flights)
      /\ Cardinality(DoneKeys(items) \cap flights) = 0
  <2>1. Cardinality(DoneKeys(items) \cup flights) = Cardinality(DoneKeys(items)) + Cardinality(flights)
                                                      - Cardinality(DoneKeys(items) \cap flights)
    BY <1>1, FS_Union, Zenon
  <2> QED BY <1>4, <2>1, FS_EmptySet
<1>6. /\ Cardinality(DoneKeys(items)) \in Nat /\ Cardinality(flights) \in Nat /\ Cardinality(origins) \in Nat
      /\ Cap \in Nat /\ Cardinality(DoneKeys(items)) <= Cap
  BY <1>1, FS_CardinalityType, CacheAssumption DEF CacheInv, Book
<1>7. Cardinality(Live(items)) <= Cap + Cardinality(origins)
  BY <1>3, <1>5, <1>6
<1> QED
  BY <1>7 DEF EntriesBounded, origins

LEMMA InvSingleFlight == ASSUME CacheInv PROVE SingleFlight
<1>1. CacheTypeOK
  <2>1. bytes \in Nat
    BY CacheSizes, FreedNat DEF CacheInv, Book
  <2> QED BY <2>1 DEF CacheInv, CacheTypes, Entries, Book, Lined, CacheTypeOK
<1>2. OneSend
  <2>1. Len(<<>>) = 0 /\ \A x : Len(<<x>>) = 1
    OBVIOUS
  <2> SUFFICES ASSUME NEW w \in Waiters PROVE Len(ch[w]) <= 1
    BY DEF OneSend
  <2>2. CASE ch[w] = <<>>
    BY <2>1, <2>2
  <2>3. ASSUME NEW x, ch[w] = <<x>> PROVE Len(ch[w]) <= 1
    BY <2>1, <2>3
  <2> QED BY <2>2, <2>3 DEF CacheInv, Mail
<1>3. NoStranded /\ Coalesced /\ BytesExact
  BY DEF CacheInv, Mail, Runs, Book, BytesExact
<1> QED
  BY <1>1, <1>2, <1>3, EntriesCounted DEF SingleFlight

(* A retry is never lost, never blocks the cache and, within the TTL,      *)
(* never runs beside the original; and what the cache keeps for it is      *)
(* counted exactly and stays within both caps, whoever claims, waits,      *)
(* hangs up, expires or settles, and whatever is evicted meanwhile.        *)
THEOREM RetriesRunOnce == CacheSpec => []SingleFlight
<1>1. CacheSpec => []CacheInv
  BY InitCache, StepCache, PTL DEF CacheSpec
<1> QED
  BY <1>1, InvSingleFlight, PTL
=============================================================================
