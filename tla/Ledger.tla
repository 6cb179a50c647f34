------------------------------- MODULE Ledger --------------------------------
(* What usage accounting promises: an observation is recorded at most once,
   and nothing is recorded that was not observed.  Observations may be lost. *)
EXTENDS Naturals

VARIABLES seen, owed, recorded   \* observed, observed and still to record, recorded

ledgerVars == <<seen, owed, recorded>>

Init == seen = 0 /\ owed = 0 /\ recorded = 0

Observe == seen' = seen + 1 /\ owed' = owed + 1 /\ UNCHANGED recorded

Record == \E k \in 1..owed :
            owed' = owed - k /\ recorded' = recorded + k /\ UNCHANGED seen

Lose == \E k \in 1..owed : owed' = owed - k /\ UNCHANGED <<seen, recorded>>

Next == Observe \/ Record \/ Lose

Spec == Init /\ [][Next]_ledgerVars
=============================================================================
