------------------------------ MODULE MCLimits ------------------------------
(***************************************************************************)
(* TLC instance of what stands between a request and an upstream: the name *)
(* it asks for, the limits of its client's key, an account's RPM bucket,   *)
(* the benches of models, and the meters that subscription accounts are    *)
(* parked by.  They share no state, so a behaviour runs the one in focus   *)
(* and the others rest in an initial state.                                *)
(***************************************************************************)
EXTENDS Routes, TokenBucket, ModelBench, RateLimiter, SubquotaMeters,
        MCRoutePlans, MCVendorAnswers, TLC

VARIABLE focus

\* Models, workers and accounts are treated alike.
Alike == Permutations(Models) \cup Permutations(Workers) \cup Permutations(Accounts)

MCInit ==
  /\ focus \in {"names", "bucket", "limiter", "bench", "meters"}
  /\ Init /\ LimiterInit /\ BenchInit
  /\ RoutesInit /\ (focus # "names" => paused = ProviderNames)
  /\ IF focus = "meters" THEN MeterInit ELSE answer = (CHOOSE a \in Answers : TRUE) /\ snap = NotRead

MCNext ==
  \/ focus = "names" /\ RoutesNext /\ UNCHANGED <<focus, vars, limiterVars, benchVars, meterVars>>
  \/ focus = "bucket" /\ Next /\ UNCHANGED <<focus, nameVars, limiterVars, benchVars, meterVars>>
  \/ focus = "limiter" /\ LimiterNext /\ UNCHANGED <<focus, nameVars, vars, benchVars, meterVars>>
  \/ focus = "bench" /\ BenchNext /\ UNCHANGED <<focus, nameVars, vars, limiterVars, meterVars>>
  \/ focus = "meters" /\ MeterNext /\ UNCHANGED <<focus, nameVars, vars, limiterVars, benchVars>>

MCSpec == MCInit /\ [][MCNext]_<<focus, nameVars, vars, limiterVars, benchVars, meterVars>>
=============================================================================
