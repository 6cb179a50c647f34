---------------------------- MODULE MCLifecycles ----------------------------
(***************************************************************************)
(* TLC instance of what lives beside the requests: the usage trackers with *)
(* their flushes and pushes, the stored OAuth token and its refreshes, the *)
(* dashboard's sign-in flows, and the gateway process through an update of *)
(* itself.  They share no state, so a behaviour runs the one in focus and  *)
(* the others rest in an initial state.                                    *)
(***************************************************************************)
EXTENDS UsagePipeline, UsagePush, TokenStore, OAuthLogin, SelfUpdate

VARIABLE focus

\* What the proofs about the token store assume of its users.
ASSUME StoreIds == StoreAssumption

MCInit ==
  /\ focus \in {"usage", "push", "tokens", "logins", "update"}
  /\ Init /\ PushInit /\ StoreInit /\ LoginInit /\ UpdateInit
  /\ focus # "tokens" => loop = CHOOSE j \in Loops : TRUE
  /\ focus # "update" => quality = "good"

MCNext ==
  \/ /\ focus = "usage" /\ Next
     /\ UNCHANGED <<focus, pushVars, storeVars, loginVars, updateVars>>
  \/ /\ focus = "push" /\ PushNext
     /\ UNCHANGED <<focus, vars, storeVars, loginVars, updateVars>>
  \/ /\ focus = "tokens" /\ StoreNext
     /\ UNCHANGED <<focus, vars, pushVars, loginVars, updateVars>>
  \/ /\ focus = "logins" /\ LoginNext
     /\ UNCHANGED <<focus, vars, pushVars, storeVars, updateVars>>
  \/ /\ focus = "update" /\ UpdateNext
     /\ UNCHANGED <<focus, vars, pushVars, storeVars, loginVars>>

all == <<focus, vars, pushVars, storeVars, loginVars, updateVars>>

\* Of the fair actions only the refresh loops' ticks are enabled at rest.
MCSpec ==
  /\ MCInit /\ [][MCNext]_all
  /\ Fairness /\ PushFairness /\ LoginFairness /\ UpdateFairness
  /\ WF_storeVars(focus = "tokens" /\ SomeTick)
  /\ \A j \in Loops : WF_storeVars(Step(j))
  /\ WF_storeVars(\E j \in Commands \cup Others : pc[j] # "idle" /\ Step(j))
-----------------------------------------------------------------------------
\* Work begun beside the requests and not done yet: a reload's Stop of the old
\* tracker, a push of its windows, a token that is due for a refresh, a
\* sign-out that waits for a login, the hold on the vendor's port, an update.
Unfinished ==
  \/ focus = "usage" /\ Stopping
  \/ focus = "push" /\ Undelivered
  \/ focus = "tokens" /\ Overdue
  \/ focus = "logins" /\ (PortKept \/ \E k \in Outs : Awaited(k))
  \/ focus = "update" /\ Updating

\* None of it lasts for ever.
Ends == Unfinished ~> ~Unfinished
=============================================================================
