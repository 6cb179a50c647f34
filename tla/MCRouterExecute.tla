-------------------------- MODULE MCRouterExecute --------------------------
(* TLC instances: chains of one to three targets, two accounts each.       *)
EXTENDS RouterExecute, MCRoutePlans
=============================================================================
