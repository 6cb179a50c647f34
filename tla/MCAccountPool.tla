--------------------------- MODULE MCAccountPool ---------------------------
(* TLC instances of AccountPool under its auditor: two credentials, one of *)
(* them with a second slot in the weighted configuration.                  *)
EXTENDS AccountPoolAudit, TLC

CONSTANTS keyA, keyB, slotA1, slotA2, slotB, req1, req2, req3, convId, teamId

PlainOwner == slotA1 :> keyA @@ slotB :> keyB
WeightedOwner == slotA1 :> keyA @@ slotA2 :> keyA @@ slotB :> keyB
FirstSlot == keyA :> slotA1 @@ keyB :> slotB

OneId == req1 :> convId @@ req2 :> convId @@ req3 :> convId
TwoIds == req1 :> convId @@ req2 :> teamId
Unpinned == convId :> 0
BothPinned == convId :> 2 @@ teamId :> 2

NoRpm == keyA :> 0 @@ keyB :> 0
SomeRpm == keyA :> 2 @@ keyB :> 0

\* Swapping the credentials with their slots, or the requests with their
\* identities, changes nothing in the plain configuration.
KeySwap == keyA :> keyB @@ keyB :> keyA @@ slotA1 :> slotB @@ slotB :> slotA1
ReqSwap == req1 :> req2 @@ req2 :> req1 @@ convId :> teamId @@ teamId :> convId
Swapped(keys, reqs) ==
  [v \in DOMAIN KeySwap \cup DOMAIN ReqSwap |->
     IF keys /\ v \in DOMAIN KeySwap THEN KeySwap[v]
     ELSE IF reqs /\ v \in DOMAIN ReqSwap THEN ReqSwap[v] ELSE v]
PlainSymmetry == {Swapped(keys, reqs) : keys \in BOOLEAN, reqs \in BOOLEAN}
=============================================================================
