-------------------------- MODULE AccountPoolAudit --------------------------
(***************************************************************************)
(* AccountPool watched by an auditor: history variables that only record   *)
(* what the upstream and the operator said, so that the promises of the    *)
(* pool's comments about verdicts can be stated against what happened      *)
(* instead of against the pool's own stamps.                               *)
(***************************************************************************)
EXTENDS AccountPool

VARIABLES
  refused,     \* account -> its last billing refusal nothing has overruled
  verdictAt    \* account -> the last verdict that asked to bench it

audit == <<refused, verdictAt>>

AuditInit == /\ Init
             /\ refused = [a \in Accounts |-> 0]
             /\ verdictAt = [a \in Accounts |-> 0]

Silent == UNCHANGED audit

Benching(kind) == kind \in {"rate_limited", "quota_payment", "gated", "region_locked"}

AuditAnswer(r, kind) ==
  LET a        == acct[r]
      overrule == kind = "ok" /\ refused[a] < since[r]
  IN  /\ Answer(r, kind)
      /\ refused' = IF overrule THEN [refused EXCEPT ![a] = 0] ELSE refused
      /\ verdictAt' = IF Benching(kind) THEN [verdictAt EXCEPT ![a] = now] ELSE verdictAt

AuditFail(r) ==
  LET a == acct[r]
      billed == learned[r] \in {"payment", "quota_payment"}
  IN  /\ Fail(r)
      /\ refused' = IF billed THEN [refused EXCEPT ![a] = now] ELSE refused
      /\ verdictAt' = IF learned[r] = "unauthorized" THEN [verdictAt EXCEPT ![a] = now]
                      ELSE verdictAt

AuditReset(a) == /\ Reset(a)
                 /\ refused' = [refused EXCEPT ![a] = 0]
                 /\ UNCHANGED verdictAt

AuditPark(a) == /\ Park(a)
                /\ verdictAt' = [verdictAt EXCEPT ![a] = now]
                /\ UNCHANGED refused

AuditQuotaGate(r) == /\ QuotaGate(r)
                     /\ verdictAt' = [a \in Accounts |-> now]
                     /\ UNCHANGED refused

AuditRelayBroken(r) == /\ RelayBroken(r)
                       /\ verdictAt' = [verdictAt EXCEPT ![acct[r]] = now]
                       /\ UNCHANGED refused

AuditNext ==
  \/ Tick /\ Silent
  \/ \E r \in Reqs :
       \/ AuditFail(r) \/ AuditQuotaGate(r) \/ AuditRelayBroken(r)
       \/ \E kind \in Answers : AuditAnswer(r, kind)
       \/ Silent /\ (NextPinned(r) \/ NextScan(r) \/ NextRefused(r) \/ Dispatch(r)
                     \/ begin(r) \/ GiveUp(r) \/ end(r) \/ Relayed(r))
  \/ \E a \in Accounts : AuditReset(a) \/ AuditPark(a)

AuditSpec == AuditInit /\ [][AuditNext]_<<vars, audit>>
-----------------------------------------------------------------------------
(* A credential the vendor refused for billing is not handed out again     *)
(* within the parole window, through any slot or pin, unless a request     *)
(* that began after the refusal succeeded or the operator re-enabled it    *)
(* (invalidate, paroleOpen, ok, revalidate).                               *)
TerminalParked ==
  [][\A r \in Reqs, a \in Accounts :
        Picks(r, a) /\ refused[a] # 0 => now >= refused[a] + BillingParole]_<<vars, audit>>

Succeeds(r) == pc[r] = "flying" /\ pc'[r] = "answered" /\ learned'[r] = "ok"

(* What the comment on ok says: a bench stamped during a request's flight  *)
(* is a fresher verdict than its success and survives it.                  *)
FreshVerdictSurvives ==
  [][\A r \in Reqs :
        LET s == Lead[acct[r]]
        IN  Succeeds(r) /\ verdictAt[acct[r]] >= since[r] /\ cooldown[s] > now
              => cooldown'[s] = cooldown[s]]_<<vars, audit>>
=============================================================================
