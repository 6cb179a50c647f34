------------------------------ MODULE Subquota ------------------------------
(***************************************************************************)
(* The subscription-quota tracker (internal/subquota, server/subquota.go): *)
(* each cycle one goroutine an account probes the vendor, stores what it   *)
(* read and parks the account in the live pool while the vendor says it is *)
(* drained; the cycles count from the end of the first poll.  A reload     *)
(* starts a second tracker, which inherits the first one's snapshots; Stop *)
(* waits for no probe.                                                     *)
(*                                                                         *)
(* One provider.  What a probe reads is SubquotaMeters' business: here it  *)
(* is drained, spendable or failed; a snapshot is known by its account and *)
(* key, whatever it says.                                                  *)
(***************************************************************************)
EXTENDS Naturals, FiniteSets

CONSTANTS
  Subscribed,
  Cycle,         \* pollEvery
  Timeout,       \* probeTimeout, less than a cycle
  MaxPollTime    \* bound: the clock

ASSUME PollAssumption ==
  Cycle \in Nat /\ Timeout \in Nat /\ Timeout < Cycle /\ MaxPollTime \in Nat

Trackers == 1..2

VARIABLES
  pollNow,
  vendor,       \* what the vendor would say of each account
  spare,        \* history: ticks since it last said drained, as far as it matters
  key,          \* the credential of each account, rotated once
  park,         \* until when the live pool parks each account
  reloadStage,  \* the reload: "none", "built", "inherited", "done"
  ticker,       \* each tracker's ticker: "none", "waits" for the first poll, "runs"
  due,          \* its next tick
  probe,        \* each tracker's probe of each account
  snaps,        \* each tracker's snapshots, kept by account and key
  inherited     \* history: when the second tracker inherited

pollVars == <<pollNow, vendor, spare, key, park, reloadStage, ticker, due, probe, snaps,
              inherited>>

Long == Cycle + Timeout + 1
NoProbe == [at |-> "idle", key |-> 0, since |-> 0, saw |-> "failed"]

PollInit ==
  /\ pollNow = 1 /\ vendor = [a \in Subscribed |-> "spendable"] /\ spare = [a \in Subscribed |-> Long]
  /\ key = [a \in Subscribed |-> 1] /\ park = [a \in Subscribed |-> 0] /\ reloadStage = "none"
  /\ ticker = [t \in Trackers |-> "none"] /\ due = [t \in Trackers |-> 0]
  /\ probe = [t \in Trackers |-> [a \in Subscribed |-> NoProbe]]
  /\ snaps = [t \in Trackers |-> {}] /\ inherited = 0

-----------------------------------------------------------------------------
Running(t) == (t = 1 /\ reloadStage # "done") \/ (t = 2 /\ reloadStage # "none")

Quiescent(t) == \A a \in Subscribed : probe[t][a].at = "idle"

\* loop: the first poll at once, every other as the ticker fires.
Due(t) == \/ ticker[t] = "none"
          \/ ticker[t] = "runs" /\ pollNow >= due[t]

\* poll: every target's goroutine starts with the credential of the moment
\* (liveSubKey).  The loop waits for all of them.
Poll(t) ==
  /\ Running(t) /\ Due(t) /\ Quiescent(t)
  /\ IF ticker[t] = "none" THEN ticker' = [ticker EXCEPT ![t] = "waits"] /\ UNCHANGED due
     ELSE due' = [due EXCEPT ![t] = pollNow + Cycle] /\ UNCHANGED ticker
  /\ probe' = [probe EXCEPT ![t] =
       [a \in Subscribed |-> [at |-> "sent", key |-> key[a], since |-> pollNow, saw |-> "failed"]]]
  /\ UNCHANGED <<pollNow, vendor, spare, key, park, reloadStage, snaps, inherited>>

\* loop: the first poll has ended.
NewTicker(t) ==
  /\ ticker[t] = "waits" /\ Quiescent(t)
  /\ ticker' = [ticker EXCEPT ![t] = "runs"] /\ due' = [due EXCEPT ![t] = pollNow + Cycle]
  /\ UNCHANGED <<pollNow, vendor, spare, key, park, reloadStage, probe, snaps, inherited>>

\* The vendor decides, or the connection fails; the answer is on its way.
Answered(t, a) ==
  /\ probe[t][a].at = "sent"
  /\ \E saw \in {vendor[a], "failed"} :
       probe' = [probe EXCEPT ![t][a] = [@ EXCEPT !.at = "answered", !.saw = saw]]
  /\ UNCHANGED <<pollNow, vendor, spare, key, park, reloadStage, ticker, due, snaps, inherited>>

\* A plausible bug: a rotated key's snapshot is left beside the new one.
Mut_Replaced_Keeps(t, a, k) == {s \in snaps[t] : s.account # a \/ s.key # k}

\* The account's other snapshots go.
Replaced(t, a, k) == {s \in snaps[t] : s.account # a}

\* Under the tracker's lock the new snapshot, error or not, replaces the
\* account's others.
StoreSnap(t, a) ==
  /\ probe[t][a].at = "answered"
  /\ LET p == probe[t][a] IN
     snaps' = [snaps EXCEPT ![t] =
       Replaced(t, a, p.key) \cup {[account |-> a, key |-> p.key]}]
  /\ probe' = [probe EXCEPT ![t][a] = [@ EXCEPT !.at = "stored"]]
  /\ UNCHANGED <<pollNow, vendor, spare, key, park, reloadStage, ticker, due, inherited>>

\* A plausible bug: the vendor's reset, however far, ends the park.
Mut_ParkUntil_Vendor(reset) == pollNow + reset

\* The park ends with the vendor's reset or, at the latest, a cycle from now.
ParkUntil(reset) == pollNow + IF reset < Cycle THEN reset ELSE Cycle

\* parkExhaustedSubscription: into whatever pool is live by now; a park never
\* shortens (accountPool.cool).
Parked(a, until) == [park EXCEPT ![a] = IF until > @ THEN until ELSE @]

\* The probe's goroutine ends; a drained account is parked on the way.
parkIfExhausted(t, a) ==
  /\ probe[t][a].at = "stored"
  /\ probe' = [probe EXCEPT ![t][a] = NoProbe]
  /\ IF probe[t][a].saw = "drained"
     THEN \E reset \in {1, Cycle, 2 * Cycle + Timeout} : park' = Parked(a, ParkUntil(reset))
     ELSE UNCHANGED park
  /\ UNCHANGED <<pollNow, vendor, spare, key, reloadStage, ticker, due, snaps, inherited>>

-----------------------------------------------------------------------------
\* apply: the new tracker polls from the moment it is made, before it
\* inherits and before the new state is stored.
BuildTracker ==
  /\ reloadStage = "none" /\ reloadStage' = "built"
  /\ UNCHANGED <<pollNow, vendor, spare, key, park, ticker, due, probe, snaps, inherited>>

\* A snapshot of the same account and key is overwritten by the inherited one.
InheritSnaps ==
  /\ reloadStage = "built" /\ reloadStage' = "inherited" /\ inherited' = pollNow
  /\ snaps' = [snaps EXCEPT ![2] = snaps[1] \cup @]
  /\ UNCHANGED <<pollNow, vendor, spare, key, park, ticker, due, probe>>

\* The new pool knows no park; the old tracker is told to stop.
StoreState ==
  /\ reloadStage = "inherited" /\ reloadStage' = "done" /\ park' = [a \in Subscribed |-> 0]
  /\ UNCHANGED <<pollNow, vendor, spare, key, ticker, due, probe, snaps, inherited>>

-----------------------------------------------------------------------------
Rotate(a) == /\ key[a] = 1 /\ key' = [key EXCEPT ![a] = 2]
             /\ UNCHANGED <<pollNow, vendor, spare, park, reloadStage, ticker, due, probe, snaps, inherited>>

VendorTurns(a) ==
  /\ vendor' = [vendor EXCEPT ![a] = IF @ = "drained" THEN "spendable" ELSE "drained"]
  /\ spare' = [spare EXCEPT ![a] = 0]
  /\ UNCHANGED <<pollNow, key, park, reloadStage, ticker, due, probe, snaps, inherited>>

\* The tickers are punctual, no probe outlives its timeout, and what follows a
\* probe is immediate.
PollTick ==
  /\ pollNow < MaxPollTime /\ pollNow' = pollNow + 1
  /\ \A t \in Trackers : ~(Running(t) /\ Due(t)) /\ ~(ticker[t] = "waits" /\ Quiescent(t))
  /\ \A t \in Trackers, a \in Subscribed :
       /\ probe[t][a].at # "stored"
       /\ probe[t][a].at # "idle" => pollNow < probe[t][a].since + Timeout
  /\ spare' = [a \in Subscribed |-> IF vendor[a] = "drained" THEN 0
                                     ELSE IF spare[a] = Long THEN Long ELSE spare[a] + 1]
  /\ UNCHANGED <<vendor, key, park, reloadStage, ticker, due, probe, snaps, inherited>>

PollNext ==
  \/ \E t \in Trackers : Poll(t) \/ NewTicker(t)
  \/ \E t \in Trackers, a \in Subscribed :
       Answered(t, a) \/ StoreSnap(t, a) \/ parkIfExhausted(t, a)
  \/ BuildTracker \/ InheritSnaps \/ StoreState \/ PollTick
  \/ \E a \in Subscribed : Rotate(a) \/ VendorTurns(a)

PollSpec == PollInit /\ [][PollNext]_pollVars

-----------------------------------------------------------------------------
(* Self-healing: an account is parked only while its vendor says drained,  *)
(* or said so within a cycle and a probe's timeout, whatever the probes    *)
(* in flight, the reload and an early reset do (parkIfExhausted's cap).    *)
SelfHeals ==
  \A a \in Subscribed : park[a] > pollNow => spare[a] <= Cycle + Timeout

(* One snapshot per provider and account (poll): an inherited snapshot of  *)
(* a credential rotated meanwhile stands beside the new one until the next *)
(* poll has ended, and no longer.  That is a cycle and a probe's timeout   *)
(* after the Inherit, and one timeout more where the first poll was still  *)
(* waiting for another account's probe (loop).                             *)
OneSnapshot ==
  \A t \in Trackers : \A s1, s2 \in snaps[t] :
    (s1.account = s2.account /\ s1 # s2) =>
      t = 2 /\ pollNow <= inherited + Cycle + 2 * Timeout

(* The poll's verdicts follow the vendor's, through resets, reloads and    *)
(* overlapping probes.                                                     *)
PollHonest == SelfHeals /\ OneSnapshot
=============================================================================
