--------------------------- MODULE LifecycleProofs ---------------------------
(***************************************************************************)
(* Proofs about what lives beside the requests: the token store, the       *)
(* dashboard's sign-in flows and the self-update.                          *)
(*                                                                         *)
(* TokenStore, for any loops, commands, writers and bounds.                *)
(* Single, Locked and Stamped hold on every path.  Custody says where the  *)
(* rotating credential is as long as nothing excuses its loss: in the hand *)
(* of one carrier, who alone knows it, or in the file -- and every process *)
(* that believes itself in step with the file has exactly the file's copy, *)
(* so that no write puts an older one back.                                *)
(*                                                                         *)
(* OAuthLogin, for any accounts, attempts and callers.  A cancelled login  *)
(* that is still pending has its sign-out waiting (Waits); as long as      *)
(* nobody pasted a code, whatever can still store a token belongs to the   *)
(* pending login of its account (Orderly), so that a token deleted with    *)
(* none pending and none crossing has nothing behind it (Quit) and nobody  *)
(* who read it before (Unheld).                                            *)
(*                                                                         *)
(* SelfUpdate, for any processes, updates and kills.  One update runs at a *)
(* time, in a serving process of the old build (Runs), two processes are   *)
(* on the port only while one hands it to the other (Handover), and the    *)
(* binary or its backup has failed no handoff (OnDisk).                    *)
(***************************************************************************)
EXTENDS TokenStore, OAuthLogin, SelfUpdate, FiniteSetTheorems, WellFoundedInduction, TLAPS

Refreshing(j) == pc[j] \in {"ask", "sent", "got", "write", "rename", "stat", "done", "failed"}

\* A loop past the single-flight mark holds it, alone.
Single == \A i, j \in Loops : Refreshing(i) => busy /\ (Refreshing(j) => i = j)

\* A job inside the store's critical section holds its process's mutex.
Locked == \A j \in Jobs : pc[j] \in {"write", "rename", "stat"} => lock[Proc(j)] = j

\* No token is stamped in the future; an unread process holds none.
Stamped ==
  /\ file.at <= clock /\ tmp.tok.at <= clock
  /\ \A p \in Procs : /\ resident[p].at <= clock /\ seen[p] <= ver
                      /\ seen[p] = Unread => resident[p] = None

\* Only a refresh exchanges tokens with the vendor.
Roles == \A j \in Others : pc[j] \notin {"due", "ask", "sent", "got"}

Excused == lost \/ overlap \/ deleted

Clients == Loops \cup Commands

Carrier(j) == pc[j] \in {"got", "write", "rename"}
Storing(j) == pc[j] \in {"write", "rename"}

\* A carrier alone knows the credential the vendor accepts.
Carried ==
  \A j \in Clients : Carrier(j) =>
    /\ held[j] = vendor /\ file.rt < vendor
    /\ \A i \in Jobs \ {j} : held[i] < vendor
    /\ \A i \in Clients : Carrier(i) => i = j
    /\ \A p \in Procs : resident[p].rt < vendor \/ (p = Proc(j) /\ Storing(j))
    /\ Storing(j) => resident[Proc(j)] = [rt |-> vendor, at |-> clock] /\ file.at < clock

\* A process that stores nothing new has nothing newer than the file.
InStep ==
  \A p \in Procs :
    (\A j \in Clients : Proc(j) = p => ~Storing(j))
      => resident[p].at <= file.at /\ (seen[p] = ver => resident[p] = file)

\* One job at a time is between its temporary file and its last look.
Apart ==
  /\ \A i, j \in Jobs : InPersist(i) /\ InPersist(j) => i = j
  /\ \A j \in Jobs : /\ pc[j] = "rename" => tmp.there /\ tmp.tok = resident[Proc(j)]
                     /\ pc[j] = "rename" /\ j \in Others => tmp.tok = file
                     /\ pc[j] = "stat" => resident[Proc(j)] = file

\* With no carrier about, the credential is in the file.
Filed ==
  /\ file.rt # 0 /\ file.rt <= vendor
  /\ \A i \in Jobs : held[i] <= vendor
  /\ \A p \in Procs : resident[p].rt <= vendor
  /\ (\A j \in Clients : ~Carrier(j)) => Holds(file)

Safe == Carried /\ InStep /\ Apart /\ Filed

Custody == Excused \/ Safe

Labels == {"idle", "due", "ask", "sent", "got", "write", "rename", "stat", "done", "failed"}
Token  == [rt : Nat, at : Nat]

TypeOK ==
  /\ file \in Token /\ ver \in Nat \ {0}
  /\ tmp \in [there : BOOLEAN, tok : Token]
  /\ resident \in [Procs -> Token] /\ seen \in [Procs -> Nat]
  /\ lock \in [Procs -> Jobs \cup {"none"}]
  /\ busy \in BOOLEAN /\ loop \in Loops
  /\ pc \in [Jobs -> Labels] /\ held \in [Jobs -> Nat]
  /\ clock \in Nat /\ vendor \in Nat /\ due \in Nat
  /\ lost \in BOOLEAN /\ overlap \in BOOLEAN /\ deleted \in BOOLEAN
  /\ faults \in Nat

IInv == TypeOK /\ Single /\ Locked /\ Stamped /\ Roles /\ Custody
-----------------------------------------------------------------------------
(* Types.                                                                  *)

LEMMA ProcOf == ASSUME NEW j \in Jobs PROVE Proc(j) \in Procs
  BY DEF Proc, Procs

LEMMA SyncedType == ASSUME TypeOK, NEW p \in Procs PROVE Synced(p) \in Token
  BY DEF TypeOK, Synced, mergeNewer

LEMMA SyncTypes ==
  ASSUME TypeOK, NEW p \in Procs, Sync(p)
  PROVE  resident' \in [Procs -> Token] /\ seen' \in [Procs -> Nat]
  BY SyncedType DEF TypeOK, Sync

LEMMA GetTypes ==
  ASSUME TypeOK, NEW p \in Procs, NEW t, Get(p, t)
  PROVE  /\ resident' \in [Procs -> Token] /\ seen' \in [Procs -> Nat] /\ t \in Token
         /\ UNCHANGED <<file, ver, tmp, lock, clock, overlap, deleted>>
  BY SyncTypes, SyncedType DEF Get, TypeOK

LEMMA NoToken == /\ None \in Token /\ None.rt = 0 /\ None.at = 0
                 /\ [there |-> FALSE, tok |-> None] \in [there : BOOLEAN, tok : Token]
<1>1. None \in Token /\ None.rt = 0 /\ None.at = 0
  BY DEF None, Token
<1> QED
  BY <1>1

LEMMA InitTypes == StoreInit => TypeOK
<1>1. [rt |-> 1, at |-> 1] \in Token
  BY DEF Token
<1> SUFFICES ASSUME StoreInit PROVE TypeOK
  OBVIOUS
<1>2. file \in Token /\ ver \in Nat \ {0} /\ tmp \in [there : BOOLEAN, tok : Token]
  BY <1>1, NoToken DEF StoreInit
<1>3. resident \in [Procs -> Token] /\ seen \in [Procs -> Nat]
  BY NoToken DEF StoreInit, Unread
<1>4. pc \in [Jobs -> Labels] /\ held \in [Jobs -> Nat] /\ lock \in [Procs -> Jobs \cup {"none"}]
  BY DEF StoreInit, Labels
<1> QED
  BY <1>2, <1>3, <1>4 DEF StoreInit, TypeOK

LEMMA StepTypes == TypeOK /\ [StoreNext]_storeVars => TypeOK'
<1> SUFFICES ASSUME TypeOK, [StoreNext]_storeVars PROVE TypeOK'
  OBVIOUS
<1>1. ASSUME NEW j \in Jobs, Write(j) PROVE TypeOK'
  <2>1. Proc(j) \in Procs
    BY ProcOf
  <2>2. resident' \in [Procs -> Token] /\ seen' \in [Procs -> Nat] /\ Synced(Proc(j)) \in Token
    BY <1>1, <2>1, SyncTypes, SyncedType DEF Write
  <2>3. tmp' \in [there : BOOLEAN, tok : Token] /\ overlap' \in BOOLEAN
    BY <1>1, <2>2 DEF Write, TypeOK, Crossing
  <2>4. pc' \in [Jobs -> Labels]
    BY <1>1 DEF Write, TypeOK, Labels
  <2> QED
    BY <1>1, <2>2, <2>3, <2>4 DEF Write, TypeOK
<1>2. ASSUME NEW j \in Jobs, Rename(j) PROVE TypeOK'
  <2>1. tmp' \in [there : BOOLEAN, tok : Token] /\ file' \in Token /\ ver' \in Nat \ {0}
    <3>1. tmp.tok \in Token /\ ver + 1 \in Nat \ {0}
      BY DEF TypeOK
    <3>2. CASE tmp.there
      BY <1>2, <3>1, <3>2, NoToken DEF Rename
    <3>3. CASE ~tmp.there
      BY <1>2, <3>3 DEF Rename, TypeOK
    <3> QED
      BY <3>2, <3>3
  <2>2. pc' \in [Jobs -> Labels] /\ lock' \in [Procs -> Jobs \cup {"none"}]
    BY <1>2, ProcOf DEF Rename, TypeOK, Labels
  <2> QED
    BY <1>2, <2>1, <2>2 DEF Rename, TypeOK
<1>3. ASSUME NEW j \in Jobs, Stat(j) PROVE TypeOK'
  BY <1>3, ProcOf DEF Stat, TypeOK, Labels
<1>4. ASSUME NEW j \in Jobs, Put(j) PROVE TypeOK'
  BY <1>4, ProcOf DEF Put, TypeOK, Labels, Token
<1>5. ASSUME NEW j \in Others, PutOther(j) PROVE TypeOK'
  <2>1. j \in Jobs /\ "gateway" \in Procs
    BY DEF Jobs, Procs
  <2> QED
    BY <1>5, <2>1, SyncTypes DEF PutOther, TypeOK, Labels
<1>6. ASSUME NEW j \in Others, Delete(j) PROVE TypeOK'
  <2>1. j \in Jobs /\ "gateway" \in Procs
    BY DEF Jobs, Procs
  <2> QED
    BY <1>6, <2>1 DEF Delete, TypeOK, Labels, Token, None
<1>7. CASE SomeTick
  <2>1. PICK j \in Loops : Tick(j)
    BY <1>7 DEF SomeTick
  <2>2. PICK t \in {resident["gateway"], Synced("gateway")} :
          /\ Get("gateway", t) /\ pc' = [pc EXCEPT ![j] = "due"]
          /\ UNCHANGED <<busy, loop, held, vendor, due, lost, faults>>
    BY <2>1 DEF Tick
  <2>3. j \in Jobs /\ "gateway" \in Procs
    BY DEF Jobs, Procs
  <2> QED
    BY <2>2, <2>3, GetTypes DEF TypeOK, Labels
<1>8. ASSUME NEW j \in Jobs, Ask(j) PROVE TypeOK'
  <2>1. PICK t : /\ Get(Proc(j), t) /\ held' = [held EXCEPT ![j] = t.rt]
                 /\ pc' = [pc EXCEPT ![j] = IF t = None THEN "failed" ELSE "sent"]
                 /\ UNCHANGED <<busy, loop, vendor, due, lost, faults>>
    BY <1>8 DEF Ask
  <2>2. t.rt \in Nat
    BY <2>1, GetTypes, ProcOf DEF Token
  <2> QED
    BY <2>1, <2>2, GetTypes, ProcOf DEF TypeOK, Labels
<1>9. ASSUME NEW j \in Jobs, Claim(j) \/ Settle(j) \/ Grant(j) \/ Refuse(j) \/ NoAnswer(j)
      PROVE  TypeOK'
  <2>1. \E l \in Labels : pc' = [pc EXCEPT ![j] = l]
    BY <1>9 DEF Claim, Settle, Grant, Refuse, NoAnswer, Labels
  <2>2. UNCHANGED store /\ loop' = loop /\ due' = due
    BY <1>9 DEF Claim, Settle, Grant, Refuse, NoAnswer
  <2>3. lost' \in BOOLEAN
    <3>1. lost' = lost \/ lost' = TRUE
      BY <1>9 DEF Claim, Settle, Grant, Refuse, NoAnswer
    <3> QED
      BY <3>1 DEF TypeOK
  <2>4. busy' \in BOOLEAN
    <3>1. busy' = busy \/ busy' = TRUE \/ busy' = FALSE
      BY <1>9 DEF Claim, Settle, Grant, Refuse, NoAnswer
    <3> QED
      BY <3>1 DEF TypeOK
  <2>5. vendor' \in Nat /\ faults' \in Nat
    BY <1>9 DEF Claim, Settle, Grant, Refuse, NoAnswer, TypeOK
  <2>6. held' \in [Jobs -> Nat]
    BY <1>9 DEF Claim, Settle, Grant, Refuse, NoAnswer, TypeOK
  <2> QED
    BY <2>1, <2>2, <2>3, <2>4, <2>5, <2>6 DEF store, TypeOK
<1>10. CASE Lapse \/ Restart
  BY <1>10 DEF Lapse, Restart, TypeOK, store
<1>11. ASSUME NEW p \in Procs, Dies(p) PROVE TypeOK'
  <2>1. /\ resident' \in [Procs -> Token] /\ seen' \in [Procs -> Nat]
        /\ lock' \in [Procs -> Jobs \cup {"none"}]
    BY <1>11 DEF Dies, TypeOK, None, Token, Unread
  <2>2. pc' \in [Jobs -> Labels]
    BY <1>11 DEF Dies, TypeOK, Labels
  <2>3. busy' \in BOOLEAN /\ lost' \in BOOLEAN
    BY <1>11 DEF Dies, TypeOK, Carries
  <2> QED
    BY <1>11, <2>1, <2>2, <2>3 DEF Dies, TypeOK
<1>12. CASE UNCHANGED storeVars
  BY <1>12 DEF storeVars, TypeOK
<1>13. Loops \cup Commands \subseteq Jobs
  BY DEF Jobs
<1> QED
  BY <1>1, <1>2, <1>3, <1>4, <1>5, <1>6, <1>7, <1>8, <1>9, <1>10, <1>11, <1>12, <1>13
     DEF StoreNext, Step
-----------------------------------------------------------------------------
(* The single-flight mark.                                                 *)

\* What a step does to the mark and to the loops' progress.
LEMMA StepSingle ==
  ASSUME StoreAssumption, TypeOK, Single, [StoreNext]_storeVars
  PROVE  Single'
<1>0. Loops \subseteq Jobs /\ \A j \in Loops : j \notin Commands /\ Proc(j) = "gateway"
  BY DEF StoreAssumption, Jobs, Proc
<1>1. ASSUME NEW j \in Jobs, Refreshing(j) \/ j \notin Loops, busy' = busy,
             \E l : pc' = [pc EXCEPT ![j] = l]
      PROVE  Single'
  BY <1>0, <1>1 DEF Single, Refreshing, TypeOK
<1>2. ASSUME NEW j \in Jobs,
             Write(j) \/ Rename(j) \/ Stat(j) \/ Put(j) \/ Grant(j) \/ Refuse(j) \/ NoAnswer(j)
      PROVE  Single'
  <2>1. /\ Refreshing(j) /\ busy' = busy
        /\ \E l : pc' = [pc EXCEPT ![j] = l]
    BY <1>2 DEF Write, Rename, Stat, Put, Grant, Refuse, NoAnswer, Refreshing
  <2> QED
    BY <1>1, <2>1
<1>3. ASSUME NEW j \in Others, PutOther(j) \/ Delete(j) PROVE Single'
  <2>1. j \in Jobs /\ j \notin Loops
    BY DEF StoreAssumption, Jobs
  <2>2. busy' = busy /\ \E l : pc' = [pc EXCEPT ![j] = l]
    BY <1>3 DEF PutOther, Delete
  <2> QED
    BY <1>1, <2>1, <2>2
<1>4. ASSUME NEW j \in Clients, Ask(j) PROVE Single'
  <2>1. j \in Jobs /\ busy' = busy /\ (Refreshing(j) \/ j \notin Loops)
    BY <1>0, <1>4 DEF Ask, Clients, Jobs, Refreshing
  <2>2. \E l : pc' = [pc EXCEPT ![j] = l]
    BY <1>4 DEF Ask
  <2> QED
    BY <1>1, <2>1, <2>2
<1>5. ASSUME NEW j \in Loops, Claim(j) PROVE Single'
  BY <1>0, <1>5 DEF Claim, Single, Refreshing, TypeOK
<1>6. ASSUME NEW j \in Loops, Settle(j) PROVE Single'
  BY <1>0, <1>6 DEF Settle, Single, Refreshing, TypeOK
<1>7. CASE SomeTick
  <2>1. PICK j \in Loops : pc' = [pc EXCEPT ![j] = "due"] /\ busy' = busy
    BY <1>7 DEF SomeTick, Tick
  <2> QED
    BY <1>0, <2>1 DEF Single, Refreshing, TypeOK
<1>8. CASE Lapse \/ Restart \/ UNCHANGED storeVars
  BY <1>8 DEF Lapse, Restart, storeVars, Single, Refreshing
<1>9. ASSUME NEW p \in Procs, Dies(p) PROVE Single'
  <2>1. CASE p = "gateway"
    <3>1. \A j \in Loops : pc'[j] = "idle"
      BY <1>0, <1>9, <2>1 DEF Dies
    <3> QED
      BY <3>1 DEF Single, Refreshing
  <2>2. CASE p # "gateway"
    <3>1. busy' = busy /\ \A j \in Loops : pc'[j] = pc[j]
      BY <1>0, <1>9, <2>2 DEF Dies, TypeOK
    <3> QED
      BY <3>1 DEF Single, Refreshing
  <2> QED
    BY <2>1, <2>2
<1> QED
  BY <1>0, <1>2, <1>3, <1>4, <1>5, <1>6, <1>7, <1>8, <1>9 DEF StoreNext, Step, Clients, Jobs
-----------------------------------------------------------------------------
(* The store's mutex and its stamps.                                       *)

LEMMA StepLocked ==
  ASSUME StoreAssumption, TypeOK, Locked, [StoreNext]_storeVars
  PROVE  Locked'
<1> DEFINE Critical == {"write", "rename", "stat"}
<1>0. /\ Clients \subseteq Jobs /\ Others \subseteq Jobs
      /\ \A j \in Others : Proc(j) = "gateway"
      /\ \A j \in Jobs : Proc(j) \in Procs /\ j # "none"
  BY DEF StoreAssumption, Clients, Jobs, Proc, Procs
\* Entering, moving inside, leaving, and not touching the critical section.
<1>1. ASSUME NEW j \in Jobs, NEW l, pc' = [pc EXCEPT ![j] = l], lock' = lock,
             pc[j] \in Critical \/ l \notin Critical
      PROVE  Locked'
  BY <1>1 DEF Locked, TypeOK
<1>2. ASSUME NEW j \in Jobs, NEW l, pc' = [pc EXCEPT ![j] = l], Unlocked(Proc(j)),
             lock' = [lock EXCEPT ![Proc(j)] = j]
      PROVE  Locked'
  BY <1>0, <1>2 DEF Locked, TypeOK, Unlocked
<1>3. ASSUME NEW j \in Jobs, NEW l, pc' = [pc EXCEPT ![j] = l], pc[j] \in Critical,
             l \notin Critical, lock' = [lock EXCEPT ![Proc(j)] = "none"]
      PROVE  Locked'
  <2>1. lock[Proc(j)] = j
    BY <1>3 DEF Locked
  <2> QED
    BY <1>0, <1>3, <2>1 DEF Locked, TypeOK
<1>4. ASSUME NEW j \in Jobs, Step(j) PROVE Locked'
  <2>1. CASE Write(j)
    BY <1>1, <2>1 DEF Write
  <2>2. CASE Rename(j)
    BY <1>1, <1>3, <2>2 DEF Rename
  <2>3. CASE Stat(j)
    BY <1>3, <2>3 DEF Stat
  <2>4. CASE Put(j)
    BY <1>2, <2>4 DEF Put
  <2>5. CASE Ask(j)
    <3>1. lock' = lock /\ \E l \in {"failed", "sent"} : pc' = [pc EXCEPT ![j] = l]
      BY <2>5 DEF Ask, Get
    <3> QED
      BY <1>1, <3>1
  <2>6. CASE Grant(j) \/ Refuse(j) \/ Claim(j) \/ Settle(j)
    <3>1. lock' = lock /\ \E l \in Labels \ Critical : pc' = [pc EXCEPT ![j] = l]
      BY <2>6 DEF Grant, Refuse, Claim, Settle, store, Labels
    <3> QED
      BY <1>1, <3>1
  <2> QED
    BY <1>4, <2>1, <2>2, <2>3, <2>4, <2>5, <2>6 DEF Step
<1>5. ASSUME NEW j \in Others, PutOther(j) \/ Delete(j) PROVE Locked'
  BY <1>0, <1>2, <1>5 DEF PutOther, Delete
<1>6. ASSUME NEW j \in Clients, NoAnswer(j) PROVE Locked'
  BY <1>0, <1>1, <1>6 DEF NoAnswer, store
<1>7. CASE SomeTick
  <2>1. PICK j \in Loops : pc' = [pc EXCEPT ![j] = "due"] /\ lock' = lock
    BY <1>7 DEF SomeTick, Tick, Get
  <2> QED
    BY <1>0, <1>1, <2>1 DEF Clients
<1>8. CASE Lapse \/ Restart \/ UNCHANGED storeVars
  BY <1>8 DEF Lapse, Restart, store, storeVars, Locked
<1>9. ASSUME NEW p \in Procs, Dies(p) PROVE Locked'
  <2>1. ASSUME NEW j \in Jobs, pc'[j] \in Critical PROVE lock'[Proc(j)] = j
    <3>1. Proc(j) # p
      BY <1>9, <2>1 DEF Dies
    <3>2. pc'[j] = pc[j] /\ lock'[Proc(j)] = lock[Proc(j)]
      BY <1>0, <1>9, <3>1 DEF Dies, TypeOK
    <3> QED
      BY <2>1, <3>2 DEF Locked
  <2> QED
    BY <2>1 DEF Locked
<1> QED
  BY <1>4, <1>5, <1>6, <1>7, <1>8, <1>9 DEF StoreNext, Clients

LEMMA SyncedStamp ==
  ASSUME TypeOK, Stamped, NEW p \in Procs
  PROVE  Synced(p).at <= clock /\ (Synced(p) = None \/ Synced(p).at >= resident[p].at)
  BY NoToken DEF TypeOK, Token, Stamped, Synced, mergeNewer

LEMMA SyncStamped ==
  ASSUME TypeOK, Stamped, NEW p \in Procs, Sync(p), UNCHANGED <<file, ver, clock>>,
         tmp' = tmp \/ tmp'.tok = Synced(p)
  PROVE  Stamped'
<1>1. Synced(p).at <= clock
  BY SyncedStamp
<1>2. file'.at <= clock' /\ tmp'.tok.at <= clock'
  BY <1>1 DEF Stamped
<1>3. ASSUME NEW q \in Procs
      PROVE  resident'[q].at <= clock' /\ seen'[q] <= ver' /\ (seen'[q] = Unread => resident'[q] = None)
  <2>1. CASE q = p
    BY <1>1, <2>1 DEF Sync, TypeOK, Unread
  <2>2. CASE q # p
    BY <2>2 DEF Sync, TypeOK, Stamped
  <2> QED
    BY <2>1, <2>2
<1> QED
  BY <1>2, <1>3 DEF Stamped

LEMMA GetStamped ==
  ASSUME TypeOK, Stamped, NEW p \in Procs, NEW t, Get(p, t)
  PROVE  Stamped'
<1>1. CASE Sync(p)
  BY <1>1, SyncStamped DEF Get
<1>2. CASE UNCHANGED <<resident, seen>>
  BY <1>2 DEF Get, Stamped
<1> QED
  BY <1>1, <1>2 DEF Get

LEMMA StepStamped ==
  ASSUME StoreAssumption, TypeOK, Stamped, [StoreNext]_storeVars
  PROVE  Stamped'
<1>0. /\ "gateway" \in Procs /\ \A j \in Jobs : Proc(j) \in Procs
      /\ Clients \subseteq Jobs
  BY ProcOf DEF Procs, Clients, Jobs
<1>1. ASSUME UNCHANGED <<file, ver, tmp, resident, seen, clock>> PROVE Stamped'
  BY <1>1 DEF Stamped
<1>2. ASSUME NEW j \in Jobs, Write(j) PROVE Stamped'
  BY <1>0, <1>2, SyncStamped DEF Write
<1>3. ASSUME NEW j \in Jobs, Rename(j) PROVE Stamped'
  BY <1>3, NoToken DEF Rename, Stamped, TypeOK, Token
<1>4. ASSUME NEW j \in Jobs, Stat(j) PROVE Stamped'
  BY <1>0, <1>4 DEF Stat, Stamped, TypeOK, Unread
<1>5. ASSUME NEW j \in Jobs, Put(j) PROVE Stamped'
  <2>1. clock' = clock + 1 /\ file' = file /\ tmp' = tmp /\ ver' = ver
        /\ resident' = [resident EXCEPT ![Proc(j)] = [rt |-> held[j], at |-> clock + 1]]
        /\ seen' = [seen EXCEPT ![Proc(j)] = ver]
    BY <1>5 DEF Put
  <2> QED
    BY <1>0, <2>1 DEF Stamped, TypeOK, Token, Unread
<1>6. ASSUME NEW j \in Others, PutOther(j) \/ Delete(j) PROVE Stamped'
  <2>1. CASE PutOther(j)
    BY <1>0, <2>1, SyncStamped DEF PutOther
  <2>2. CASE Delete(j)
    BY <1>0, <2>2, NoToken DEF Delete, Stamped, TypeOK, Unread
  <2> QED
    BY <1>6, <2>1, <2>2
<1>7. ASSUME NEW j \in Clients, Ask(j) PROVE Stamped'
  BY <1>0, <1>7, GetStamped DEF Ask
<1>8. CASE SomeTick
  BY <1>0, <1>8, GetStamped DEF SomeTick, Tick
<1>9. ASSUME NEW j \in Jobs, Grant(j) \/ Refuse(j) \/ Claim(j) \/ Settle(j) \/ NoAnswer(j)
      PROVE  Stamped'
  BY <1>1, <1>9 DEF Grant, Refuse, Claim, Settle, NoAnswer, store
<1>10. CASE Lapse \/ Restart \/ UNCHANGED storeVars
  BY <1>1, <1>10 DEF Lapse, Restart, store, storeVars
<1>11. ASSUME NEW p \in Procs, Dies(p) PROVE Stamped'
  BY <1>11, NoToken DEF Dies, Stamped, TypeOK, Unread
<1> QED
  BY <1>0, <1>2, <1>3, <1>4, <1>5, <1>6, <1>7, <1>8, <1>9, <1>10, <1>11 DEF StoreNext, Step, Clients

LEMMA StepRoles ==
  ASSUME StoreAssumption, TypeOK, Roles, [StoreNext]_storeVars
  PROVE  Roles'
<1> DEFINE Ours == {"due", "ask", "sent", "got"}
<1>0. /\ Clients \subseteq Jobs /\ Others \subseteq Jobs /\ Clients \cap Others = {}
  BY DEF StoreAssumption, Clients, Jobs
<1>1. ASSUME NEW j \in Jobs, NEW l, pc' = [pc EXCEPT ![j] = l], j \in Clients \/ l \notin Ours
      PROVE  Roles'
  BY <1>0, <1>1 DEF Roles, TypeOK
<1>2. ASSUME NEW j \in Jobs, Step(j) PROVE Roles'
  <2>1. CASE j \in Clients
    <3>1. \E l : pc' = [pc EXCEPT ![j] = l]
      BY <1>2 DEF Step, Write, Rename, Stat, Put, Ask, Grant, Refuse, Claim, Settle
    <3> QED
      BY <1>1, <2>1, <3>1
  <2>2. CASE j \notin Clients
    <3>1. \E l \in Labels \ Ours : pc' = [pc EXCEPT ![j] = l]
      BY <1>2, <2>2 DEF Step, Write, Rename, Stat, Put, Labels, Clients
    <3> QED
      BY <1>1, <3>1
  <2> QED
    BY <2>1, <2>2
<1>3. ASSUME NEW j \in Others, PutOther(j) \/ Delete(j) PROVE Roles'
  BY <1>0, <1>1, <1>3 DEF PutOther, Delete
<1>4. ASSUME NEW j \in Clients, NoAnswer(j) PROVE Roles'
  BY <1>0, <1>1, <1>4 DEF NoAnswer
<1>5. CASE SomeTick
  <2>1. PICK j \in Loops : pc' = [pc EXCEPT ![j] = "due"]
    BY <1>5 DEF SomeTick, Tick
  <2> QED
    BY <1>0, <1>1, <2>1 DEF Clients
<1>6. CASE Lapse \/ Restart \/ UNCHANGED storeVars
  BY <1>6 DEF Lapse, Restart, storeVars, Roles
<1>7. ASSUME NEW p \in Procs, Dies(p) PROVE Roles'
  BY <1>0, <1>7 DEF Dies, Roles
<1> QED
  BY <1>2, <1>3, <1>4, <1>5, <1>6, <1>7 DEF StoreNext, Clients
-----------------------------------------------------------------------------
(* The custody of the credential, action by action.                        *)

LEMMA WhoIsWho ==
  ASSUME StoreAssumption
  PROVE  /\ Clients \subseteq Jobs /\ Others \subseteq Jobs /\ Jobs = Clients \cup Others
         /\ Clients \cap Others = {} /\ "gateway" \in Procs
         /\ \A j \in Jobs : Proc(j) \in Procs /\ j # "none"
         /\ \A j \in Others : Proc(j) = "gateway"
  BY DEF StoreAssumption, Clients, Jobs, Proc, Procs

\* While a process stores nothing new, looking at the file yields the file.
LEMMA SyncedIsFile ==
  ASSUME TypeOK, InStep, Filed, NEW p \in Procs,
         \A j \in Clients : Proc(j) = p => ~Storing(j)
  PROVE  Synced(p) = file
<1>1. resident[p].at <= file.at /\ (seen[p] = ver => resident[p] = file)
  BY DEF InStep
<1>2. file # None
  BY NoToken DEF Filed
<1> QED
  BY <1>1, <1>2 DEF Synced, mergeNewer

\* A process whose mutex is free stores nothing.
LEMMA FreeIsQuiet ==
  ASSUME StoreAssumption, Locked, NEW p \in Procs, Unlocked(p)
  PROVE  \A j \in Jobs : Proc(j) = p => pc[j] \notin {"write", "rename", "stat"}
  BY WhoIsWho DEF Locked, Unlocked

\* A look at the store, with a step of a job that carries nothing.
LEMMA LookKeeps ==
  ASSUME StoreAssumption, TypeOK, Locked, Safe, NEW p \in Procs, NEW j \in Jobs, NEW l,
         Unlocked(p), Sync(p) \/ UNCHANGED <<resident, seen>>,
         UNCHANGED <<file, ver, tmp, clock, vendor>>,
         pc' = [pc EXCEPT ![j] = l], pc[j] \notin {"rename", "stat"}, l \notin {"rename", "stat"},
         j \in Clients => pc[j] \notin {"got", "write"} /\ l \notin {"got", "write"},
         held' = held \/ \E t \in {resident[p], Synced(p)} : held' = [held EXCEPT ![j] = t.rt]
  PROVE  Safe'
<1>same. /\ file' = file /\ ver' = ver /\ tmp' = tmp /\ clock' = clock /\ vendor' = vendor
      /\ file.at \in Nat
  BY DEF TypeOK, Token
<1>cli. ASSUME NEW i \in Clients
      PROVE  Carrier(i)' = Carrier(i) /\ Storing(i)' = Storing(i) /\ (Carrier(i) => i # j)
  <2>1. CASE i = j
    BY <2>1, WhoIsWho DEF TypeOK, Carrier, Storing
  <2>2. CASE i # j
    <3>1. pc'[i] = pc[i]
      BY <2>2, WhoIsWho DEF TypeOK
    <3> QED
      BY <2>2, <3>1 DEF Carrier, Storing
  <2> QED
    BY <2>1, <2>2
<1>job. ASSUME NEW i \in Jobs
      PROVE  /\ InPersist(i)' = InPersist(i)
             /\ pc'[i] = "rename" <=> pc[i] = "rename"
             /\ pc'[i] = "stat" <=> pc[i] = "stat"
  BY DEF TypeOK, InPersist
<1>0. /\ \A i \in Clients : /\ Carrier(i)' = Carrier(i) /\ Storing(i)' = Storing(i)
                            /\ Carrier(i) => i # j
      /\ \A i \in Jobs : /\ InPersist(i)' = InPersist(i)
                         /\ pc'[i] = "rename" <=> pc[i] = "rename"
                         /\ pc'[i] = "stat" <=> pc[i] = "stat"
  BY <1>cli, <1>job
<1>1. \A i \in Jobs : Proc(i) = p => ~InPersist(i) /\ ~Storing(i)
  BY FreeIsQuiet DEF InPersist, Storing
<1>2. Synced(p) = file
  BY <1>1, SyncedIsFile, WhoIsWho DEF Safe
<1>3. /\ resident' = [resident EXCEPT ![p] = file] /\ seen' = [seen EXCEPT ![p] = ver]
      \/ UNCHANGED <<resident, seen>>
  BY <1>2 DEF Sync
<1>4. held' = held \/ \E t \in {resident[p], file} : held' = [held EXCEPT ![j] = t.rt]
  BY <1>2
<1>5. Filed'
  <2>1. \A i \in Jobs : held'[i] <= vendor
    BY <1>4 DEF Safe, Filed, TypeOK
  <2>2. \A q \in Procs : resident'[q].rt <= vendor
    BY <1>3 DEF Safe, Filed, TypeOK
  <2> QED
    BY <1>0, <1>same, <2>1, <2>2 DEF Safe, Filed, Holds
<1>6. InStep'
  <2> SUFFICES ASSUME NEW q \in Procs, \A i \in Clients : Proc(i) = q => ~Storing(i)
               PROVE  resident'[q].at <= file.at /\ (seen'[q] = ver => resident'[q] = file)
    BY <1>0, <1>same DEF InStep
  <2>1. resident[q].at <= file.at /\ (seen[q] = ver => resident[q] = file)
    BY DEF Safe, InStep
  <2>2. CASE q = p
    BY <1>3, <1>same, <2>1, <2>2 DEF TypeOK
  <2>3. CASE q # p
    BY <1>3, <2>1, <2>3 DEF TypeOK
  <2> QED
    BY <2>2, <2>3
<1>7. Apart'
  BY <1>0, <1>1, <1>3, WhoIsWho DEF Safe, Apart, TypeOK, InPersist
<1>8. Carried'
  <2> SUFFICES ASSUME NEW c \in Clients, Carrier(c)
               PROVE  /\ held'[c] = vendor /\ file.rt < vendor
                      /\ \A i \in Jobs \ {c} : held'[i] < vendor
                      /\ \A i \in Clients : Carrier(i) => i = c
                      /\ \A q \in Procs : resident'[q].rt < vendor \/ (q = Proc(c) /\ Storing(c))
                      /\ Storing(c) => resident'[Proc(c)] = [rt |-> vendor, at |-> clock]
                                       /\ file.at < clock
    BY <1>0, <1>same DEF Carried
  <2>1. /\ held[c] = vendor /\ file.rt < vendor /\ c # j
        /\ \A i \in Jobs \ {c} : held[i] < vendor
        /\ \A i \in Clients : Carrier(i) => i = c
        /\ \A q \in Procs : resident[q].rt < vendor \/ (q = Proc(c) /\ Storing(c))
        /\ Storing(c) => resident[Proc(c)] = [rt |-> vendor, at |-> clock] /\ file.at < clock
    BY <1>0 DEF Safe, Carried
  <2>2. resident[p].rt < vendor /\ (Storing(c) => Proc(c) # p)
    BY <1>1, <2>1, WhoIsWho
  <2>3. held'[c] = vendor /\ \A i \in Jobs \ {c} : held'[i] < vendor
    BY <1>4, <2>1, <2>2, WhoIsWho DEF TypeOK
  <2>4. \A q \in Procs : resident'[q].rt < vendor \/ (q = Proc(c) /\ Storing(c))
    BY <1>3, <2>1 DEF TypeOK
  <2>5. Storing(c) => resident'[Proc(c)] = resident[Proc(c)]
    BY <1>3, <2>2, WhoIsWho DEF TypeOK
  <2> QED
    BY <2>1, <2>3, <2>4, <2>5
<1> QED
  BY <1>5, <1>6, <1>7, <1>8 DEF Safe

\* A step of a job that carries nothing and leaves the store alone.
LEMMA MoveKeeps ==
  ASSUME StoreAssumption, TypeOK, Safe, NEW j \in Jobs, NEW l,
         UNCHANGED <<store, held, vendor>>, pc' = [pc EXCEPT ![j] = l],
         ~Carrier(j) /\ pc[j] # "stat", l \notin {"got", "write", "rename", "stat"}
  PROVE  Safe'
<1>1. /\ \A i \in Jobs : /\ Carrier(i)' = Carrier(i) /\ Storing(i)' = Storing(i)
                         /\ InPersist(i)' = InPersist(i)
                         /\ pc'[i] = "rename" <=> pc[i] = "rename"
                         /\ pc'[i] = "stat" <=> pc[i] = "stat"
  <2> SUFFICES ASSUME NEW i \in Jobs
               PROVE  /\ Carrier(i)' = Carrier(i) /\ Storing(i)' = Storing(i)
                      /\ InPersist(i)' = InPersist(i)
                      /\ pc'[i] = "rename" <=> pc[i] = "rename"
                      /\ pc'[i] = "stat" <=> pc[i] = "stat"
    OBVIOUS
  <2>1. CASE i = j
    BY <2>1 DEF TypeOK, Carrier, Storing, InPersist
  <2>2. CASE i # j
    <3>1. pc'[i] = pc[i]
      BY <2>2 DEF TypeOK
    <3> QED
      BY <3>1 DEF Carrier, Storing, InPersist
  <2> QED
    BY <2>1, <2>2
<1>2. /\ file' = file /\ ver' = ver /\ tmp' = tmp /\ resident' = resident /\ seen' = seen
      /\ clock' = clock /\ held' = held /\ vendor' = vendor
  BY DEF store
<1>3. Carried' /\ Filed'
  BY <1>1, <1>2, WhoIsWho DEF Safe, Carried, Filed, Holds
<1>4. InStep' /\ Apart'
  BY <1>1, <1>2, WhoIsWho DEF Safe, InStep, Apart
<1> QED
  BY <1>3, <1>4 DEF Safe

\* The vendor rotates: the answer is in one hand, and nowhere else.
LEMMA GrantKeeps ==
  ASSUME StoreAssumption, TypeOK, Safe, NEW j \in Clients, Grant(j)
  PROVE  Safe'
<1>1. /\ pc[j] = "sent" /\ held[j] = vendor /\ vendor' = vendor + 1
      /\ held' = [held EXCEPT ![j] = vendor + 1] /\ pc' = [pc EXCEPT ![j] = "got"]
      /\ file' = file /\ ver' = ver /\ tmp' = tmp /\ resident' = resident /\ seen' = seen
      /\ clock' = clock /\ j \in Jobs
  BY WhoIsWho DEF Grant, store
<1>2. \A c \in Clients : ~Carrier(c)
  <2> SUFFICES ASSUME NEW c \in Clients, Carrier(c) PROVE FALSE
    OBVIOUS
  <2>1. c # j
    BY <1>1 DEF Carrier
  <2>2. held[j] < vendor
    BY <1>1, <2>1 DEF Safe, Carried
  <2> QED
    BY <1>1, <2>2 DEF TypeOK
<1>3. \A i \in Jobs : /\ i # j => pc'[i] = pc[i]
                      /\ InPersist(i)' = InPersist(i)
                      /\ pc'[i] = "rename" <=> pc[i] = "rename"
                      /\ pc'[i] = "stat" <=> pc[i] = "stat"
  BY <1>1 DEF TypeOK, InPersist
<1>4. Carrier(j)' /\ \A i \in Clients : Storing(i)' = Storing(i) /\ (Carrier(i)' => i = j)
  BY <1>1, <1>2, <1>3, WhoIsWho DEF Carrier, Storing, TypeOK
<1>5. Filed'
  <2>1. \A i \in Jobs : held'[i] <= vendor'
    BY <1>1 DEF Safe, Filed, TypeOK
  <2>2. file.rt # 0 /\ file.rt <= vendor' /\ \A p \in Procs : resident[p].rt <= vendor'
    BY <1>1 DEF Safe, Filed, TypeOK, Token
  <2> QED
    BY <1>1, <1>4, <2>1, <2>2 DEF Filed
<1>6. Carried'
  <2>1. \A i \in Jobs \ {j} : held'[i] < vendor'
    BY <1>1 DEF Safe, Filed, TypeOK
  <2>2. file.rt < vendor' /\ \A p \in Procs : resident[p].rt < vendor'
    BY <1>1 DEF Safe, Filed, TypeOK, Token
  <2>3. held'[j] = vendor' /\ ~Storing(j)'
    BY <1>1 DEF TypeOK, Storing
  <2> QED
    BY <1>1, <1>4, <2>1, <2>2, <2>3 DEF Carried
<1>7. InStep' /\ Apart'
  BY <1>1, <1>3, <1>4, WhoIsWho DEF Safe, InStep, Apart
<1> QED
  BY <1>5, <1>6, <1>7 DEF Safe

\* Put: the carrier enters its store with a stamp newer than every token's.
LEMMA PutKeeps ==
  ASSUME StoreAssumption, TypeOK, Locked, Stamped, Roles, Safe, NEW j \in Jobs, Put(j)
  PROVE  Safe'
<1> DEFINE p == Proc(j)
<1>1. /\ pc[j] = "got" /\ Unlocked(p) /\ clock' = clock + 1
      /\ resident' = [resident EXCEPT ![p] = [rt |-> held[j], at |-> clock + 1]]
      /\ seen' = [seen EXCEPT ![p] = ver]
      /\ pc' = [pc EXCEPT ![j] = "write"]
      /\ file' = file /\ ver' = ver /\ tmp' = tmp /\ held' = held /\ vendor' = vendor
  BY DEF Put
<1>2. j \in Clients /\ Carrier(j) /\ p \in Procs
  BY <1>1, WhoIsWho DEF Roles, Carrier
<1>3. /\ held[j] = vendor /\ file.rt < vendor
      /\ \A i \in Jobs \ {j} : held[i] < vendor
      /\ \A i \in Clients : Carrier(i) => i = j
      /\ \A q \in Procs : resident[q].rt < vendor
  <2>1. ~Storing(j)
    BY <1>1 DEF Storing
  <2> QED
    BY <1>2, <2>1 DEF Safe, Carried
<1>4. \A i \in Jobs : /\ i # j => pc'[i] = pc[i]
                      /\ InPersist(i)' = InPersist(i)
                      /\ pc'[i] = "rename" <=> pc[i] = "rename"
                      /\ pc'[i] = "stat" <=> pc[i] = "stat"
                      /\ InPersist(i) => Proc(i) # p
  <2>1. \A i \in Jobs : InPersist(i) => Proc(i) # p
    BY <1>1, <1>2, FreeIsQuiet DEF InPersist
  <2> QED
    BY <1>1, <2>1 DEF TypeOK, InPersist
<1>5. /\ Carrier(j)' /\ Storing(j)'
      /\ \A i \in Clients : (Carrier(i)' => i = j) /\ (i # j => Storing(i)' = Storing(i))
  BY <1>1, <1>2, <1>3, <1>4, WhoIsWho DEF Carrier, Storing, TypeOK
<1>6. /\ resident'[p] = [rt |-> vendor, at |-> clock + 1]
      /\ \A q \in Procs : q # p => resident'[q] = resident[q] /\ seen'[q] = seen[q]
  BY <1>1, <1>2, <1>3 DEF TypeOK
<1>7. Filed'
  BY <1>1, <1>2, <1>5, <1>6 DEF Safe, Filed, TypeOK
<1>8. Carried'
  <2>1. file.at < clock + 1
    BY DEF Stamped, TypeOK, Token
  <2>2. \A q \in Procs : resident'[q].rt < vendor \/ q = p
    BY <1>3, <1>6
  <2> QED
    BY <1>1, <1>3, <1>5, <1>6, <2>1, <2>2 DEF Carried
<1>9. InStep'
  <2> SUFFICES ASSUME NEW q \in Procs, \A i \in Clients : Proc(i) = q => ~Storing(i)'
               PROVE  resident'[q].at <= file.at /\ (seen'[q] = ver => resident'[q] = file)
    BY <1>1 DEF InStep
  <2>1. q # p
    BY <1>2, <1>5
  <2>2. \A i \in Clients : Proc(i) = q => ~Storing(i)
    BY <1>1, <1>5 DEF Storing
  <2> QED
    BY <1>6, <2>1, <2>2 DEF Safe, InStep
<1>10. Apart'
  BY <1>1, <1>4, <1>6, WhoIsWho DEF Safe, Apart, InPersist
<1> QED
  BY <1>7, <1>8, <1>9, <1>10 DEF Safe

\* Writing the temporary file: a carrier's own token, or the file's.
LEMMA WriteKeeps ==
  ASSUME StoreAssumption, TypeOK, Locked, Stamped, Safe, NEW j \in Jobs, Write(j), ~overlap'
  PROVE  Safe'
<1> DEFINE p == Proc(j)
           t == IF j \in Clients THEN resident[p] ELSE file
<1>1. /\ pc[j] = "write" /\ Sync(p) /\ pc' = [pc EXCEPT ![j] = "rename"]
      /\ tmp' = [there |-> TRUE, tok |-> Synced(p)]
      /\ file' = file /\ ver' = ver /\ clock' = clock /\ held' = held /\ vendor' = vendor
      /\ p \in Procs /\ ~Crossing(p)
  BY WhoIsWho DEF Write
<1>2. \A i \in Jobs : Proc(i) = p /\ i # j => pc[i] \notin {"write", "rename", "stat"}
  BY <1>1 DEF Locked
<1>3. \A i \in Jobs : ~InPersist(i)
  BY <1>1, <1>2 DEF Crossing, InPersist
<1>4. Synced(p) = t
  <2>1. CASE j \in Clients
    <3>1. Storing(j) /\ Carrier(j)
      BY <1>1 DEF Storing, Carrier
    <3>2. resident[p] = [rt |-> vendor, at |-> clock] /\ file.at < clock /\ file.rt < vendor
      BY <2>1, <3>1 DEF Safe, Carried
    <3>3. resident[p] # None
      BY <3>2, NoToken DEF TypeOK, Token
    <3>4. seen[p] # Unread
      BY <1>1, <3>3 DEF Stamped
    <3>5. resident[p].at = clock /\ ~(file.at >= resident[p].at)
      BY <3>2 DEF TypeOK, Token
    <3> QED
      BY <2>1, <3>3, <3>4, <3>5 DEF Synced, mergeNewer
  <2>2. CASE j \notin Clients
    <3>1. \A i \in Clients : Proc(i) = p => ~Storing(i)
      BY <1>2, <2>2, WhoIsWho DEF Storing
    <3> QED
      BY <1>1, <2>2, <3>1, SyncedIsFile DEF Safe
  <2> QED
    BY <2>1, <2>2
<1>5. resident' = [resident EXCEPT ![p] = t] /\ seen' = [seen EXCEPT ![p] = ver] /\ tmp'.tok = t /\ tmp'.there
  BY <1>1, <1>4 DEF Sync
<1>6. \A i \in Clients : Carrier(i)' = Carrier(i) /\ Storing(i)' = Storing(i)
  <2> SUFFICES ASSUME NEW i \in Clients
               PROVE  Carrier(i)' = Carrier(i) /\ Storing(i)' = Storing(i)
    OBVIOUS
  <2>1. CASE i = j
    BY <1>1, <2>1 DEF TypeOK, Carrier, Storing
  <2>2. CASE i # j
    <3>1. pc'[i] = pc[i]
      BY <1>1, <2>2, WhoIsWho DEF TypeOK
    <3> QED
      BY <3>1 DEF Carrier, Storing
  <2> QED
    BY <2>1, <2>2
<1>7. \A i \in Jobs : InPersist(i)' <=> i = j
  BY <1>1, <1>3 DEF TypeOK, InPersist
<1>8. /\ resident'[p] = t /\ seen'[p] = ver
      /\ \A q \in Procs : q # p => resident'[q] = resident[q] /\ seen'[q] = seen[q]
  BY <1>1, <1>5 DEF TypeOK
<1>9. Filed'
  <2>1. t.rt <= vendor
    BY <1>1 DEF Safe, Filed
  <2> QED
    BY <1>1, <1>6, <1>8, <2>1 DEF Safe, Filed, Holds
<1>10. Carried'
  <2> SUFFICES ASSUME NEW c \in Clients, Carrier(c)
               PROVE  /\ \A q \in Procs : resident'[q].rt < vendor \/ (q = Proc(c) /\ Storing(c))
                      /\ Storing(c) => resident'[Proc(c)] = [rt |-> vendor, at |-> clock]
    BY <1>1, <1>6 DEF Safe, Carried
  <2>1. /\ file.rt < vendor
        /\ \A q \in Procs : resident[q].rt < vendor \/ (q = Proc(c) /\ Storing(c))
        /\ Storing(c) => resident[Proc(c)] = [rt |-> vendor, at |-> clock]
    BY DEF Safe, Carried
  <2>2. CASE j \in Clients
    BY <1>8, <2>1, <2>2, WhoIsWho
  <2>3. CASE j \notin Clients
    <3>1. Storing(c) => Proc(c) # p
      BY <1>2, <2>3, WhoIsWho DEF Storing
    <3> QED
      BY <1>8, <2>1, <2>3, <3>1, WhoIsWho
  <2> QED
    BY <2>2, <2>3
<1>11. InStep'
  <2> SUFFICES ASSUME NEW q \in Procs, \A i \in Clients : Proc(i) = q => ~Storing(i)
               PROVE  resident'[q].at <= file.at /\ (seen'[q] = ver => resident'[q] = file)
    BY <1>1, <1>6 DEF InStep
  <2>1. CASE q = p
    <3>1. j \notin Clients
      BY <1>1, <2>1 DEF Storing
    <3> QED
      BY <1>8, <2>1, <3>1 DEF TypeOK, Token
  <2>2. CASE q # p
    BY <1>8, <2>2 DEF Safe, InStep
  <2> QED
    BY <2>1, <2>2
<1>12. Apart'
  <2>1. \A i \in Jobs : pc'[i] = "rename" \/ pc'[i] = "stat" => i = j
    BY <1>7 DEF InPersist
  <2>2. pc'[j] = "rename" /\ (j \in Others => t = file)
    BY <1>1, WhoIsWho DEF TypeOK
  <2> QED
    BY <1>1, <1>5, <1>7, <1>8, <2>1, <2>2 DEF Apart
<1> QED
  BY <1>9, <1>10, <1>11, <1>12 DEF Safe

\* The rename puts the carrier's token in the file, or the file's own back.
LEMMA RenameKeeps ==
  ASSUME StoreAssumption, TypeOK, Stamped, Safe, NEW j \in Jobs, Rename(j)
  PROVE  Safe'
<1> DEFINE p == Proc(j)
<1>1. tmp.there /\ tmp.tok = resident[p] /\ (j \in Others => tmp.tok = file)
      /\ pc[j] = "rename" /\ \A i \in Jobs : InPersist(i) => i = j
  BY DEF Rename, Safe, Apart, InPersist
<1>2. /\ file' = resident[p] /\ ver' = ver + 1 /\ pc' = [pc EXCEPT ![j] = "stat"]
      /\ resident' = resident /\ seen' = seen /\ clock' = clock /\ held' = held /\ vendor' = vendor
      /\ p \in Procs
  BY <1>1, WhoIsWho DEF Rename
<1>3. \A i \in Jobs : /\ i # j => pc'[i] = pc[i]
                      /\ InPersist(i)' <=> i = j
                      /\ pc'[i] # "rename"
                      /\ pc'[i] = "stat" => i = j
  BY <1>1, <1>2 DEF TypeOK, InPersist
<1>4. Apart'
  BY <1>2, <1>3 DEF Apart
<1>5. \A q \in Procs : seen'[q] # ver'
  BY <1>2 DEF Stamped, TypeOK
<1>6. CASE j \in Clients
  <2>1. Carrier(j) /\ Storing(j)
    BY <1>1 DEF Carrier, Storing
  <2>2. resident[p] = [rt |-> vendor, at |-> clock] /\ file.rt < vendor
        /\ \A i \in Clients : Carrier(i) => i = j
    BY <1>6, <2>1 DEF Safe, Carried
  <2>3. \A i \in Clients : ~Carrier(i)'
    BY <1>2, <1>3, <2>2, WhoIsWho DEF Carrier, TypeOK
  <2>4. file'.rt = vendor /\ vendor # 0 /\ file'.at = clock
    BY <1>2, <2>2 DEF TypeOK, Token
  <2>5. Carried'
    BY <2>3 DEF Carried
  <2>6. InStep'
    BY <1>2, <1>5, <2>4 DEF InStep, Stamped
  <2>7. Filed'
    <3>1. /\ \A i \in Jobs : held[i] <= vendor
          /\ \A q \in Procs : resident[q].rt <= vendor
      BY DEF Safe, Filed
    <3>2. file'.rt <= vendor
      BY <2>4 DEF TypeOK
    <3> QED
      BY <1>2, <2>4, <3>1, <3>2 DEF Filed, Holds
  <2> QED
    BY <1>4, <2>5, <2>6, <2>7 DEF Safe
<1>7. CASE j \in Others
  <2>1. file' = file
    BY <1>1, <1>2, <1>7
  <2>2. \A i \in Clients : Carrier(i)' = Carrier(i) /\ Storing(i)' = Storing(i)
    BY <1>3, <1>7, WhoIsWho DEF Carrier, Storing
  <2>3. Carried' /\ Filed'
    BY <1>2, <2>1, <2>2 DEF Safe, Carried, Filed, Holds
  <2>4. InStep'
    BY <1>2, <1>5, <2>1, <2>2 DEF Safe, InStep
  <2> QED
    BY <1>4, <2>3, <2>4 DEF Safe
<1> QED
  BY <1>6, <1>7, WhoIsWho

\* The last look: what the process holds is what it has just renamed.
LEMMA StatKeeps ==
  ASSUME StoreAssumption, TypeOK, Safe, NEW j \in Jobs, Stat(j)
  PROVE  Safe'
<1> DEFINE p == Proc(j)
<1>1. /\ pc[j] = "stat" /\ seen' = [seen EXCEPT ![p] = ver] /\ pc' = [pc EXCEPT ![j] = "done"]
      /\ file' = file /\ ver' = ver /\ tmp' = tmp /\ resident' = resident /\ clock' = clock
      /\ held' = held /\ vendor' = vendor /\ p \in Procs /\ resident[p] = file
  BY WhoIsWho DEF Stat, Safe, Apart
<1>2. \A i \in Jobs : /\ i # j => pc'[i] = pc[i]
                      /\ InPersist(i)' => InPersist(i)
                      /\ pc'[i] = "rename" => pc[i] = "rename"
                      /\ pc'[i] = "stat" => pc[i] = "stat"
  BY <1>1 DEF TypeOK, InPersist
<1>3. \A i \in Clients : Carrier(i)' = Carrier(i) /\ Storing(i)' = Storing(i)
  <2> SUFFICES ASSUME NEW i \in Clients
               PROVE  Carrier(i)' = Carrier(i) /\ Storing(i)' = Storing(i)
    OBVIOUS
  <2>1. CASE i = j
    BY <1>1, <2>1 DEF TypeOK, Carrier, Storing
  <2>2. CASE i # j
    BY <1>2, <2>2, WhoIsWho DEF Carrier, Storing
  <2> QED
    BY <2>1, <2>2
<1>4. Carried' /\ Filed'
  BY <1>1, <1>3 DEF Safe, Carried, Filed, Holds
<1>5. Apart'
  BY <1>1, <1>2 DEF Safe, Apart
<1>6. InStep'
  <2> SUFFICES ASSUME NEW q \in Procs, \A i \in Clients : Proc(i) = q => ~Storing(i)
               PROVE  resident[q].at <= file.at /\ (seen'[q] = ver => resident[q] = file)
    BY <1>1, <1>3 DEF InStep
  <2> QED
    BY <1>1 DEF Safe, InStep, TypeOK, Token
<1> QED
  BY <1>4, <1>5, <1>6 DEF Safe

\* A process that dies without the credential takes nothing with it.
LEMMA CrashKeeps ==
  ASSUME StoreAssumption, TypeOK, Stamped, Safe, NEW p \in Procs, Dies(p), ~lost'
  PROVE  Safe'
<1>1. /\ resident' = [resident EXCEPT ![p] = None] /\ seen' = [seen EXCEPT ![p] = Unread]
      /\ pc' = [j \in Jobs |-> IF Proc(j) # p THEN pc[j]
                               ELSE IF j \in Loops THEN "idle" ELSE "done"]
      /\ file' = file /\ ver' = ver /\ tmp' = tmp /\ clock' = clock
      /\ held' = held /\ vendor' = vendor
      /\ \A j \in Jobs : Proc(j) = p => ~Carries(j)
  BY DEF Dies
<1>2. \A c \in Clients : Carrier(c) => Proc(c) # p
  BY <1>1, WhoIsWho DEF Carries, Carrier, Safe, Carried
<1>3. \A i \in Jobs : /\ Proc(i) # p => pc'[i] = pc[i]
                      /\ Proc(i) = p => pc'[i] \in {"idle", "done"}
  BY <1>1
<1>4. \A i \in Clients : /\ Carrier(i)' = Carrier(i) /\ Storing(i)' = Storing(i)
                         /\ Storing(i) => Carrier(i)
  <2> SUFFICES ASSUME NEW i \in Clients
               PROVE  /\ Carrier(i)' = Carrier(i) /\ Storing(i)' = Storing(i)
                      /\ Storing(i) => Carrier(i)
    OBVIOUS
  <2>1. Storing(i) => Carrier(i)
    BY DEF Storing, Carrier
  <2>2. CASE Proc(i) = p
    <3>1. ~Carrier(i) /\ ~Storing(i) /\ pc'[i] \in {"idle", "done"}
      BY <1>2, <1>3, <2>1, <2>2, WhoIsWho
    <3> QED
      BY <2>1, <3>1 DEF Carrier, Storing
  <2>3. CASE Proc(i) # p
    <3>1. pc'[i] = pc[i]
      BY <1>3, <2>3, WhoIsWho
    <3> QED
      BY <2>1, <3>1 DEF Carrier, Storing
  <2> QED
    BY <2>2, <2>3
<1>5. /\ resident'[p] = None /\ seen'[p] = Unread
      /\ \A q \in Procs : q # p => resident'[q] = resident[q] /\ seen'[q] = seen[q]
  BY <1>1 DEF TypeOK
<1>6. Filed'
  <2>1. \A q \in Procs : resident'[q].rt <= vendor
    BY <1>5, NoToken DEF Safe, Filed, TypeOK
  <2> QED
    BY <1>1, <1>4, <2>1 DEF Safe, Filed, Holds
<1>7. Carried'
  <2> SUFFICES ASSUME NEW c \in Clients, Carrier(c)
               PROVE  /\ \A q \in Procs : resident'[q].rt < vendor \/ (q = Proc(c) /\ Storing(c))
                      /\ Storing(c) => resident'[Proc(c)] = resident[Proc(c)]
    BY <1>1, <1>4 DEF Safe, Carried
  <2>1. vendor > 0
    BY DEF Safe, Carried, TypeOK, Token
  <2>2. Proc(c) # p
    BY <1>2
  <2> QED
    BY <1>5, <2>1, <2>2, NoToken, WhoIsWho DEF Safe, Carried
<1>8. InStep'
  <2> SUFFICES ASSUME NEW q \in Procs, \A i \in Clients : Proc(i) = q => ~Storing(i)
               PROVE  resident'[q].at <= file.at /\ (seen'[q] = ver => resident'[q] = file)
    BY <1>1, <1>4 DEF InStep
  <2>1. CASE q = p
    BY <1>5, <2>1, NoToken DEF TypeOK, Token, Unread
  <2>2. CASE q # p
    BY <1>5, <2>2 DEF Safe, InStep
  <2> QED
    BY <2>1, <2>2
<1>9. Apart'
  <2>1. \A i \in Jobs : InPersist(i)' => Proc(i) # p /\ pc'[i] = pc[i] /\ InPersist(i)
    BY <1>3 DEF InPersist
  <2>2. \A i \in Jobs : InPersist(i)' => resident'[Proc(i)] = resident[Proc(i)]
    BY <1>5, <2>1, WhoIsWho
  <2>3. \A i \in Jobs : pc'[i] = "rename" \/ pc'[i] = "stat" => InPersist(i)'
    BY DEF InPersist
  <2> QED
    BY <1>1, <2>1, <2>2, <2>3 DEF Safe, Apart
<1> QED
  BY <1>6, <1>7, <1>8, <1>9 DEF Safe
-----------------------------------------------------------------------------
LEMMA StepCustody ==
  ASSUME StoreAssumption, TypeOK, Locked, Stamped, Roles, Custody, [StoreNext]_storeVars
  PROVE  Custody'
<1> SUFFICES ASSUME ~Excused' PROVE Safe'
  BY DEF Custody
<1>0. ~lost' /\ ~overlap' /\ ~deleted'
  BY DEF Excused
<1>1. ~Excused
  <2>1. \A j \in Jobs : Step(j) => (lost => lost') /\ (overlap => overlap') /\ (deleted => deleted')
    <3> SUFFICES ASSUME NEW j \in Jobs, Step(j)
                 PROVE  (lost => lost') /\ (overlap => overlap') /\ (deleted => deleted')
      OBVIOUS
    <3>1. Write(j) => lost' = lost /\ deleted' = deleted /\ (overlap => overlap')
      BY Zenon DEF Write
    <3>2. ~Write(j) => UNCHANGED <<lost, deleted, overlap>>
      BY DEF Step, Rename, Stat, Put, Ask, Get, Grant, Refuse, Claim, Settle, store
    <3> QED
      BY <3>1, <3>2
  <2>2. \A j \in Jobs : NoAnswer(j) \/ PutOther(j) \/ Delete(j)
                          => (lost => lost') /\ (overlap => overlap') /\ (deleted => deleted')
    BY DEF NoAnswer, PutOther, Delete, store
  <2>3. SomeTick \/ Lapse \/ Restart \/ UNCHANGED storeVars
                          => (lost => lost') /\ (overlap => overlap') /\ (deleted => deleted')
    BY DEF SomeTick, Tick, Get, Lapse, Restart, storeVars, store
  <2>4. \A p \in Procs : Dies(p) => (lost => lost') /\ (overlap => overlap') /\ (deleted => deleted')
    <3> SUFFICES ASSUME NEW p \in Procs, Dies(p)
                 PROVE  (lost => lost') /\ (overlap => overlap') /\ (deleted => deleted')
      OBVIOUS
    <3>1. overlap' = overlap /\ deleted' = deleted
      BY DEF Dies
    <3>2. lost' = (lost \/ \E j \in Jobs : Proc(j) = p /\ Carries(j))
      BY DEF Dies
    <3> QED
      BY <3>1, <3>2, Zenon
  <2> QED
    BY <1>0, <2>1, <2>2, <2>3, <2>4, WhoIsWho DEF StoreNext, Excused, Clients
<1>2. Safe
  BY <1>1 DEF Custody
<1>3. ASSUME NEW j \in Jobs, Step(j) PROVE Safe'
  <2>1. CASE Write(j)
    BY <1>0, <1>2, <2>1, WriteKeeps
  <2>2. CASE Rename(j)
    BY <1>2, <2>2, RenameKeeps
  <2>3. CASE Stat(j)
    BY <1>2, <2>3, StatKeeps
  <2>4. CASE Put(j)
    BY <1>2, <2>4, PutKeeps
  <2>5. CASE j \in Clients /\ Grant(j)
    BY <1>2, <2>5, GrantKeeps
  <2>6. CASE j \in Clients /\ Ask(j)
    <3>1. PICK t \in {resident[Proc(j)], Synced(Proc(j))} :
            /\ Get(Proc(j), t) /\ held' = [held EXCEPT ![j] = t.rt]
            /\ pc' = [pc EXCEPT ![j] = IF t = None THEN "failed" ELSE "sent"]
            /\ UNCHANGED <<busy, loop, vendor, due, lost, faults>>
      BY <2>6 DEF Ask
    <3>2. pc[j] \in {"idle", "ask"}
      BY <2>6 DEF Ask
    <3>3. Unlocked(Proc(j)) /\ (Sync(Proc(j)) \/ UNCHANGED <<resident, seen>>)
          /\ UNCHANGED <<file, ver, tmp, clock>>
      BY <3>1 DEF Get
    <3> DEFINE l == IF t = None THEN "failed" ELSE "sent"
    <3>4. l \in {"failed", "sent"} /\ pc' = [pc EXCEPT ![j] = l]
      BY <3>1
    <3> HIDE DEF l
    <3> QED
      BY <1>2, <3>1, <3>2, <3>3, <3>4, LookKeeps, WhoIsWho
  <2>7. CASE (j \in Clients /\ Refuse(j)) \/ (j \in Loops /\ (Claim(j) \/ Settle(j)))
    <3>1. UNCHANGED <<store, held, vendor>>
      BY <2>7 DEF Refuse, Claim, Settle
    <3>2. pc[j] \in {"sent", "due", "done", "failed"}
          /\ \E l \in {"failed", "idle", "ask"} : pc' = [pc EXCEPT ![j] = l]
      BY <2>7 DEF Refuse, Claim, Settle
    <3> QED
      BY <1>2, <3>1, <3>2, MoveKeeps DEF Carrier
  <2> QED
    BY <1>3, <2>1, <2>2, <2>3, <2>4, <2>5, <2>6, <2>7 DEF Step, Clients
<1>4. ASSUME NEW j \in Others, PutOther(j) PROVE Safe'
  <2>1. /\ pc[j] = "idle" /\ Unlocked("gateway") /\ Sync("gateway")
        /\ pc' = [pc EXCEPT ![j] = "write"] /\ held' = held
        /\ UNCHANGED <<file, ver, tmp, clock, vendor>>
    BY <1>4 DEF PutOther
  <2>2. j \in Jobs /\ j \notin Clients /\ "gateway" \in Procs
    BY WhoIsWho
  <2> QED
    BY <1>2, <2>1, <2>2, LookKeeps
<1>5. ASSUME NEW j \in Others, Delete(j) PROVE Safe'
  BY <1>0, <1>5 DEF Delete
<1>6. ASSUME NEW j \in Clients, NoAnswer(j) PROVE Safe'
  <2>1. UNCHANGED <<store, held, vendor>> /\ pc[j] = "sent" /\ pc' = [pc EXCEPT ![j] = "failed"]
    BY <1>0, <1>6 DEF NoAnswer
  <2> QED
    BY <1>2, <2>1, MoveKeeps, WhoIsWho DEF Carrier
<1>7. CASE SomeTick
  <2>1. PICK j \in Loops, t \in {resident["gateway"], Synced("gateway")} :
          /\ pc[j] = "idle" /\ Get("gateway", t) /\ pc' = [pc EXCEPT ![j] = "due"]
          /\ held' = held /\ vendor' = vendor
    BY <1>7 DEF SomeTick, Tick
  <2>2. Unlocked("gateway") /\ (Sync("gateway") \/ UNCHANGED <<resident, seen>>)
        /\ UNCHANGED <<file, ver, tmp, clock>>
    BY <2>1 DEF Get
  <2>3. j \in Jobs /\ "gateway" \in Procs
    BY WhoIsWho DEF Clients
  <2> QED
    BY <1>2, <2>1, <2>2, <2>3, LookKeeps
<1>8. CASE Lapse \/ Restart \/ UNCHANGED storeVars
  <2>1. /\ file' = file /\ ver' = ver /\ tmp' = tmp /\ resident' = resident /\ seen' = seen
        /\ clock' = clock /\ held' = held /\ vendor' = vendor /\ pc' = pc
    BY <1>8 DEF Lapse, Restart, storeVars, store
  <2>2. Carried' /\ Filed'
    BY <1>2, <2>1 DEF Safe, Carried, Filed, Carrier, Storing, Holds
  <2>3. InStep' /\ Apart'
    BY <1>2, <2>1 DEF Safe, InStep, Apart, Storing, InPersist
  <2> QED
    BY <2>2, <2>3 DEF Safe
<1>9. ASSUME NEW p \in Procs, Dies(p) PROVE Safe'
  BY <1>0, <1>2, <1>9, CrashKeeps
<1> QED
  BY <1>3, <1>4, <1>5, <1>6, <1>7, <1>8, <1>9 DEF StoreNext, Clients

LEMMA InitIInv == ASSUME StoreAssumption, StoreInit PROVE IInv
<1>1. TypeOK
  BY InitTypes
<1>2. Single /\ Locked /\ Roles
  BY WhoIsWho DEF StoreInit, Single, Refreshing, Locked, Roles, Clients
<1>3. Stamped
  BY NoToken DEF StoreInit, Stamped, Unread
<1>4. Safe
  <2>1. \A j \in Jobs : pc[j] = "idle"
    BY DEF StoreInit
  <2>2. \A j \in Jobs : ~Carrier(j) /\ ~Storing(j) /\ ~InPersist(j)
    BY <2>1 DEF Carrier, Storing, InPersist
  <2>3. Carried
    BY <2>2, WhoIsWho DEF Carried
  <2>4. Apart
    BY <2>1, <2>2 DEF Apart
  <2>5. InStep
    BY NoToken DEF StoreInit, InStep, Unread
  <2>6. Filed
    BY NoToken DEF StoreInit, Filed, Holds
  <2> QED
    BY <2>3, <2>4, <2>5, <2>6 DEF Safe
<1> QED
  BY <1>1, <1>2, <1>3, <1>4 DEF IInv, Custody

LEMMA StepIInv == ASSUME StoreAssumption, IInv, [StoreNext]_storeVars PROVE IInv'
  BY StepTypes, StepSingle, StepLocked, StepStamped, StepRoles, StepCustody DEF IInv

(* A rotating refresh token is spent once: however many loops a reload     *)
(* starts and whatever commands run beside them, the gateway never has two *)
(* refreshes of an account under way, and the token the vendor accepts is  *)
(* in the file or in the one hand that carries it, unless an answer was    *)
(* lost, two processes wrote the file at once or the account signed out.   *)
THEOREM RefreshSpendsOnce == ASSUME StoreAssumption PROVE StoreSpec => []OneUse
<1>1. IInv => OneUse
  <2> SUFFICES ASSUME IInv PROVE OneRefresh /\ CredentialKept
    BY DEF OneUse
  <2>1. OneRefresh
    BY DEF IInv, Single, Refreshing, OneRefresh
  <2>2. CredentialKept
    BY DEF IInv, Custody, Excused, Safe, Carried, Filed, Carrier, CredentialKept, Clients
  <2> QED
    BY <2>1, <2>2
<1>2. StoreInit => IInv
  BY InitIInv
<1>3. IInv /\ [StoreNext]_storeVars => IInv'
  BY StepIInv
<1> QED
  BY <1>1, <1>2, <1>3, PTL DEF StoreSpec

(* A resident token is only ever replaced by a newer one, or forgotten,    *)
(* whatever another process rolled the file back to (mergeNewer, Put).     *)
THEOREM NeverRolledBack == ASSUME StoreAssumption PROVE StoreSpec => NoRollback
<1> DEFINE Newer == \A p \in Procs : resident'[p] = None \/ resident'[p].at >= resident[p].at
<1>1. ASSUME IInv, [StoreNext]_storeVars PROVE Newer
  <2>0. /\ TypeOK /\ Stamped
        /\ \A j \in Jobs : Proc(j) \in Procs
    BY <1>1, WhoIsWho DEF IInv
  <2>1. ASSUME NEW q \in Procs, Sync(q) PROVE Newer
    BY <2>0, <2>1, SyncedStamp DEF Sync, TypeOK, Token
  <2>2. ASSUME resident' = resident PROVE Newer
    BY <2>0, <2>2 DEF TypeOK, Token
  <2>3. ASSUME NEW j \in Jobs, Put(j) PROVE Newer
    <3>1. resident' = [resident EXCEPT ![Proc(j)] = [rt |-> held[j], at |-> clock + 1]]
      BY <2>3 DEF Put
    <3> QED
      BY <2>0, <3>1 DEF TypeOK, Token, Stamped
  <2>4. ASSUME NEW q \in Procs, resident' = [resident EXCEPT ![q] = None] PROVE Newer
    BY <2>0, <2>4 DEF TypeOK, Token
  <2>5. ASSUME NEW j \in Jobs, Step(j) \/ NoAnswer(j), ~Put(j) PROVE Newer
    <3>1. resident' = resident \/ Sync(Proc(j))
      BY <2>5 DEF Step, Write, Rename, Stat, Ask, Get, Grant, Refuse, Claim, Settle, NoAnswer, store
    <3> QED
      BY <2>0, <2>1, <2>2, <3>1
  <2>6. ASSUME NEW j \in Others, PutOther(j) \/ Delete(j) PROVE Newer
    BY <2>1, <2>4, <2>6, WhoIsWho DEF PutOther, Delete
  <2>7. CASE SomeTick \/ Lapse \/ Restart \/ UNCHANGED storeVars
    <3>1. resident' = resident \/ Sync("gateway")
      BY <2>7 DEF SomeTick, Tick, Get, Lapse, Restart, storeVars, store
    <3> QED
      BY <2>1, <2>2, <3>1, WhoIsWho
  <2>8. ASSUME NEW q \in Procs, Dies(q) PROVE Newer
    BY <2>4, <2>8 DEF Dies
  <2> QED
    BY <1>1, <2>3, <2>5, <2>6, <2>7, <2>8, WhoIsWho DEF StoreNext, Clients
<1>2. StoreInit => IInv
  BY InitIInv
<1>3. IInv /\ [StoreNext]_storeVars => IInv'
  BY StepIInv
<1>4. IInv /\ [StoreNext]_storeVars => Newer
  BY <1>1
<1> QED
  BY <1>2, <1>3, <1>4, PTL DEF StoreSpec, NoRollback
-----------------------------------------------------------------------------
(* OAuthLogin.  The registry holds logins of the account they are filed    *)
(* under, and a login is settled with its waiters released, or not at all. *)
Sessions ==
  [key : Keys \cup {Nobody},
   phase : {"none", "installed", "polling", "bound", "open", "dead", "stored", "nothing"},
   fin : {"no", "ok", "err"}, done : BOOLEAN, cancelled : BOOLEAN, armed : BOOLEAN]

LoginTypes ==
  /\ active \in [Keys -> Logins \cup {Nobody}]
  /\ login \in [Logins -> Sessions]
  /\ states \in SUBSET Logins /\ pasted \in SUBSET Logins
  /\ signed \in SUBSET Keys /\ late \in SUBSET Outs /\ carry \in [Writers -> SUBSET Keys]
  /\ call \in [Callers -> [at : {"idle", "called", "stored"}, lg : Logins \cup {Nobody},
                           code : Logins \cup {Nobody}, paste : BOOLEAN]]
  /\ out \in [Outs -> [at : {"idle", "wait", "delete", "gone"}, lg : Logins \cup {Nobody}]]

Registry ==
  /\ \A k \in Keys : active[k] # Nobody => login[active[k]].key = k
  /\ \A l \in Logins :
       /\ login[l].phase # "none" <=> login[l].key # Nobody
       /\ login[l].done <=> login[l].fin # "no"
       /\ login[l].armed => login[l].phase = "open"
  /\ \A c \in Callers : call[c].at # "idle" => call[c].lg # Nobody /\ login[call[c].lg].key # Nobody
  /\ \A l \in states : login[l].key # Nobody
  /\ \A k \in Outs : out[k].at = "wait" => out[k].lg # Nobody

(* A pending login is cancelled by the sign-out that waits for it.         *)
Waits ==
  \A l \in Logins : Pending(l) /\ login[l].cancelled =>
    LET k == login[l].key IN k \in Outs /\ out[k].at = "wait" /\ out[k].lg = l

(* As long as no login of an account was finished by a pasted code, its    *)
(* pending login is the one in the registry, only a pending one has its    *)
(* state registered, only an open one is settled from outside, and a       *)
(* callback settles the login it is of.                                    *)
Unpasted(k) == \A l \in pasted : login[l].key # k

Orderly(k) ==
  /\ \A l \in Logins : login[l].key = k =>
       /\ Pending(l) => active[k] = l
       /\ l \in states => Pending(l) /\ login[l].phase = "open"
       /\ login[l].phase \in {"installed", "bound", "polling"} => login[l].fin = "no"
  /\ \A c \in Callers : call[c].at # "idle" /\ login[call[c].lg].key = k =>
       /\ login[call[c].lg].phase = "open"
       /\ ~call[c].paste => call[c].lg \notin states

(* Nothing is under way that could sign the account in again.              *)
Quit(k) ==
  /\ \A l \in Logins : login[l].key = k => ~Pending(l)
  /\ \A c \in Callers : call[c].at = "called" => login[call[c].lg].key # k
  /\ k \notin signed

(* Nobody read the account's token and will write it back.                 *)
Unheld(k) == \A w \in Writers : k \notin carry[w]

LoginInv ==
  /\ LoginTypes /\ Registry /\ Waits
  /\ \A k \in Keys : Unpasted(k) => Orderly(k)
  /\ \A k \in Outs : out[k].at = "gone" /\ k \notin late /\ Unpasted(k) => Quit(k) /\ Unheld(k)
LEMMA InitLogin == LoginInit => LoginInv
<1> SUFFICES ASSUME LoginInit PROVE LoginInv
    OBVIOUS
<1> USE LoginAssumption DEF LoginInit, NoLogin, NoCall
<1>1. LoginTypes BY DEF LoginTypes, Sessions
<1>2. \A l \in Logins : ~Pending(l) BY DEF Pending
<1>3. Registry /\ Waits BY <1>2 DEF Registry, Waits
<1>4. \A k \in Keys : Orderly(k) BY <1>2 DEF Orderly
<1>5. \A k \in Outs : Quit(k) /\ Unheld(k) BY <1>2 DEF Quit, Unheld
<1> QED BY <1>1, <1>3, <1>4, <1>5 DEF LoginInv

(* Settling a login touches how it ended, not whose it is.                 *)
LEMMA EndedIs ==
  ASSUME LoginTypes, NEW l \in Logins, NEW how \in {"ok", "err"},
         login[l].done <=> login[l].fin # "no"
  PROVE  /\ Ended(l, how) \in Sessions
         /\ Ended(l, how).key = login[l].key /\ Ended(l, how).phase = login[l].phase
         /\ Ended(l, how).cancelled = login[l].cancelled /\ Ended(l, how).armed = login[l].armed
         /\ Ended(l, how).fin # "no" /\ Ended(l, how).done
<1>1. login[l] \in Sessions BY DEF LoginTypes
<1>2. CASE login[l].fin = "no" BY <1>1, <1>2 DEF Ended, Sessions
<1>3. CASE login[l].fin # "no" BY <1>1, <1>3 DEF Ended, Sessions
<1> QED BY <1>2, <1>3

LEMMA StepLoginTypes == LoginTypes /\ Registry /\ [LoginNext]_loginVars => LoginTypes'
<1> SUFFICES ASSUME LoginTypes, Registry, [LoginNext]_loginVars PROVE LoginTypes'
    OBVIOUS
<1> USE LoginAssumption DEF LoginTypes
<1>1. ASSUME NEW k \in Keys, NEW l \in Logins, NEW p \in {"installed", "polling"}, Login(k, l, p)
      PROVE  LoginTypes'
  <2>1. [NoLogin EXCEPT !.key = k, !.phase = p] \in Sessions BY DEF NoLogin, Sessions
  <2>2. login' \in [Logins -> Sessions] BY <1>1, <2>1 DEF Login
  <2>3. out' \in [Outs -> [at : {"idle", "wait", "delete", "gone"}, lg : Logins \cup {Nobody}]]
    BY <1>1 DEF Login
  <2> QED BY <1>1, <2>2, <2>3 DEF Login
<1>2. ASSUME NEW l \in Logins, Bind(l) \/ BindFail(l) \/ Register(l) PROVE LoginTypes'
  <2>1. login[l] \in Sessions /\ login[l].key \in Keys \cup {Nobody} BY DEF Sessions
  <2>2. CASE Bind(l)
    <3>1. [login[l] EXCEPT !.phase = "bound"] \in Sessions BY <2>1 DEF Sessions
    <3>2. login' = [login EXCEPT ![l] = [login[l] EXCEPT !.phase = "bound"]] BY <2>2 DEF Bind
    <3> QED BY <2>2, <3>1, <3>2 DEF Bind
  <2>3. CASE BindFail(l)
    <3>1. [login[l] EXCEPT !.phase = "dead"] \in Sessions BY <2>1 DEF Sessions
    <3>2. login' = [login EXCEPT ![l] = [login[l] EXCEPT !.phase = "dead"]] BY <2>3 DEF BindFail
    <3>3. login[l].key \in Keys BY <2>1, <2>3 DEF BindFail, Registry
    <3>4. active' \in [Keys -> Logins \cup {Nobody}] BY <2>3, <3>3 DEF BindFail
    <3> QED BY <2>3, <3>1, <3>2, <3>4 DEF BindFail
  <2>4. CASE Register(l)
    <3>1. [login[l] EXCEPT !.phase = "open", !.armed = TRUE, !.cancelled = FALSE] \in Sessions
      BY <2>1 DEF Sessions
    <3>2. login' = [login EXCEPT
                      ![l] = [login[l] EXCEPT !.phase = "open", !.armed = TRUE, !.cancelled = FALSE]]
      BY <2>4 DEF Register
    <3> QED BY <2>4, <3>1, <3>2 DEF Register
  <2> QED BY <1>2, <2>2, <2>3, <2>4
<1>3. ASSUME NEW l \in Logins, expireBrowserLogin(l) PROVE LoginTypes'
  <2> DEFINE e == Ended(l, "err")
  <2>1. e \in Sessions BY EndedIs DEF Registry
  <2>2. [e EXCEPT !.armed = FALSE] \in Sessions BY <2>1 DEF Sessions
  <2> QED BY <1>3, <2>2 DEF expireBrowserLogin
<1>4. ASSUME NEW l \in Logins, closeCallback(l) PROVE LoginTypes' BY <1>4 DEF closeCallback
<1>5. ASSUME NEW l \in Logins, DeviceToken(l) PROVE LoginTypes'
  <2>1. login[l] \in Sessions /\ login[l].key \in Keys \cup {Nobody} BY DEF Sessions
  <2>2. login[l].key # Nobody BY <1>5 DEF DeviceToken, Registry
  <2>3. [login[l] EXCEPT !.phase = "stored"] \in Sessions BY <2>1 DEF Sessions
  <2>4. [login[l] EXCEPT !.phase = "nothing"] \in Sessions BY <2>1 DEF Sessions
  <2>5. \/ login' = [login EXCEPT ![l] = [login[l] EXCEPT !.phase = "stored"]]
        \/ login' = [login EXCEPT ![l] = [login[l] EXCEPT !.phase = "nothing"]]
    BY <1>5 DEF DeviceToken
  <2>6. login' \in [Logins -> Sessions] BY <2>3, <2>4, <2>5
  <2>7. signed' \in SUBSET Keys BY <1>5, <2>1, <2>2 DEF DeviceToken
  <2> QED BY <1>5, <2>6, <2>7 DEF DeviceToken
<1>6. ASSUME NEW l \in Logins, DeviceSettles(l) PROVE LoginTypes'
  <2>1. Ended(l, "ok") \in Sessions /\ Ended(l, "err") \in Sessions BY EndedIs DEF Registry
  <2> QED BY <1>6, <2>1 DEF DeviceSettles
<1>7. ASSUME NEW c \in Callers, Refused(c) PROVE LoginTypes'
  <2> DEFINE l == call[c].lg
             e == Ended(l, "err")
  <2>1. l \in Logins BY <1>7 DEF Refused, Registry
  <2>2. e \in Sessions BY <2>1, EndedIs DEF Registry
  <2>3. [e EXCEPT !.cancelled = TRUE] \in Sessions BY <2>2 DEF Sessions
  <2>4. call' \in [Callers -> [at : {"idle", "called", "stored"}, lg : Logins \cup {Nobody},
                               code : Logins \cup {Nobody}, paste : BOOLEAN]]
    BY <1>7 DEF Refused, failBrowserLogin, NoCall
  <2> QED BY <1>7, <2>1, <2>3, <2>4 DEF Refused, failBrowserLogin
<1>8. ASSUME NEW c \in Callers, Exchange(c) PROVE LoginTypes'
  <2>1. call[c].lg \in Logins /\ login[call[c].lg].key # Nobody BY <1>8 DEF Exchange, Registry
  <2>2. login[call[c].lg].key \in Keys BY <2>1 DEF Sessions
  <2> QED BY <1>8, <2>2 DEF Exchange
<1>9. ASSUME NEW c \in Callers, Finish(c) PROVE LoginTypes'
  <2> DEFINE l == call[c].lg
             e == Ended(l, "ok")
  <2>1. l \in Logins BY <1>9 DEF Finish, Registry
  <2>2. e \in Sessions BY <2>1, EndedIs DEF Registry
  <2>3. [e EXCEPT !.cancelled = TRUE] \in Sessions BY <2>2 DEF Sessions
  <2>4. call' \in [Callers -> [at : {"idle", "called", "stored"}, lg : Logins \cup {Nobody},
                               code : Logins \cup {Nobody}, paste : BOOLEAN]]
    BY <1>9 DEF Finish, NoCall
  <2> QED BY <1>9, <2>1, <2>3, <2>4 DEF Finish
<1>10. ASSUME NEW c \in Callers, NEW l \in Logins, Callback(c, l) PROVE LoginTypes'
  <2>1. l \in states /\ login[l].key \in Keys BY <1>10 DEF Callback, Registry, Sessions
  <2>2. active[login[l].key] \in Logins \cup {Nobody} BY <2>1
  <2>3. call' \in [Callers -> [at : {"idle", "called", "stored"}, lg : Logins \cup {Nobody},
                               code : Logins \cup {Nobody}, paste : BOOLEAN]]
    BY <1>10, <2>2 DEF Callback, NoCall
  <2> QED BY <1>10, <2>3 DEF Callback
<1>11. ASSUME NEW c \in Callers, NEW k \in Keys, Paste(c, k) PROVE LoginTypes' BY <1>11 DEF Paste
<1>12. ASSUME NEW k \in Outs, Logout(k) PROVE LoginTypes'
  <2> DEFINE l == active[k]
  <2>1. k \in Keys OBVIOUS
  <2>2. out' \in [Outs -> [at : {"idle", "wait", "delete", "gone"}, lg : Logins \cup {Nobody}]]
    BY <1>12, <2>1 DEF Logout
  <2>3. CASE l # Nobody /\ Pending(l)
    <3>1. l \in Logins /\ login[l] \in Sessions BY <2>1, <2>3
    <3>2. [login[l] EXCEPT !.cancelled = TRUE] \in Sessions BY <3>1 DEF Sessions
    <3>3. login' = [login EXCEPT ![l] = [login[l] EXCEPT !.cancelled = TRUE]]
      BY <1>12, <2>3 DEF Logout
    <3> QED BY <1>12, <2>2, <3>2, <3>3 DEF Logout
  <2>4. CASE ~(l # Nobody /\ Pending(l)) BY <1>12, <2>2, <2>4 DEF Logout
  <2> QED BY <2>3, <2>4
<1>13. ASSUME NEW k \in Outs, Released(k) PROVE LoginTypes' BY <1>13 DEF Released
<1>14. ASSUME NEW k \in Outs, DeleteToken(k) PROVE LoginTypes'
  <2>1. out' \in [Outs -> [at : {"idle", "wait", "delete", "gone"}, lg : Logins \cup {Nobody}]]
    BY <1>14 DEF DeleteToken
  <2> QED BY <1>14, <2>1 DEF DeleteToken
<1>15. CASE UNCHANGED loginVars BY <1>15 DEF loginVars
<1>16. ASSUME NEW l \in Logins, ClosedTwice(l) PROVE LoginTypes'
  <2>1. login' \in [Logins -> Sessions]
    <3>1. ASSUME NEW m \in Logins
          PROVE  [login[m] EXCEPT !.phase = "dead", !.cancelled = FALSE, !.armed = FALSE] \in Sessions
      <4>1. login[m] \in Sessions OBVIOUS
      <4> QED BY <4>1 DEF Sessions
    <3> QED BY <1>16, <3>1 DEF ClosedTwice
  <2>2. call' \in [Callers -> [at : {"idle", "called", "stored"}, lg : Logins \cup {Nobody},
                               code : Logins \cup {Nobody}, paste : BOOLEAN]]
    BY <1>16 DEF ClosedTwice, NoCall
  <2>3. out' \in [Outs -> [at : {"idle", "wait", "delete", "gone"}, lg : Logins \cup {Nobody}]]
    BY <1>16 DEF ClosedTwice
  <2>4. carry' \in [Writers -> SUBSET Keys] BY <1>16 DEF ClosedTwice
  <2>5. active' \in [Keys -> Logins \cup {Nobody}] /\ states' \in SUBSET Logins
    BY <1>16 DEF ClosedTwice
  <2> QED BY <1>16, <2>1, <2>2, <2>3, <2>4, <2>5 DEF ClosedTwice
<1>17. ASSUME NEW c \in Callers, TurnedAway(c) PROVE LoginTypes'
  BY <1>17 DEF TurnedAway, NoCall
<1>18. ASSUME NEW w \in Writers, ReadTokens(w) \/ PutTokens(w) \/ LetGo(w) PROVE LoginTypes'
  BY <1>18 DEF ReadTokens, PutTokens, LetGo
<1> QED
  BY <1>1, <1>2, <1>3, <1>4, <1>5, <1>6, <1>7, <1>8, <1>9, <1>10, <1>11, <1>12, <1>13, <1>14, <1>15,
     <1>16, <1>17, <1>18
  DEF LoginNext, SettleLogin, Device, DeviceEnd

(* A login that moves on stays whose it is and is not settled by that.     *)
Moving(l) == Bind(l) \/ BindFail(l) \/ Register(l) \/ DeviceToken(l)

LEMMA MovedIs ==
  ASSUME LoginTypes, Registry, NEW l \in Logins, Moving(l)
  PROVE  /\ login[l].phase \in {"installed", "bound", "polling"}
         /\ login'[l].phase \in {"bound", "dead", "open", "stored", "nothing"}
         /\ login'[l].key = login[l].key /\ login'[l].fin = login[l].fin
         /\ login'[l].done <=> login[l].done
         /\ login'[l].armed => login'[l].phase = "open"
         /\ login'[l].cancelled => login[l].cancelled
         /\ \A m \in Logins : m # l => login'[m] = login[m]
<1> USE DEF LoginTypes
<1>0. login[l] \in Sessions /\ (login[l].armed => login[l].phase = "open") BY DEF Registry
<1>1. CASE Bind(l) BY <1>0, <1>1 DEF Bind, Sessions
<1>2. CASE BindFail(l) BY <1>0, <1>2 DEF BindFail, Sessions
<1>3. CASE Register(l)
  <2>1. login' = [login EXCEPT
                    ![l] = [login[l] EXCEPT !.phase = "open", !.armed = TRUE, !.cancelled = FALSE]]
    BY <1>3 DEF Register
  <2> QED BY <1>0, <1>3, <2>1 DEF Register, Sessions
<1>4. CASE DeviceToken(l)
  <2>1. login[l].phase = "polling" /\ ~login[l].armed BY <1>0, <1>4 DEF DeviceToken
  <2>2. CASE login' = [login EXCEPT ![l].phase = "stored"] BY <1>0, <2>1, <2>2 DEF Sessions
  <2>3. CASE login' = [login EXCEPT ![l].phase = "nothing"] BY <1>0, <2>1, <2>3 DEF Sessions
  <2> QED BY <1>4, <2>2, <2>3 DEF DeviceToken
<1> QED BY <1>1, <1>2, <1>3, <1>4 DEF Moving

(* Whoever settles a login: it is settled, with its waiters released.      *)
Settling(l) ==
  \/ expireBrowserLogin(l) \/ DeviceSettles(l)
  \/ \E c \in Callers : call[c].lg = l /\ (Refused(c) \/ Finish(c))

LEMMA SettledIs ==
  ASSUME LoginTypes, Registry, NEW l \in Logins, Settling(l)
  PROVE  /\ login[l].key # Nobody
         /\ login'[l].key = login[l].key /\ login'[l].phase = login[l].phase
         /\ login'[l].fin # "no" /\ login'[l].done
         /\ login'[l].armed => login[l].armed
         /\ \A m \in Logins : m # l => login'[m] = login[m]
<1> DEFINE e(how) == Ended(l, how)
<1>0. \A how \in {"ok", "err"} :
        /\ e(how) \in Sessions /\ e(how).key = login[l].key /\ e(how).phase = login[l].phase
        /\ e(how).armed = login[l].armed /\ e(how).fin # "no" /\ e(how).done
  BY EndedIs DEF Registry
<1>1. PICK how \in {"ok", "err"} :
        \/ login' = [login EXCEPT ![l] = e(how)]
        \/ login' = [login EXCEPT ![l] = [e(how) EXCEPT !.armed = FALSE]]
        \/ login' = [login EXCEPT ![l] = [e(how) EXCEPT !.cancelled = TRUE]]
  <2>1. CASE expireBrowserLogin(l) BY <2>1 DEF expireBrowserLogin
  <2>2. CASE DeviceSettles(l) BY <2>2 DEF DeviceSettles
  <2>3. ASSUME NEW c \in Callers, call[c].lg = l, Refused(c)
        PROVE  login' = [login EXCEPT ![l] = [e("err") EXCEPT !.cancelled = TRUE]]
    BY <2>3 DEF Refused, failBrowserLogin
  <2>4. ASSUME NEW c \in Callers, call[c].lg = l, Finish(c)
        PROVE  login' = [login EXCEPT ![l] = [e("ok") EXCEPT !.cancelled = TRUE]]
    BY <2>4 DEF Finish
  <2> HIDE DEF e
  <2> QED BY <2>1, <2>2, <2>3, <2>4 DEF Settling
<1>2. login[l].key # Nobody
  BY DEF Settling, expireBrowserLogin, DeviceSettles, Refused, Finish, Registry
<1> DEFINE d == e(how)
<1>3. /\ d \in Sessions /\ d.key = login[l].key /\ d.phase = login[l].phase
      /\ d.armed = login[l].armed /\ d.fin # "no" /\ d.done
  BY <1>0
<1>4. \/ login' = [login EXCEPT ![l] = d]
      \/ login' = [login EXCEPT ![l] = [d EXCEPT !.armed = FALSE]]
      \/ login' = [login EXCEPT ![l] = [d EXCEPT !.cancelled = TRUE]]
  BY <1>1
<1> HIDE DEF d
<1>5. CASE login' = [login EXCEPT ![l] = d] BY <1>2, <1>3, <1>5 DEF LoginTypes
<1>6. CASE login' = [login EXCEPT ![l] = [d EXCEPT !.armed = FALSE]]
  BY <1>2, <1>3, <1>6 DEF LoginTypes, Sessions
<1>7. CASE login' = [login EXCEPT ![l] = [d EXCEPT !.cancelled = TRUE]]
  BY <1>2, <1>3, <1>7 DEF LoginTypes, Sessions
<1> QED BY <1>4, <1>5, <1>6, <1>7

(* A process that dies of a second close forgets its logins and requests;  *)
(* the accounts signed out stay so.                                        *)
LEMMA ClosedIs ==
  ASSUME LoginTypes, Registry, NEW l \in Logins, ClosedTwice(l)
  PROVE  /\ \A m \in Logins : /\ login'[m].key = login[m].key /\ login'[m].fin = login[m].fin
                              /\ login'[m].done <=> login[m].done
                              /\ login'[m].phase = "none" <=> login[m].phase = "none"
                              /\ login'[m].phase \in {"none", "dead"} /\ ~login'[m].armed
         /\ \A k \in Keys : active'[k] = Nobody
         /\ states' = {}
         /\ \A c \in Callers : call'[c].at = "idle"
         /\ \A k \in Outs : IF out[k].at = "gone" THEN out'[k] = out[k] ELSE out'[k].at = "idle"
<1>1. \A m \in Logins : login[m] \in Sessions /\ (login[m].armed => login[m].phase = "open")
  BY DEF LoginTypes, Registry
<1>2. \A m \in Logins :
        login'[m] = IF login[m].phase = "none" THEN login[m]
                    ELSE [login[m] EXCEPT !.phase = "dead", !.cancelled = FALSE, !.armed = FALSE]
  BY DEF ClosedTwice
<1>3. ASSUME NEW m \in Logins
      PROVE  /\ login'[m].key = login[m].key /\ login'[m].fin = login[m].fin
             /\ login'[m].done <=> login[m].done
             /\ login'[m].phase = "none" <=> login[m].phase = "none"
             /\ login'[m].phase \in {"none", "dead"} /\ ~login'[m].armed
  BY <1>1, <1>2 DEF Sessions
<1> QED BY <1>3 DEF ClosedTwice, NoCall

(* A sign-out marks the pending login it waits for.                        *)
LEMMA LogoutIs ==
  ASSUME LoginTypes, Registry, NEW k \in Outs, Logout(k)
  PROVE  /\ \A m \in Logins : /\ login'[m].key = login[m].key /\ login'[m].phase = login[m].phase
                              /\ login'[m].fin = login[m].fin /\ (login'[m].done <=> login[m].done)
                              /\ login'[m].armed <=> login[m].armed
                              /\ login'[m].cancelled => \/ login[m].cancelled
                                                        \/ m = active[k] /\ Pending(m)
                                                           /\ out'[k].at = "wait" /\ out'[k].lg = m
         /\ \A j \in Outs : j # k => out'[j] = out[j]
         /\ out'[k].at = "wait" => out'[k].lg # Nobody
         /\ out[k].at \in {"idle", "gone"} /\ out'[k].at \in {"wait", "delete"}
<1> DEFINE l == active[k]
<1>1. k \in Keys /\ \A m \in Logins : login[m] \in Sessions BY LoginAssumption DEF LoginTypes
<1>2. CASE l # Nobody /\ Pending(l)
  <2>1. l \in Logins BY <1>1, <1>2 DEF LoginTypes
  <2>2. login' = [login EXCEPT ![l].cancelled = TRUE] BY <1>2 DEF Logout
  <2>3. out' = [out EXCEPT ![k] = [at |-> "wait", lg |-> l]] /\ out[k].at \in {"idle", "gone"}
    BY <1>2 DEF Logout
  <2>4. out'[k].at = "wait" /\ out'[k].lg = l /\ \A j \in Outs : j # k => out'[j] = out[j]
    BY <2>3 DEF LoginTypes
  <2> HIDE DEF l
  <2>5. \A m \in Logins : m # l => login'[m] = login[m] BY <2>2 DEF LoginTypes
  <2>6. /\ login'[l].key = login[l].key /\ login'[l].phase = login[l].phase
        /\ login'[l].fin = login[l].fin /\ (login'[l].done <=> login[l].done)
        /\ login'[l].armed <=> login[l].armed
    BY <1>1, <2>1, <2>2 DEF LoginTypes, Sessions
  <2> QED BY <1>2, <2>1, <2>3, <2>4, <2>5, <2>6 DEF l
<1>3. CASE ~(l # Nobody /\ Pending(l)) BY <1>3 DEF Logout, LoginTypes
<1> QED BY <1>2, <1>3

LEMMA StepRegistry == LoginTypes /\ Registry /\ [LoginNext]_loginVars => Registry'
<1> SUFFICES ASSUME LoginTypes, Registry, [LoginNext]_loginVars PROVE Registry'
    OBVIOUS
<1> USE LoginAssumption DEF Registry
<1>0. \A l \in Logins : login[l] \in Sessions BY DEF LoginTypes
<1>a. ASSUME NEW l \in Logins, \A m \in Logins : m # l => login'[m] = login[m],
             login'[l].key = login[l].key, login[l].key # Nobody, login'[l].phase # "none",
             login'[l].done <=> login'[l].fin # "no", login'[l].armed => login'[l].phase = "open",
             \A k \in Keys : active'[k] \in {active[k], Nobody},
             \A c \in Callers : call'[c].at # "idle" => call[c].at # "idle" /\ call'[c].lg = call[c].lg,
             states' \subseteq states \cup {l}, out' = out
      PROVE  Registry'
  <2>1. \A m \in Logins : login'[m].key = login[m].key BY <1>a
  <2>2. \A k \in Keys : active'[k] # Nobody => login'[active'[k]].key = k
    BY <1>a, <2>1 DEF LoginTypes
  <2>3. \A m \in Logins : /\ login'[m].phase # "none" <=> login'[m].key # Nobody
                          /\ login'[m].done <=> login'[m].fin # "no"
                          /\ login'[m].armed => login'[m].phase = "open"
    BY <1>a
  <2>4. \A c \in Callers : call'[c].at # "idle" => call'[c].lg # Nobody /\ login'[call'[c].lg].key # Nobody
    BY <1>a, <2>1 DEF LoginTypes
  <2>5. \A m \in states' : login'[m].key # Nobody BY <1>a, <2>1 DEF LoginTypes
  <2> QED BY <1>a, <2>2, <2>3, <2>4, <2>5
<1>1. ASSUME NEW k \in Keys, NEW l \in Logins, NEW p \in {"installed", "polling"}, Login(k, l, p)
      PROVE  Registry'
  <2> DEFINE e == [NoLogin EXCEPT !.key = k, !.phase = p]
  <2>1. e.key = k /\ e.phase = p /\ e.fin = "no" /\ ~e.done /\ ~e.armed BY DEF NoLogin
  <2>2. login' = [login EXCEPT ![l] = e] /\ active' = [active EXCEPT ![k] = l] BY <1>1 DEF Login
  <2>3. call' = call /\ states' = states BY <1>1 DEF Login
  <2>4. login[l].phase = "none" /\ login[l].key = Nobody BY <1>1 DEF Login
  <2> HIDE DEF e
  <2>5. login'[l] = e /\ \A m \in Logins : m # l => login'[m] = login[m] BY <2>2 DEF LoginTypes
  <2>6. \A j \in Keys : active[j] # l BY <2>4
  <2>7. \A j \in Keys : active'[j] # Nobody => login'[active'[j]].key = j
    BY <2>1, <2>2, <2>5, <2>6 DEF LoginTypes
  <2>8. \A m \in Logins : /\ login'[m].phase # "none" <=> login'[m].key # Nobody
                          /\ login'[m].done <=> login'[m].fin # "no"
                          /\ login'[m].armed => login'[m].phase = "open"
    BY <2>1, <2>5
  <2>9. \A c \in Callers : call'[c].at # "idle" => call'[c].lg # Nobody /\ login'[call'[c].lg].key # Nobody
    BY <2>1, <2>3, <2>5 DEF LoginTypes
  <2>10. \A m \in states' : login'[m].key # Nobody BY <2>1, <2>3, <2>5 DEF LoginTypes
  <2>11. \A j \in Outs : out'[j].at = "wait" => out'[j].lg # Nobody BY <1>1 DEF Login
  <2> QED BY <2>7, <2>8, <2>9, <2>10, <2>11
<1>2. ASSUME NEW l \in Logins, Moving(l) PROVE Registry'
  <2>1. /\ login[l].key # Nobody /\ login'[l].key = login[l].key /\ login'[l].phase # "none"
        /\ login'[l].done <=> login'[l].fin # "no"
        /\ login'[l].armed => login'[l].phase = "open"
        /\ \A m \in Logins : m # l => login'[m] = login[m]
    BY <1>2, MovedIs
  <2>2. \A k \in Keys : active'[k] \in {active[k], Nobody}
    BY <1>2 DEF Moving, Bind, BindFail, Register, DeviceToken, LoginTypes
  <2>3. call' = call /\ out' = out /\ states' \subseteq states \cup {l}
    BY <1>2 DEF Moving, Bind, BindFail, Register, DeviceToken
  <2> QED BY <1>a, <2>1, <2>2, <2>3
<1>3. ASSUME NEW l \in Logins, Settling(l) PROVE Registry'
  <2>1. /\ login[l].key # Nobody /\ login'[l].key = login[l].key /\ login'[l].phase # "none"
        /\ login'[l].done <=> login'[l].fin # "no"
        /\ login'[l].armed => login'[l].phase = "open"
        /\ \A m \in Logins : m # l => login'[m] = login[m]
    BY <1>3, SettledIs
  <2>2. active' = active /\ out' = out /\ states' \subseteq states
    BY <1>3 DEF Settling, expireBrowserLogin, DeviceSettles, Refused, failBrowserLogin, Finish
  <2>3. \A b \in Callers : call'[b].at # "idle" => call[b].at # "idle" /\ call'[b].lg = call[b].lg
    <3>1. call' = call \/ \E c \in Callers : call' = [call EXCEPT ![c] = NoCall]
      BY <1>3 DEF Settling, expireBrowserLogin, DeviceSettles, Refused, failBrowserLogin, Finish
    <3> QED BY <3>1 DEF NoCall, LoginTypes
  <2> QED BY <1>a, <2>1, <2>2, <2>3
<1>4. ASSUME NEW l \in Logins, closeCallback(l) PROVE Registry' BY <1>4 DEF closeCallback
<1>5. ASSUME NEW c \in Callers, Exchange(c) PROVE Registry' BY <1>5 DEF Exchange, LoginTypes
<1>6. ASSUME NEW c \in Callers, NEW l \in Logins, Callback(c, l) PROVE Registry'
  <2>1. l \in states /\ login[l].key \in Keys BY <1>0, <1>6 DEF Callback, Sessions, LoginTypes
  <2> DEFINE g == active[login[l].key]
  <2>2. g = Nobody \/ login[g].key # Nobody BY <2>1
  <2>3. \A b \in Callers : call'[b].at # "idle" => call'[b].lg # Nobody /\ login[call'[b].lg].key # Nobody
    BY <1>6, <2>2 DEF Callback, NoCall, LoginTypes
  <2> QED BY <1>6, <2>3 DEF Callback
<1>7. ASSUME NEW c \in Callers, NEW k \in Keys, Paste(c, k) PROVE Registry'
  BY <1>7 DEF Paste, LoginTypes
<1>8. ASSUME NEW k \in Outs, Logout(k) PROVE Registry'
  <2>1. UNCHANGED <<active, call, states>> BY <1>8 DEF Logout
  <2>2. \A m \in Logins : login'[m].key = login[m].key /\ login'[m].phase = login[m].phase
                          /\ login'[m].fin = login[m].fin /\ (login'[m].done <=> login[m].done)
                          /\ (login'[m].armed <=> login[m].armed)
    BY <1>8, LogoutIs
  <2>3. \A j \in Outs : out'[j].at = "wait" => out'[j].lg # Nobody BY <1>8, LogoutIs
  <2> QED BY <2>1, <2>2, <2>3 DEF LoginTypes
<1>9. ASSUME NEW k \in Outs, Released(k) PROVE Registry' BY <1>9 DEF Released, LoginTypes
<1>10. ASSUME NEW k \in Outs, DeleteToken(k) PROVE Registry' BY <1>10 DEF DeleteToken, LoginTypes
<1>11. CASE UNCHANGED <<active, login, states, call, out>> BY <1>11
<1>12. ASSUME NEW c \in Callers, Refused(c) \/ Finish(c) PROVE \E l \in Logins : Settling(l)
  BY <1>12 DEF Settling, Refused, Finish, LoginTypes
<1>13. ASSUME NEW l \in Logins, ClosedTwice(l) PROVE Registry'
  <2>1. \A m \in Logins : /\ login'[m].phase # "none" <=> login'[m].key # Nobody
                          /\ login'[m].done <=> login'[m].fin # "no"
                          /\ login'[m].armed => login'[m].phase = "open"
    BY <1>13, ClosedIs
  <2>2. \A k \in Outs : out'[k].at # "wait" BY <1>13, ClosedIs
  <2>3. (\A k \in Keys : active'[k] = Nobody) /\ states' = {} /\ \A c \in Callers : call'[c].at = "idle"
    BY <1>13, ClosedIs
  <2> QED BY <2>1, <2>2, <2>3
<1>14. ASSUME NEW c \in Callers, TurnedAway(c) PROVE Registry'
  BY <1>14 DEF TurnedAway, NoCall, LoginTypes
<1> QED
  BY <1>1, <1>2, <1>3, <1>4, <1>5, <1>6, <1>7, <1>8, <1>9, <1>10, <1>11, <1>12, <1>13, <1>14
  DEF LoginNext, SettleLogin, Device, DeviceEnd, Moving, Settling, ReadTokens, PutTokens, LetGo, loginVars
LEMMA StepWaits == LoginTypes /\ Registry /\ Waits /\ [LoginNext]_loginVars => Waits'
<1> SUFFICES ASSUME LoginTypes, Registry, Waits, [LoginNext]_loginVars PROVE Waits'
    OBVIOUS
<1> USE LoginAssumption DEF Registry, Pending
<1>a. ASSUME out' = out, NEW l \in Logins, \A m \in Logins : m # l => login'[m] = login[m],
             login'[l].key = login[l].key,
             login'[l].fin = "no" /\ login'[l].cancelled =>
               login[l].fin = "no" /\ login[l].cancelled /\ login[l].phase \notin {"none", "dead"}
      PROVE  Waits'
  BY <1>a DEF Waits
<1>1. ASSUME NEW k \in Keys, NEW l \in Logins, NEW p \in {"installed", "polling"}, Login(k, l, p)
      PROVE  Waits'
  <2>1. login' = [login EXCEPT ![l] = [NoLogin EXCEPT !.key = k, !.phase = p]] BY <1>1 DEF Login
  <2>2. \A m \in Logins : m # l => login'[m] = login[m] BY <2>1 DEF LoginTypes
  <2>3. ~login'[l].cancelled BY <2>1 DEF NoLogin, LoginTypes
  <2>4. \A j \in Outs : out[j].at = "wait" => out'[j] = out[j] BY <1>1 DEF Login
  <2> QED BY <2>2, <2>3, <2>4 DEF Waits
<1>2. ASSUME NEW l \in Logins, Moving(l) PROVE Waits'
  <2>1. out' = out BY <1>2 DEF Moving, Bind, BindFail, Register, DeviceToken
  <2> QED BY <1>2, <1>a, <2>1, MovedIs
<1>3. ASSUME NEW l \in Logins, Settling(l) PROVE Waits'
  <2>1. out' = out
    BY <1>3 DEF Settling, expireBrowserLogin, DeviceSettles, Refused, failBrowserLogin, Finish
  <2> QED BY <1>3, <1>a, <2>1, SettledIs
<1>4. ASSUME NEW k \in Outs, Logout(k) PROVE Waits'
  <2>1. out[k].at # "wait" /\ \A j \in Outs : j # k => out'[j] = out[j] BY <1>4, LogoutIs
  <2>2. k \in Keys OBVIOUS
  <2>3. ASSUME NEW m \in Logins, Pending(m)', login'[m].cancelled
        PROVE  login'[m].key \in Outs /\ out'[login'[m].key].at = "wait" /\ out'[login'[m].key].lg = m
    <3>1. login'[m].key = login[m].key /\ Pending(m) BY <1>4, <2>3, LogoutIs
    <3>2. CASE login[m].cancelled BY <2>1, <3>1, <3>2 DEF Waits
    <3>3. CASE ~login[m].cancelled
      <4>1. m = active[k] /\ out'[k].at = "wait" /\ out'[k].lg = m
        BY <1>4, <2>3, <3>3, LogoutIs
      <4>2. m # Nobody OBVIOUS
      <4>3. login[m].key = k BY <2>2, <4>1, <4>2
      <4> QED BY <3>1, <4>1, <4>3
    <3> QED BY <3>2, <3>3
  <2> QED BY <2>3 DEF Waits
<1>5. ASSUME NEW k \in Outs, Released(k) PROVE Waits'
  <2>1. login' = login /\ out' = [out EXCEPT ![k].at = "delete"] /\ login[out[k].lg].done
    BY <1>5 DEF Released
  <2>2. out[k].lg \in Logins BY <1>5 DEF Released, LoginTypes
  <2>3. login[out[k].lg].fin # "no" BY <2>1, <2>2
  <2> QED BY <2>1, <2>3 DEF Waits, LoginTypes
<1>6. ASSUME NEW k \in Outs, DeleteToken(k) PROVE Waits'
  BY <1>6 DEF DeleteToken, Waits, LoginTypes
<1>7. CASE login' = login /\ out' = out BY <1>7 DEF Waits
<1>8. ASSUME NEW c \in Callers, Refused(c) \/ Finish(c) PROVE \E l \in Logins : Settling(l)
  BY <1>8 DEF Settling, Refused, Finish, LoginTypes
<1>9. ASSUME NEW l \in Logins, ClosedTwice(l) PROVE Waits'
  <2>1. \A m \in Logins : login'[m].phase \in {"none", "dead"} BY <1>9, ClosedIs
  <2> QED BY <2>1 DEF Waits
<1> QED
  BY <1>1, <1>2, <1>3, <1>4, <1>5, <1>6, <1>7, <1>8, <1>9
  DEF LoginNext, SettleLogin, Device, DeviceEnd, Moving, Settling, closeCallback, Exchange, Callback,
      TurnedAway, Paste, ReadTokens, PutTokens, LetGo, loginVars
LEMMA StayUnpasted ==
  ASSUME LoginTypes, Registry, [LoginNext]_loginVars, NEW k \in Keys, Unpasted(k)'
  PROVE  Unpasted(k)
<1> USE LoginAssumption DEF Registry, Unpasted, LoginTypes
<1>1. pasted \subseteq pasted'
  BY DEF LoginNext, loginVars, Login, Bind, BindFail, Register, expireBrowserLogin, closeCallback,
         Device, DeviceToken, DeviceEnd, DeviceSettles, ClosedTwice, SettleLogin, Refused,
         failBrowserLogin, TurnedAway, Exchange, Finish, Callback, Paste, Logout, Released, DeleteToken,
         ReadTokens, PutTokens, LetGo
<1>2. \A m \in Logins : login'[m].key = login[m].key \/ login[m].key = Nobody
  <2>1. ASSUME NEW j \in Keys, NEW l \in Logins, NEW p \in {"installed", "polling"}, Login(j, l, p)
        PROVE  \A m \in Logins : login'[m].key = login[m].key \/ login[m].key = Nobody
    BY <2>1 DEF Login
  <2>2. ASSUME NEW l \in Logins, Moving(l) \/ Settling(l)
        PROVE  \A m \in Logins : login'[m].key = login[m].key
    BY <2>2, MovedIs, SettledIs
  <2>3. ASSUME NEW j \in Outs, Logout(j) PROVE \A m \in Logins : login'[m].key = login[m].key
    BY <2>3, LogoutIs
  <2>4. ASSUME NEW c \in Callers, Refused(c) \/ Finish(c) PROVE \E l \in Logins : Settling(l)
    BY <2>4 DEF Settling, Refused, Finish
  <2>5. ASSUME NEW l \in Logins, ClosedTwice(l) PROVE \A m \in Logins : login'[m].key = login[m].key
    BY <2>5, ClosedIs
  <2> QED
    BY <2>1, <2>2, <2>3, <2>4, <2>5
    DEF LoginNext, SettleLogin, Device, DeviceEnd, Moving, Settling, closeCallback, Exchange, Callback,
        TurnedAway, Paste, Released, DeleteToken, ReadTokens, PutTokens, LetGo, loginVars
<1> QED BY <1>1, <1>2

LEMMA StepOrderly ==
  ASSUME LoginTypes, Registry, [LoginNext]_loginVars, NEW k \in Keys, Unpasted(k)', Orderly(k)
  PROVE  Orderly(k)'
<1> USE LoginAssumption DEF Registry, Pending
<1>0. \A m \in Logins : m # Nobody OBVIOUS
<1>1. ASSUME NEW j \in Keys, NEW l \in Logins, NEW p \in {"installed", "polling"}, Login(j, l, p)
      PROVE  Orderly(k)'
  <2>1. login' = [login EXCEPT ![l] = [NoLogin EXCEPT !.key = j, !.phase = p]] BY <1>1 DEF Login
  <2>2. \A m \in Logins : m # l => login'[m] = login[m] BY <2>1 DEF LoginTypes
  <2>3. login'[l].key = j /\ login'[l].fin = "no" BY <2>1 DEF NoLogin, LoginTypes
  <2>4. login[l].key = Nobody BY <1>1 DEF Login
  <2>5. active' = [active EXCEPT ![j] = l] /\ states' = states /\ call' = call
    BY <1>1 DEF Login
  <2>6. \A c \in Callers : call[c].at # "idle" => call[c].lg \in Logins /\ call[c].lg # l
    BY <2>4 DEF LoginTypes
  <2>7. l \notin states BY <2>4
  <2>8. CASE j # k BY <2>2, <2>3, <2>5, <2>6, <2>8 DEF Orderly, LoginTypes
  <2>9. CASE j = k
    <3>1. \A m \in Logins : m # l /\ login[m].key = k => ~Pending(m)
      BY <1>0, <1>1, <2>9 DEF Login, Orderly
    <3>2. active'[k] = l BY <2>5, <2>9 DEF LoginTypes
    <3>3. \A m \in Logins : login'[m].key = k =>
            /\ Pending(m)' => m = l
            /\ m \notin states
            /\ login'[m].phase \in {"installed", "bound", "polling"} => login'[m].fin = "no"
      BY <2>2, <2>3, <2>7, <3>1 DEF Orderly
    <3>4. \A c \in Callers : call[c].at # "idle" /\ login'[call[c].lg].key = k =>
            login'[call[c].lg].phase = "open" /\ (~call[c].paste => call[c].lg \notin states)
      BY <2>2, <2>6 DEF Orderly
    <3> QED BY <2>5, <3>2, <3>3, <3>4 DEF Orderly
  <2> QED BY <2>8, <2>9
<1>2. ASSUME NEW l \in Logins, Moving(l) PROVE Orderly(k)'
  <2>1. \A m \in Logins : m # l => login'[m] = login[m] BY <1>2, MovedIs
  <2>2. login'[l].key = login[l].key /\ login'[l].fin = login[l].fin BY <1>2, MovedIs
  <2>3. login[l].phase \in {"installed", "bound", "polling"} BY <1>2, MovedIs
  <2>4. call' = call BY <1>2 DEF Moving, Bind, BindFail, Register, DeviceToken
  <2>5. states' \subseteq states \cup {l} BY <1>2 DEF Moving, Bind, BindFail, Register, DeviceToken
  <2>6. \A c \in Callers : call[c].at # "idle" => call[c].lg \in Logins BY DEF LoginTypes
  <2>7. CASE login[l].key # k
    <3>1. active'[k] = active[k]
      BY <1>2, <2>7 DEF Moving, Bind, BindFail, Register, DeviceToken, LoginTypes
    <3> QED BY <2>1, <2>2, <2>4, <2>5, <2>6, <2>7, <3>1 DEF Orderly
  <2>8. CASE login[l].key = k
    <3>1. login[l].fin = "no" /\ active[k] = l /\ l \notin states BY <2>3, <2>8 DEF Orderly
    <3>2. \A c \in Callers : call[c].at # "idle" => call[c].lg # l BY <2>3, <2>8 DEF Orderly
    <3>3. \A c \in Callers : call'[c].at # "idle" /\ login'[call'[c].lg].key = k =>
            login'[call'[c].lg].phase = "open" /\ (~call'[c].paste => call'[c].lg \notin states')
      BY <2>1, <2>4, <2>5, <2>6, <3>2 DEF Orderly
    <3>4. \A m \in Logins : m # l /\ login[m].key = k => ~Pending(m) /\ m \notin states
      BY <3>1 DEF Orderly
    <3>a. login[l] \in Sessions /\ k # Nobody BY DEF LoginTypes
    <3>5. (Pending(l)' => active'[k] = l) /\ (l \in states' => login'[l].phase = "open")
      <4>1. CASE Bind(l) BY <3>1, <4>1 DEF Bind
      <4>2. CASE BindFail(l)
        <5>1. login' = [login EXCEPT ![l] = [login[l] EXCEPT !.phase = "dead"]] /\ states' = states
          BY <4>2 DEF BindFail
        <5>2. login'[l].phase = "dead" BY <3>a, <5>1 DEF LoginTypes, Sessions
        <5> QED BY <3>1, <5>1, <5>2
      <4>3. CASE Register(l)
        <5>1. login' = [login EXCEPT
                ![l] = [login[l] EXCEPT !.phase = "open", !.armed = TRUE, !.cancelled = FALSE]]
          BY <4>3 DEF Register
        <5>2. login'[l].phase = "open" BY <3>a, <5>1 DEF LoginTypes, Sessions
        <5> QED BY <3>1, <4>3, <5>2 DEF Register
      <4>4. CASE DeviceToken(l) BY <3>1, <4>4 DEF DeviceToken
      <4> QED BY <1>2, <4>1, <4>2, <4>3, <4>4 DEF Moving
    <3>7. \A m \in Logins : login'[m].key = k =>
            /\ Pending(m)' => active'[k] = m
            /\ m \in states' => Pending(m)' /\ login'[m].phase = "open"
            /\ login'[m].phase \in {"installed", "bound", "polling"} => login'[m].fin = "no"
      BY <2>1, <2>2, <2>5, <3>1, <3>4, <3>5 DEF Orderly
    <3> QED BY <3>3, <3>7 DEF Orderly
  <2> QED BY <2>7, <2>8
<1>3. ASSUME NEW l \in Logins, Settling(l) PROVE Orderly(k)'
  <2>1. \A m \in Logins : m # l => login'[m] = login[m] BY <1>3, SettledIs
  <2>2. login'[l].key = login[l].key /\ login'[l].phase = login[l].phase /\ login'[l].fin # "no"
    BY <1>3, SettledIs
  <2>3. active' = active /\ states' \subseteq states
    BY <1>3 DEF Settling, expireBrowserLogin, DeviceSettles, Refused, failBrowserLogin, Finish
  <2>4. \A b \in Callers : call'[b].at # "idle" => call'[b] = call[b]
    <3>1. call' = call \/ \E c \in Callers : call' = [call EXCEPT ![c] = NoCall]
      BY <1>3 DEF Settling, expireBrowserLogin, DeviceSettles, Refused, failBrowserLogin, Finish
    <3> QED BY <3>1 DEF NoCall, LoginTypes
  <2>5. login[l].key = k => l \notin states' /\ login[l].phase \notin {"installed", "bound", "polling"}
    <3> SUFFICES ASSUME login[l].key = k
                 PROVE  l \notin states' /\ login[l].phase \notin {"installed", "bound", "polling"}
        OBVIOUS
    <3>1. CASE expireBrowserLogin(l) BY <3>1 DEF expireBrowserLogin, Orderly
    <3>2. CASE DeviceSettles(l) BY <3>2 DEF DeviceSettles, Orderly
    <3>3. ASSUME NEW c \in Callers, call[c].lg = l, Refused(c)
          PROVE  l \notin states' /\ login[l].phase \notin {"installed", "bound", "polling"}
      BY <3>3 DEF Refused, failBrowserLogin, Orderly
    <3>4. ASSUME NEW c \in Callers, call[c].lg = l, Finish(c)
          PROVE  l \notin states' /\ login[l].phase \notin {"installed", "bound", "polling"}
      <4>1. ~call[c].paste BY <2>2, <3>4 DEF Finish, Unpasted
      <4> QED BY <3>4, <4>1 DEF Finish, Orderly
    <3> QED BY <1>3, <3>1, <3>2, <3>3, <3>4 DEF Settling
  <2>6. \A c \in Callers : call'[c].at # "idle" /\ login'[call'[c].lg].key = k =>
          login'[call'[c].lg].phase = "open" /\ (~call'[c].paste => call'[c].lg \notin states')
    <3>1. \A m \in Logins : login'[m].key = login[m].key /\ login'[m].phase = login[m].phase
      BY <2>1, <2>2
    <3> QED BY <2>3, <2>4, <3>1 DEF Orderly, LoginTypes
  <2>7. \A m \in Logins : login'[m].key = k =>
          /\ Pending(m)' => active[k] = m
          /\ m \in states' => Pending(m)' /\ login'[m].phase = "open"
          /\ login'[m].phase \in {"installed", "bound", "polling"} => login'[m].fin = "no"
    BY <2>1, <2>2, <2>3, <2>5 DEF Orderly
  <2> QED BY <2>3, <2>6, <2>7 DEF Orderly
<1>4. ASSUME NEW c \in Callers, Exchange(c) PROVE Orderly(k)' BY <1>4 DEF Exchange, Orderly, LoginTypes
<1>5. ASSUME NEW c \in Callers, NEW l \in Logins, Callback(c, l) PROVE Orderly(k)'
  <2> DEFINE g == active[login[l].key]
             n == IF g = Nobody THEN NoCall ELSE [at |-> "called", lg |-> g, code |-> l, paste |-> FALSE]
  <2>1. l \in states /\ login[l].key \in Keys BY <1>5 DEF Callback, Sessions, LoginTypes
  <2>2. UNCHANGED <<active, login>> /\ states' = states \ {l} /\ call' = [call EXCEPT ![c] = n]
    BY <1>5 DEF Callback
  <2>3. call'[c] = n /\ \A b \in Callers : b # c => call'[b] = call[b] BY <2>2 DEF LoginTypes
  <2>4. n.at # "idle" => n.lg = g /\ g # Nobody /\ login[g].key = login[l].key
    BY <2>1 DEF NoCall
  <2>5. login[l].key = k => g = l /\ login[l].phase = "open" BY <2>1 DEF Orderly
  <2> HIDE DEF n, g
  <2>6. n.at # "idle" /\ login[n.lg].key = k => login[n.lg].phase = "open" /\ n.lg \notin states'
    BY <2>2, <2>4, <2>5
  <2>7. \A b \in Callers : call'[b].at # "idle" /\ login[call'[b].lg].key = k =>
          login[call'[b].lg].phase = "open" /\ (~call'[b].paste => call'[b].lg \notin states')
    BY <2>2, <2>3, <2>6 DEF Orderly
  <2> QED BY <2>2, <2>7 DEF Orderly
<1>6. ASSUME NEW c \in Callers, NEW j \in Keys, Paste(c, j) PROVE Orderly(k)'
  <2>1. active[j] \in Logins /\ login[active[j]].key = j /\ login[active[j]].phase = "open"
    BY <1>6 DEF Paste, LoginTypes
  <2>2. call' = [call EXCEPT ![c] = [at |-> "called", lg |-> active[j], code |-> active[j], paste |-> TRUE]]
        /\ UNCHANGED <<active, login, states>>
    BY <1>6 DEF Paste
  <2> QED BY <2>1, <2>2 DEF Orderly, LoginTypes
<1>7. ASSUME NEW j \in Outs, Logout(j) PROVE Orderly(k)'
  <2>1. \A m \in Logins : login'[m].key = login[m].key /\ login'[m].phase = login[m].phase
                          /\ login'[m].fin = login[m].fin
    BY <1>7, LogoutIs
  <2>2. UNCHANGED <<active, states, call>> BY <1>7 DEF Logout
  <2> QED BY <2>1, <2>2 DEF Orderly, LoginTypes
<1>8. CASE UNCHANGED <<active, login, states, call>> BY <1>8 DEF Orderly
<1>9. ASSUME NEW c \in Callers, Refused(c) \/ Finish(c) PROVE \E l \in Logins : Settling(l)
  BY <1>9 DEF Settling, Refused, Finish, LoginTypes
<1>10. ASSUME NEW l \in Logins, ClosedTwice(l) PROVE Orderly(k)'
  <2>1. \A m \in Logins : login'[m].phase \in {"none", "dead"} BY <1>10, ClosedIs
  <2>2. states' = {} /\ \A c \in Callers : call'[c].at = "idle" BY <1>10, ClosedIs
  <2> QED BY <2>1, <2>2 DEF Orderly
<1>11. ASSUME NEW c \in Callers, TurnedAway(c) PROVE Orderly(k)'
  BY <1>11 DEF TurnedAway, NoCall, Orderly, LoginTypes
<1> QED
  BY <1>1, <1>2, <1>3, <1>4, <1>5, <1>6, <1>7, <1>8, <1>9, <1>10, <1>11
  DEF LoginNext, SettleLogin, Device, DeviceEnd, Moving, Settling, closeCallback, Released, DeleteToken,
      ReadTokens, PutTokens, LetGo, loginVars

(* What a step may do to an account that is signed out for good: nothing   *)
(* that was not under way before the token was deleted stores another.     *)
LEMMA StepQuit ==
  ASSUME LoginInv, [LoginNext]_loginVars, NEW k \in Outs,
         out'[k].at = "gone", k \notin late', Unpasted(k)'
  PROVE  Quit(k)'
<1> USE LoginAssumption DEF Pending
<1>0. LoginTypes /\ Registry /\ Waits /\ k \in Keys BY DEF LoginInv
<1>1. Orderly(k) BY <1>0, StayUnpasted DEF LoginInv
<1>2. ASSUME out[k].at = "gone", k \notin late PROVE Quit(k) /\ Unheld(k)
  BY <1>0, <1>2, StayUnpasted DEF LoginInv
<1>3. ASSUME NEW j \in Keys, NEW l \in Logins, NEW p \in {"installed", "polling"}, Login(j, l, p)
      PROVE  Quit(k)'
  <2>1. j # k BY <1>0, <1>3 DEF Login, LoginTypes
  <2>2. out'[k] = out[k] /\ late' = late \ {j} /\ call' = call /\ signed' = signed
    BY <1>3, <2>1 DEF Login
  <2>3. Quit(k) BY <1>2, <2>1, <2>2
  <2>4. login' = [login EXCEPT ![l] = [NoLogin EXCEPT !.key = j, !.phase = p]] BY <1>3 DEF Login
  <2>5. \A m \in Logins : m # l => login'[m] = login[m] BY <1>0, <2>4 DEF LoginTypes
  <2>6. login'[l].key = j BY <1>0, <2>4 DEF NoLogin, LoginTypes
  <2>7. \A c \in Callers : call[c].at = "called" => call[c].lg \in Logins BY <1>0 DEF Registry, LoginTypes
  <2> QED BY <2>1, <2>2, <2>3, <2>5, <2>6, <2>7 DEF Quit
<1>4. ASSUME NEW l \in Logins, Moving(l) PROVE Quit(k)'
  <2>1. UNCHANGED <<out, late, call>> /\ signed' \subseteq signed \cup {login[l].key}
    BY <1>4 DEF Moving, Bind, BindFail, Register, DeviceToken
  <2>2. Quit(k) BY <1>2, <2>1
  <2>3. /\ \A m \in Logins : m # l => login'[m] = login[m]
        /\ login'[l].key = login[l].key /\ login[l].phase \in {"installed", "bound", "polling"}
    BY <1>0, <1>4, MovedIs
  <2>4. login[l].key # k BY <1>1, <2>2, <2>3 DEF Orderly, Quit
  <2>5. \A m \in Logins : login'[m].key = login[m].key BY <2>3
  <2>6. \A c \in Callers : call[c].at = "called" => call[c].lg \in Logins BY <1>0 DEF Registry, LoginTypes
  <2> QED BY <2>1, <2>2, <2>3, <2>4, <2>5, <2>6 DEF Quit
<1>5. ASSUME NEW l \in Logins, Settling(l) PROVE Quit(k)'
  <2>1. UNCHANGED <<out, late, signed>>
    BY <1>5 DEF Settling, expireBrowserLogin, DeviceSettles, Refused, failBrowserLogin, Finish
  <2>2. Quit(k) BY <1>2, <2>1
  <2>3. /\ \A m \in Logins : m # l => login'[m] = login[m]
        /\ login'[l].key = login[l].key /\ login'[l].fin # "no"
    BY <1>0, <1>5, SettledIs
  <2>4. \A b \in Callers : call'[b].at # "idle" => call'[b] = call[b]
    <3>1. call' = call \/ \E c \in Callers : call' = [call EXCEPT ![c] = NoCall]
      BY <1>5 DEF Settling, expireBrowserLogin, DeviceSettles, Refused, failBrowserLogin, Finish
    <3> QED BY <1>0, <3>1 DEF NoCall, LoginTypes
  <2>5. \A m \in Logins : login'[m].key = login[m].key BY <2>3
  <2>6. \A c \in Callers : call[c].at = "called" => call[c].lg \in Logins BY <1>0 DEF Registry, LoginTypes
  <2> QED BY <2>1, <2>2, <2>3, <2>4, <2>5, <2>6 DEF Quit
<1>6. ASSUME NEW c \in Callers, Exchange(c) PROVE Quit(k)'
  <2>1. UNCHANGED <<out, late, login>> /\ call[c].at = "called"
        /\ signed' = signed \cup {login[call[c].lg].key} /\ call' = [call EXCEPT ![c].at = "stored"]
    BY <1>6 DEF Exchange
  <2>2. Quit(k) BY <1>2, <2>1
  <2>3. \A b \in Callers : call'[b].at = "called" => call'[b] = call[b]
    BY <1>0, <2>1 DEF LoginTypes
  <2> QED BY <2>1, <2>2, <2>3 DEF Quit
<1>7. ASSUME NEW c \in Callers, NEW l \in Logins, Callback(c, l) PROVE Quit(k)'
  <2> DEFINE g == active[login[l].key]
             n == IF g = Nobody THEN NoCall ELSE [at |-> "called", lg |-> g, code |-> l, paste |-> FALSE]
  <2>1. UNCHANGED <<out, late, login, signed>> /\ call' = [call EXCEPT ![c] = n] /\ l \in states
    BY <1>7 DEF Callback
  <2>2. Quit(k) BY <1>2, <2>1
  <2>3. login[l].key # k /\ login[l].key \in Keys
    BY <1>0, <1>1, <2>1, <2>2 DEF Orderly, Quit, Registry, LoginTypes, Sessions
  <2>4. n.at # "idle" => n.lg = g /\ login[g].key = login[l].key
    BY <1>0, <2>3 DEF NoCall, Registry
  <2>5. call'[c] = n /\ \A b \in Callers : b # c => call'[b] = call[b]
    BY <1>0, <2>1 DEF LoginTypes
  <2> HIDE DEF n, g
  <2> QED BY <2>1, <2>2, <2>3, <2>4, <2>5 DEF Quit
<1>8. ASSUME NEW c \in Callers, NEW j \in Keys, Paste(c, j) PROVE Quit(k)'
  <2> DEFINE g == active[j]
             n == [at |-> "called", lg |-> g, code |-> g, paste |-> TRUE]
  <2>1. UNCHANGED <<out, late, login, signed>> /\ call' = [call EXCEPT ![c] = n]
        /\ g # Nobody /\ Pending(g)
    BY <1>8 DEF Paste
  <2>2. Quit(k) BY <1>2, <2>1
  <2>3. g \in Logins /\ login[g].key = j BY <1>0, <2>1 DEF Registry, LoginTypes
  <2>4. j # k BY <2>1, <2>2, <2>3 DEF Quit
  <2>5. call'[c] = n /\ \A b \in Callers : b # c => call'[b] = call[b]
    BY <1>0, <2>1 DEF LoginTypes
  <2>6. n.lg = g OBVIOUS
  <2> HIDE DEF n, g
  <2> QED BY <2>1, <2>2, <2>3, <2>4, <2>5, <2>6 DEF Quit
<1>9. ASSUME NEW j \in Outs, Logout(j) PROVE Quit(k)'
  <2>1. out'[k] = out[k] BY <1>0, <1>9, LogoutIs
  <2>2. UNCHANGED <<call, signed, late>> BY <1>9 DEF Logout
  <2>3. \A m \in Logins : login'[m].key = login[m].key /\ login'[m].phase = login[m].phase
                          /\ login'[m].fin = login[m].fin
    BY <1>0, <1>9, LogoutIs
  <2>4. Quit(k) BY <1>2, <2>1, <2>2
  <2>5. \A c \in Callers : call[c].at = "called" => call[c].lg \in Logins BY <1>0 DEF Registry, LoginTypes
  <2> QED BY <2>2, <2>3, <2>4, <2>5 DEF Quit
<1>10. ASSUME NEW j \in Outs, Released(j) PROVE Quit(k)'
  <2>1. out'[k] = out[k] /\ UNCHANGED <<call, signed, late, login>>
    BY <1>0, <1>10 DEF Released, LoginTypes
  <2> QED BY <1>2, <2>1 DEF Quit
<1>11. ASSUME NEW j \in Outs, DeleteToken(j), j # k PROVE Quit(k)'
  <2>1. out'[k] = out[k] /\ (k \in late => k \in late') /\ signed' \subseteq signed /\ UNCHANGED <<call, login>>
    BY <1>0, <1>11 DEF DeleteToken, LoginTypes
  <2> QED BY <1>2, <2>1 DEF Quit
<1>12. CASE DeleteToken(k)
  <2>1. ~Crossed(k) BY <1>12 DEF DeleteToken
  <2>2. UNCHANGED <<call, login>> /\ k \notin signed' /\ out[k].at = "delete"
    BY <1>12 DEF DeleteToken
  <2>3. \A l \in Logins : login[l].key = k => ~Pending(l)
    BY <1>0, <2>1, <2>2 DEF Crossed, Waits
  <2> QED BY <2>1, <2>2, <2>3 DEF Quit, Crossed
<1>13. CASE UNCHANGED <<out, late, login, call, signed>> BY <1>2, <1>13 DEF Quit
<1>14. ASSUME NEW c \in Callers, Refused(c) \/ Finish(c) PROVE \E l \in Logins : Settling(l)
  BY <1>0, <1>14 DEF Settling, Refused, Finish, LoginTypes, Registry
<1>15. ASSUME NEW l \in Logins, ClosedTwice(l) PROVE Quit(k)'
  <2>1. \A m \in Logins : login'[m].phase \in {"none", "dead"} BY <1>0, <1>15, ClosedIs
  <2>2. out'[k] = out[k] /\ \A c \in Callers : call'[c].at = "idle" BY <1>0, <1>15, ClosedIs
  <2>3. UNCHANGED <<late, signed>> BY <1>15 DEF ClosedTwice
  <2> QED BY <1>2, <2>1, <2>2, <2>3 DEF Quit
<1>16. ASSUME NEW c \in Callers, TurnedAway(c) PROVE Quit(k)'
  <2>1. UNCHANGED <<out, late, login, signed>> /\ call' = [call EXCEPT ![c] = NoCall]
    BY <1>16 DEF TurnedAway
  <2>2. \A b \in Callers : call'[b].at = "called" => call'[b] = call[b]
    BY <1>0, <2>1 DEF NoCall, LoginTypes
  <2> QED BY <1>2, <2>1, <2>2 DEF Quit
<1>17. ASSUME NEW w \in Writers, PutTokens(w) PROVE Quit(k)'
  <2>1. UNCHANGED <<out, late, login, call>> /\ signed' = signed \cup carry[w] BY <1>17 DEF PutTokens
  <2> QED BY <1>2, <2>1 DEF Quit, Unheld
<1> QED
  BY <1>3, <1>4, <1>5, <1>6, <1>7, <1>8, <1>9, <1>10, <1>11, <1>12, <1>13, <1>14, <1>15, <1>16, <1>17
  DEF LoginNext, SettleLogin, Device, DeviceEnd, Moving, Settling, closeCallback, ReadTokens, LetGo, loginVars

(* A writer takes up only tokens that are stored.                          *)
LEMMA StepUnheld ==
  ASSUME LoginInv, [LoginNext]_loginVars, NEW k \in Outs,
         out'[k].at = "gone", k \notin late', Unpasted(k)'
  PROVE  Unheld(k)'
<1> USE LoginAssumption
<1>0. LoginTypes /\ Registry /\ k \in Keys BY DEF LoginInv
<1>1. ASSUME out[k].at = "gone", k \notin late PROVE k \notin signed /\ Unheld(k)
  BY <1>0, <1>1, StayUnpasted DEF LoginInv, Quit
<1>2. CASE DeleteToken(k)
  <2>1. ~Crossed(k) /\ carry' = carry BY <1>2 DEF DeleteToken
  <2> QED BY <2>1 DEF Crossed, Unheld
<1>3. ASSUME NEW j \in Keys, NEW l \in Logins, NEW p \in {"installed", "polling"}, Login(j, l, p)
      PROVE  out'[k] = out[k] /\ (k \in late => k \in late') /\ carry' = carry
  <2>1. j # k BY <1>0, <1>3 DEF Login, LoginTypes
  <2> QED BY <1>0, <1>3, <2>1 DEF Login, LoginTypes
<1>4. ASSUME NEW j \in Outs, Logout(j)
      PROVE  out'[k] = out[k] /\ late' = late /\ carry' = carry
  BY <1>0, <1>4, LogoutIs DEF Logout
<1>5. ASSUME NEW j \in Outs, Released(j) \/ (DeleteToken(j) /\ j # k)
      PROVE  out'[k] = out[k] /\ (k \in late => k \in late') /\ carry' = carry
  BY <1>0, <1>5 DEF Released, DeleteToken, LoginTypes
<1>6. ASSUME NEW l \in Logins, ClosedTwice(l)
      PROVE  out'[k] = out[k] /\ late' = late /\ \A w \in Writers : carry'[w] \subseteq carry[w]
  <2>1. out'[k] = out[k] BY <1>0, <1>6, ClosedIs
  <2> QED BY <1>6, <2>1 DEF ClosedTwice
<1>7. ASSUME NEW w \in Writers, ReadTokens(w) \/ PutTokens(w) \/ LetGo(w)
      PROVE  UNCHANGED <<out, late>> /\ \A v \in Writers : carry'[v] \subseteq carry[v] \cup signed
  BY <1>0, <1>7 DEF ReadTokens, PutTokens, LetGo, LoginTypes
<1>8. \/ DeleteToken(k)
      \/ /\ out'[k] = out[k] /\ (k \in late => k \in late')
         /\ \A v \in Writers : carry'[v] \subseteq carry[v] \cup signed
  BY <1>3, <1>4, <1>5, <1>6, <1>7
  DEF LoginNext, loginVars, Bind, BindFail, Register, expireBrowserLogin, closeCallback, Device,
      DeviceToken, DeviceEnd, DeviceSettles, SettleLogin, Refused, failBrowserLogin, TurnedAway, Exchange,
      Finish, Callback, Paste
<1> QED BY <1>1, <1>2, <1>8 DEF Unheld

LEMMA StepLogin == LoginInv /\ [LoginNext]_loginVars => LoginInv'
<1> SUFFICES ASSUME LoginInv, [LoginNext]_loginVars PROVE LoginInv'
    OBVIOUS
<1>1. LoginTypes /\ Registry /\ Waits BY DEF LoginInv
<1>2. LoginTypes' /\ Registry' /\ Waits' BY <1>1, StepLoginTypes, StepRegistry, StepWaits
<1>3. \A k \in Keys : Unpasted(k)' => Orderly(k)'
  BY <1>1, StayUnpasted, StepOrderly DEF LoginInv
<1>4. \A k \in Outs : out'[k].at = "gone" /\ k \notin late' /\ Unpasted(k)' => Quit(k)' /\ Unheld(k)'
  BY StepQuit, StepUnheld
<1> QED BY <1>2, <1>3, <1>4 DEF LoginInv

(* handleAdminOAuthLogout deletes the token after the pending login it     *)
(* cancelled has ended, and exchangeBrowserCode and runDeviceFlow store a  *)
(* token only for a login that is still pending: an account signed out     *)
(* with no refresh, exchange or new login under way at that moment stays   *)
(* without a token until somebody signs it in again, whatever the refresh  *)
(* loops and other processes write and through a crash of the gateway.     *)
(* Logins that a pasted code finished are left out.                        *)
THEOREM LogoutsHold == LoginSpec => []LoggedOut
<1>1. LoginInit => LoginInv BY InitLogin
<1>2. LoginInv /\ [LoginNext]_loginVars => LoginInv' BY StepLogin
<1>3. LoginInv => LoggedOut BY DEF LoginInv, Quit, Unpasted, LoggedOut
<1> QED BY <1>1, <1>2, <1>3, PTL DEF LoginSpec

-----------------------------------------------------------------------------
(* SelfUpdate, for any processes, requests, kills and new builds.          *)

Stages == {"idle", "get", "swap", "aside", "spawn", "wait", "proven", "killed"}
Builds == {"v1", New}

UpdateTypes ==
  /\ quality \in Qualities
  /\ exec \in Builds \cup {Absent} /\ backup \in Builds \cup {Absent} /\ fresh \in {New, Absent}
  /\ proc \in [Pids -> [st : {"none", "starting", "up", "draining", "dead"},
                        v : Builds \cup {Absent}]]
  /\ run \in [Pids -> [at : Stages, child : Pids \cup {Absent}]]
  /\ kills \in Nat /\ (torn => kills # 0)

(* Two processes are on the port only while one hands it to the other.     *)
OnPort(p) == proc[p].st \in {"starting", "up"}
HandsTo(p, q) == run[p].at \in {"wait", "proven"} /\ run[p].child = q

(* A process that stamped owner.json did not die at its start.             *)
Started ==
  /\ owner \in Pids /\ proc[owner].st # "none"
  /\ \A p \in Pids : (proc[p].st = "up" \/ owner = p) /\ proc[p].v = New => quality # "dies"

(* A run is of a serving process of the old build, and one that has        *)
(* started a child knows in what state it is.                              *)
Runs ==
  \A p \in Pids : run[p].at # "idle" =>
    /\ proc[p].st = "up" /\ proc[p].v = "v1"
    /\ run[p].at \in {"spawn", "wait", "proven"} => exec = New
    /\ run[p].at \in {"wait", "proven", "killed"} =>
         LET c == run[p].child IN
         /\ c \in Pids /\ proc[c].v = New
         /\ proc[c].st \in {"starting", "up", "dead"}
         /\ run[p].at = "killed" => proc[c].st = "dead"
         /\ run[p].at = "proven" => quality = "good" /\ (kills = 0 => proc[c].st = "up")

Handover == \A p, q \in Pids : OnPort(p) /\ OnPort(q) /\ p # q => HandsTo(p, q) \/ HandsTo(q, p)

(* A build on disk that failed no handoff, unless the command staged it.   *)
Sound(build) == build # Absent /\ (build = New => quality = "good" \/ cli.at = "done")

OnDisk ==
  /\ (\A p \in Pids : run[p].at \in {"idle", "get", "swap", "proven"}) => Sound(exec)
  /\ \A p \in Pids : run[p].at \in {"aside", "spawn", "wait", "killed"} => Sound(backup)

UpdateInv ==
  /\ UpdateTypes
  /\ Started
  /\ ~torn => Runs /\ Handover
  /\ ~torn /\ ~raced => OnDisk
  /\ kills = 0 => Up # {}

LEMMA InitUpdate == UpdateInit => UpdateInv
<1> SUFFICES ASSUME UpdateInit PROVE UpdateInv
    OBVIOUS
<1> USE UpdateAssumption DEF UpdateInit, NoRun
<1>1. UpdateTypes BY DEF UpdateTypes, Stages, Builds
<1>2. \A p \in Pids : run[p].at = "idle" OBVIOUS
<1>3. \A p \in Pids : proc[p].v # New /\ (p # 1 => proc[p].st = "none") BY DEF New
<1>4. Started BY <1>3 DEF Started
<1>5. Runs /\ Handover BY <1>2, <1>3 DEF Runs, Handover, OnPort
<1>6. OnDisk BY <1>2 DEF OnDisk, Sound, New
<1>7. 1 \in Up BY DEF Up
<1> QED BY <1>1, <1>4, <1>5, <1>6, <1>7 DEF UpdateInv

(* The least of a set of numbers; the next pid is one nobody has had.      *)
LEMMA Least ==
  ASSUME NEW T \in SUBSET Nat, T # {}
  PROVE  \E x \in T : \A y \in T : x <= y
<1>1. PICK x \in T : \A y \in T : ~(<<y, x>> \in OpToRel(<, Nat))
  BY NatLessThanWellFounded, WFMin
<1>2. ASSUME NEW y \in Nat, y < x
      PROVE  <<y, x>> \in OpToRel(<, Nat)
  <2>1. <<y, x>> \in Nat \X Nat /\ <<y, x>>[1] < <<y, x>>[2] BY <1>2
  <2> QED BY <2>1, Zenon DEF OpToRel
<1>3. ASSUME NEW y \in T PROVE x <= y
  <2>1. ~(y < x) BY <1>1, <1>2
  <2> QED BY <2>1
<1> QED BY <1>3

LEMMA NextPidIs == ASSUME Unused # {} PROVE NextPid \in Pids /\ proc[NextPid].st = "none"
<1>1. Unused \in SUBSET Nat BY UpdateAssumption DEF Unused
<1>2. \E p \in Unused : \A q \in Unused : p <= q BY <1>1, Least
<1>3. NextPid \in Unused BY <1>2 DEF NextPid
<1> QED BY <1>3 DEF Unused

LEMMA StepUpdateTypes == UpdateTypes /\ [UpdateNext]_updateVars => UpdateTypes'
<1> SUFFICES ASSUME UpdateTypes, [UpdateNext]_updateVars PROVE UpdateTypes'
    OBVIOUS
<1> DEFINE Records == [st : {"none", "starting", "up", "draining", "dead"}, v : Builds \cup {Absent}]
           Marks == [at : Stages, child : Pids \cup {Absent}]
<1> USE DEF UpdateTypes, disk, hist
<1>a. ASSUME NEW x, NEW s \in {"none", "starting", "up", "draining", "dead"},
             proc' = [proc EXCEPT ![x].st = s]
      PROVE  proc' \in [Pids -> Records]
  BY <1>a
<1>b. ASSUME NEW p \in Pids, NEW at \in Stages, Moves(p, at) PROVE run' \in [Pids -> Marks]
  BY <1>b DEF Moves
<1>c. NoRun \in Marks BY DEF NoRun, Stages
<1>d. ASSUME NEW p \in Pids, Over(p) PROVE run' \in [Pids -> Marks] BY <1>c, <1>d DEF Over
<1>e. ASSUME Unused # {}, exec # Absent,
             proc' = [proc EXCEPT ![NextPid] = [st |-> "starting", v |-> exec]]
      PROVE  proc' \in [Pids -> Records] /\ NextPid \in Pids
  <2>1. NextPid \in Pids BY <1>e, NextPidIs
  <2>2. [st |-> "starting", v |-> exec] \in Records OBVIOUS
  <2> QED BY <1>e, <2>1, <2>2
<1> HIDE DEF Records, Marks
<1>f. proc \in [Pids -> Records] /\ run \in [Pids -> Marks] BY DEF Records, Marks
<1>g. ASSUME quality' = quality, exec' \in Builds \cup {Absent}, backup' \in Builds \cup {Absent},
             fresh' \in {New, Absent}, proc' \in [Pids -> Records], run' \in [Pids -> Marks],
             kills' = kills, torn' = torn
      PROVE  UpdateTypes'
  BY <1>g DEF Records, Marks
<1> USE <1>f
<1>1. ASSUME NEW p \in Pids, Apply(p) PROVE UpdateTypes'
  BY <1>1, <1>b, <1>g DEF Apply, Stages
<1>2. ASSUME NEW p \in Pids, Download(p) PROVE UpdateTypes'
  BY <1>2, <1>b, <1>g DEF Download, Stages
<1>3. ASSUME NEW p \in Pids, DownloadFails(p) PROVE UpdateTypes'
  BY <1>3, <1>d, <1>g DEF DownloadFails
<1>4. ASSUME NEW p \in Pids, MoveAside(p) PROVE UpdateTypes'
  BY <1>4, <1>b, <1>d, <1>g DEF MoveAside, Stages
<1>5. ASSUME NEW p \in Pids, Install(p) PROVE UpdateTypes'
  BY <1>5, <1>b, <1>d, <1>g DEF Install, Stages, Builds
<1>6. ASSUME NEW p \in Pids, Spawn(p) PROVE UpdateTypes'
  <2>1. proc' \in [Pids -> Records] /\ NextPid \in Pids BY <1>6, <1>e DEF Spawn
  <2>2. [at |-> "wait", child |-> NextPid] \in Marks BY <2>1 DEF Marks, Stages
  <2>3. run' \in [Pids -> Marks] BY <1>6, <2>2 DEF Spawn
  <2> QED BY <1>6, <2>1, <2>3, <1>g DEF Spawn
<1>7. ASSUME NEW p \in Pids, SpawnFails(p) PROVE UpdateTypes'
  BY <1>7, <1>d, <1>g DEF SpawnFails
<1>8. ASSUME NEW p \in Pids, Proven(p) PROVE UpdateTypes'
  BY <1>8, <1>b, <1>g DEF Proven, Stages
<1>9. ASSUME NEW p \in Pids, GiveUp(p) PROVE UpdateTypes'
  BY <1>9, <1>a, <1>b, <1>g DEF GiveUp, Stages
<1>10. ASSUME NEW p \in Pids, PutBack(p) PROVE UpdateTypes'
  BY <1>10, <1>d, <1>g DEF PutBack
<1>11. ASSUME NEW p \in Pids, Signal(p) PROVE UpdateTypes'
  BY <1>11, <1>a, <1>d, <1>g DEF Signal
<1>12. ASSUME NEW p \in Pids, Stamp(p) \/ Accept(p) \/ FinishRequest(p) PROVE UpdateTypes'
  BY <1>12, <1>g DEF Stamp, Accept, FinishRequest
<1>13. ASSUME NEW p \in Pids, BindPort(p) \/ DiesAtStart(p) PROVE UpdateTypes'
  BY <1>13, <1>a, <1>g DEF BindPort, DiesAtStart
<1>14. ASSUME NEW p \in Pids, Exit(p) PROVE UpdateTypes'
  BY <1>14, <1>a, <1>c, <1>g DEF Exit
<1>15. ASSUME NEW p \in Pids, Kill(p) PROVE UpdateTypes'
  <2>1. kills' \in Nat /\ kills' # 0 BY <1>15 DEF Kill
  <2>2. proc' \in [Pids -> Records] /\ run' \in [Pids -> Marks] BY <1>15, <1>a, <1>c DEF Kill
  <2>3. quality' = quality /\ exec' = exec /\ backup' = backup /\ fresh' = fresh BY <1>15 DEF Kill
  <2> QED BY <2>1, <2>2, <2>3 DEF Records, Marks
<1>16. CASE StartAgain BY <1>16, <1>e, <1>g DEF StartAgain
<1>17. CASE Command
  BY <1>17, <1>b, <1>g DEF Command, Stages, Up
<1>18. CASE Stage \/ StageFails \/ Watched
  BY <1>18, <1>g DEF Stage, StageFails, Watched, Builds
<1>19. CASE UNCHANGED updateVars BY <1>19, <1>g DEF updateVars
<1> QED
  BY <1>1, <1>2, <1>3, <1>4, <1>5, <1>6, <1>7, <1>8, <1>9, <1>10, <1>11, <1>12, <1>13, <1>14,
     <1>15, <1>16, <1>17, <1>18, <1>19
  DEF UpdateNext, RunStep

LEMMA StepStarted == UpdateTypes /\ Started /\ [UpdateNext]_updateVars => Started'
<1> SUFFICES ASSUME UpdateTypes, Started, [UpdateNext]_updateVars PROVE Started'
    OBVIOUS
<1>0. /\ proc \in [Pids -> [st : {"none", "starting", "up", "draining", "dead"},
                            v : Builds \cup {Absent}]]
      /\ owner \in Pids
  BY DEF UpdateTypes, Started
<1>a. ASSUME NEW x, NEW s \in {"draining", "dead"}, proc' = [proc EXCEPT ![x].st = s],
             quality' = quality, owner' = owner
      PROVE  Started'
  BY <1>0, <1>a DEF Started
<1>b. ASSUME Unused # {}, proc' = [proc EXCEPT ![NextPid] = [st |-> "starting", v |-> exec]],
             quality' = quality, owner' = owner
      PROVE  Started'
  <2>1. NextPid \in Pids /\ proc[NextPid].st = "none" BY <1>b, NextPidIs
  <2>2. NextPid # owner BY <2>1 DEF Started
  <2> QED BY <1>0, <1>b, <2>1, <2>2 DEF Started
<1>1. ASSUME NEW p \in Pids, Stamp(p) PROVE Started' BY <1>0, <1>1 DEF Stamp, Started
<1>2. ASSUME NEW p \in Pids, BindPort(p) PROVE Started' BY <1>0, <1>2 DEF BindPort, Started
<1>3. ASSUME NEW p \in Pids, GiveUp(p) \/ Signal(p) \/ DiesAtStart(p) \/ Exit(p) \/ Kill(p)
      PROVE  Started'
  BY <1>3, <1>a DEF GiveUp, Signal, DiesAtStart, Exit, Kill
<1>4. ASSUME NEW p \in Pids, Spawn(p) PROVE Started' BY <1>4, <1>b DEF Spawn
<1>5. CASE StartAgain BY <1>5, <1>b DEF StartAgain
<1>6. CASE UNCHANGED <<proc, owner, quality>> BY <1>6 DEF Started
<1> QED
  BY <1>1, <1>2, <1>3, <1>4, <1>5, <1>6
  DEF UpdateNext, RunStep, updateVars, Apply, Download, DownloadFails, MoveAside, Install, SpawnFails,
      Proven, PutBack, Accept, FinishRequest, Command, Stage, StageFails, Watched

(* One update runs at a time: its process serves, and it serves alone but  *)
(* for the child it started.                                               *)
LEMMA OneRun ==
  ASSUME Runs, Handover, NEW p \in Pids, run[p].at # "idle", NEW q \in Pids
  PROVE  /\ run[q].at # "idle" => q = p
         /\ OnPort(q) => q = p \/ HandsTo(p, q)
<1>1. OnPort(p) /\ proc[p].v # New BY DEF Runs, OnPort, New
<1>2. ~HandsTo(q, p) BY <1>1 DEF Runs, HandsTo
<1>3. HandsTo(p, q) => proc[q].v = New BY DEF Runs, HandsTo
<1>4. run[q].at # "idle" => OnPort(q) /\ proc[q].v # New BY DEF Runs, OnPort, New
<1> QED BY <1>1, <1>2, <1>3, <1>4 DEF Handover

(* What the step of a run, or of anybody, does to the runs and the port.   *)
LEMMA StepRuns ==
  ASSUME UpdateTypes, Started, Runs, Handover, [UpdateNext]_updateVars, ~torn'
  PROVE  Runs' /\ Handover'
<1> USE DEF disk, hist
<1>0. /\ proc \in [Pids -> [st : {"none", "starting", "up", "draining", "dead"},
                            v : Builds \cup {Absent}]]
      /\ run \in [Pids -> [at : Stages, child : Pids \cup {Absent}]]
      /\ exec \in Builds \cup {Absent} /\ fresh \in {New, Absent}
      /\ New # "v1" /\ New # Absent
  BY UpdateAssumption DEF UpdateTypes, New
\* Nobody's process changes, one run moves on without handing over.
<1>a. ASSUME NEW p \in Pids, NEW r, run' = [run EXCEPT ![p] = r],
             UNCHANGED <<proc, quality, kills>>,
             proc[p].st = "up", proc[p].v = "v1",
             \A q \in Pids : run[q].at # "idle" => q = p,
             \A q \in Pids : OnPort(q) => q = p,
             r.at \in Stages,
             r.at = "spawn" => exec' = New, r.at \notin {"wait", "proven", "killed"}
      PROVE  Runs' /\ Handover'
  <2>1. run'[p] = r /\ \A q \in Pids : q # p => run'[q].at = "idle" BY <1>0, <1>a
  <2>2. Runs' BY <1>a, <2>1 DEF Runs
  <2>3. \A q \in Pids : OnPort(q)' => q = p BY <1>a DEF OnPort
  <2> QED BY <2>2, <2>3 DEF Handover
<1>b. ASSUME NEW p \in Pids, run[p].at # "idle"
      PROVE  /\ \A q \in Pids : run[q].at # "idle" => q = p
             /\ \A q \in Pids : OnPort(q) => q = p \/ HandsTo(p, q)
             /\ proc[p].st = "up" /\ proc[p].v = "v1"
  BY <1>b, OneRun DEF Runs
<1>c. ASSUME NEW p \in Pids, Moves(p, "get"), run[p].at = "idle", proc[p].st = "up",
             proc[p].v = "v1", UNCHANGED <<proc, quality, kills, exec>>
      PROVE  Runs' /\ Handover'
  <2>1. run'[p].at = "get" /\ run'[p].child = run[p].child /\ \A q \in Pids : q # p => run'[q] = run[q]
    BY <1>0, <1>c DEF Moves
  <2>2. Runs' BY <1>c, <2>1 DEF Runs
  <2>3. \A q, r \in Pids : HandsTo(q, r) => HandsTo(q, r)' BY <1>c, <2>1 DEF HandsTo
  <2> QED BY <1>c, <2>2, <2>3 DEF Handover, OnPort
<1>1. ASSUME NEW p \in Pids, Apply(p) PROVE Runs' /\ Handover'
  <2>1. proc[p].st = "up" /\ proc[p].v = "v1" BY <1>1 DEF Apply
  <2> QED BY <1>1, <1>c, <2>1 DEF Apply
<1>2. ASSUME NEW p \in Pids, Download(p) \/ DownloadFails(p) \/ MoveAside(p) \/ Install(p) \/ SpawnFails(p)
                             \/ PutBack(p)
      PROVE  Runs' /\ Handover'
  <2>1. run[p].at \in {"get", "swap", "aside", "spawn", "killed"}
    BY <1>2 DEF At, Download, DownloadFails, MoveAside, Install, SpawnFails, PutBack
  <2>2. /\ \A q \in Pids : run[q].at # "idle" => q = p
        /\ proc[p].st = "up" /\ proc[p].v = "v1"
        /\ \A q \in Pids : OnPort(q) => q = p
    BY <1>b, <2>1 DEF HandsTo
  <2>3. PICK r : /\ run' = [run EXCEPT ![p] = r] /\ r.at \in {"idle", "swap", "aside", "spawn"}
                 /\ r.at = "spawn" => exec' = New
    <3>1. CASE Over(p)
      <4>1. run' = [run EXCEPT ![p] = NoRun] /\ NoRun.at = "idle" BY <3>1 DEF Over, NoRun
      <4> QED BY <4>1
    <3>2. ASSUME NEW at \in {"swap", "aside", "spawn"}, Moves(p, at), at = "spawn" => exec' = New
          PROVE  \E r : /\ run' = [run EXCEPT ![p] = r] /\ r.at \in {"idle", "swap", "aside", "spawn"}
                        /\ r.at = "spawn" => exec' = New
      <4> DEFINE r == [run[p] EXCEPT !.at = at]
      <4>1. run' = [run EXCEPT ![p] = r] BY <3>2 DEF Moves
      <4>2. r.at = at BY <1>0
      <4> HIDE DEF r
      <4> QED BY <3>2, <4>1, <4>2
    <3>3. Install(p) => Over(p) \/ (Moves(p, "spawn") /\ exec' = New)
      BY <1>0 DEF Install
    <3> QED BY <1>2, <3>1, <3>2, <3>3
            DEF Download, DownloadFails, MoveAside, SpawnFails, PutBack
  <2>4. UNCHANGED <<proc, quality, kills>>
    BY <1>2 DEF Download, DownloadFails, MoveAside, Install, SpawnFails, PutBack
  <2> QED BY <1>a, <2>2, <2>3, <2>4 DEF Stages
<1>3. ASSUME NEW p \in Pids, Spawn(p) PROVE Runs' /\ Handover'
  <2> DEFINE c == NextPid
  <2>1. c \in Pids /\ proc[c].st = "none" BY <1>3, NextPidIs DEF Spawn
  <2>2. run[p].at = "spawn" /\ exec = New BY <1>3 DEF Spawn, At, Runs
  <2>3. /\ \A q \in Pids : run[q].at # "idle" => q = p
        /\ proc[p].st = "up" /\ proc[p].v = "v1"
        /\ \A q \in Pids : OnPort(q) => q = p
    BY <1>b, <2>2 DEF HandsTo
  <2>4. /\ proc' = [proc EXCEPT ![c] = [st |-> "starting", v |-> exec]]
        /\ run' = [run EXCEPT ![p] = [at |-> "wait", child |-> c]] /\ exec' = exec
    BY <1>3 DEF Spawn
  <2> HIDE DEF c
  <2>5. proc'[c].st = "starting" /\ proc'[c].v = New BY <1>0, <2>1, <2>2, <2>4
  <2>6. run'[p].at = "wait" /\ run'[p].child = c BY <1>0, <2>4
  <2>7. \A q \in Pids : (q # c => proc'[q] = proc[q]) /\ (q # p => run'[q] = run[q]) BY <1>0, <2>4
  <2>8. Runs' BY <2>1, <2>2, <2>3, <2>4, <2>5, <2>6, <2>7 DEF Runs
  <2>9. \A q \in Pids : OnPort(q)' => q = p \/ q = c BY <2>3, <2>7 DEF OnPort
  <2> QED BY <2>6, <2>8, <2>9 DEF Handover, HandsTo
<1>4. ASSUME NEW p \in Pids, Proven(p) PROVE Runs' /\ Handover'
  <2>1. run[p].at = "wait" /\ Moves(p, "proven") /\ UNCHANGED <<proc, quality, kills, exec>>
    BY <1>4 DEF Proven, At
  <2>2. run'[p].at = "proven" /\ run'[p].child = run[p].child /\ \A q \in Pids : q # p => run'[q] = run[q]
    BY <1>0, <2>1 DEF Moves
  <2>3. proc[run[p].child].v = New /\ run[p].child \in Pids BY <2>1 DEF Runs
  <2>4. proc[run[p].child].st = "up" /\ quality # "deaf" BY <1>4, <2>3 DEF Proven
  <2>5. quality = "good" BY <2>3, <2>4, UpdateAssumption DEF UpdateTypes, Started
  <2>6. Runs' BY <2>1, <2>2, <2>4, <2>5 DEF Runs
  <2>7. \A q, r \in Pids : HandsTo(q, r) => HandsTo(q, r)' BY <2>2 DEF HandsTo
  <2> QED BY <2>1, <2>6, <2>7 DEF Handover, OnPort
<1>5. ASSUME NEW p \in Pids, GiveUp(p) PROVE Runs' /\ Handover'
  <2> DEFINE c == run[p].child
  <2>1. run[p].at = "wait" /\ Moves(p, "killed") /\ proc' = [proc EXCEPT ![c].st = "dead"]
        /\ UNCHANGED <<quality, kills, exec>>
    BY <1>5 DEF GiveUp, At
  <2>2. c \in Pids /\ proc[c].v = New BY <2>1 DEF Runs
  <2>3. /\ \A q \in Pids : run[q].at # "idle" => q = p
        /\ proc[p].st = "up" /\ proc[p].v = "v1"
        /\ \A q \in Pids : OnPort(q) => q = p \/ q = c
    BY <1>b, <2>1 DEF HandsTo
  <2>4. run'[p].at = "killed" /\ run'[p].child = c /\ \A q \in Pids : q # p => run'[q] = run[q]
    BY <1>0, <2>1 DEF Moves
  <2> HIDE DEF c
  <2>5. proc'[c].st = "dead" /\ proc'[c].v = New /\ \A q \in Pids : q # c => proc'[q] = proc[q]
    BY <1>0, <2>1, <2>2
  <2>6. p # c BY <1>0, <2>2, <2>3
  <2>7. Runs' BY <2>2, <2>3, <2>4, <2>5, <2>6 DEF Runs
  <2>8. \A q \in Pids : OnPort(q)' => q = p BY <2>3, <2>5 DEF OnPort
  <2> QED BY <2>7, <2>8 DEF Handover
<1>6. ASSUME NEW p \in Pids, Signal(p) PROVE Runs' /\ Handover'
  <2>1. run[p].at = "proven" /\ proc' = [proc EXCEPT ![p].st = "draining"]
        /\ run' = [run EXCEPT ![p] = NoRun]
    BY <1>6 DEF Signal, At, Over
  <2>2. /\ \A q \in Pids : run[q].at # "idle" => q = p
        /\ \A q \in Pids : OnPort(q) => q = p \/ q = run[p].child
    BY <1>b, <2>1 DEF HandsTo
  <2>3. \A q \in Pids : run'[q].at = "idle" BY <1>0, <2>1, <2>2 DEF NoRun
  <2>4. proc'[p].st = "draining" /\ \A q \in Pids : q # p => proc'[q] = proc[q] BY <1>0, <2>1
  <2>5. \A q \in Pids : OnPort(q)' => q = run[p].child BY <2>2, <2>4 DEF OnPort
  <2> QED BY <2>3, <2>5 DEF Runs, Handover
<1>7. ASSUME NEW p \in Pids, BindPort(p) \/ DiesAtStart(p) PROVE Runs' /\ Handover'
  <2>1. PICK s \in {"up", "dead"} : /\ proc' = [proc EXCEPT ![p].st = s]
                                    /\ s = "dead" => quality = "dies" /\ proc[p].v = New
    BY <1>7 DEF BindPort, DiesAtStart
  <2>2. UNCHANGED <<quality, kills, exec, run>> /\ proc[p].st = "starting"
    BY <1>7 DEF BindPort, DiesAtStart
  <2>3. proc'[p].st = s /\ proc'[p].v = proc[p].v /\ \A q \in Pids : q # p => proc'[q] = proc[q]
    BY <1>0, <2>1
  <2>4. \A q \in Pids : run[q].at \in {"proven", "killed"} =>
          run[q].child # p \/ (run[q].at = "proven" /\ quality = "good" /\ kills # 0)
    BY <2>2 DEF Runs
  <2>5. Runs' BY <2>2, <2>3, <2>4 DEF Runs
  <2>6. \A q \in Pids : OnPort(q)' => OnPort(q) BY <2>2, <2>3 DEF OnPort
  <2> QED BY <2>2, <2>5, <2>6 DEF Handover, HandsTo
<1>8. ASSUME NEW p \in Pids, Exit(p) PROVE Runs' /\ Handover'
  <2>1. proc[p].st = "draining" /\ run[p].at = "idle" BY <1>8 DEF Exit, Runs
  <2>2. /\ proc' = [proc EXCEPT ![p].st = "dead"] /\ run' = [run EXCEPT ![p] = NoRun]
        /\ UNCHANGED <<quality, kills, exec>>
    BY <1>8 DEF Exit
  <2>3. /\ proc'[p].st = "dead" /\ \A q \in Pids : q # p => proc'[q] = proc[q] /\ run'[q] = run[q]
        /\ run'[p].at = "idle"
    BY <1>0, <2>2 DEF NoRun
  <2>4. \A q \in Pids : run[q].at \in {"wait", "proven", "killed"} => run[q].child # p
    BY <2>1 DEF Runs
  <2>5. Runs' BY <2>1, <2>2, <2>3, <2>4 DEF Runs
  <2>6. \A q \in Pids : OnPort(q)' => OnPort(q) /\ q # p BY <2>3 DEF OnPort
  <2>7. \A q, r \in Pids : HandsTo(q, r) => HandsTo(q, r)' BY <2>1, <2>3 DEF HandsTo
  <2> QED BY <2>5, <2>6, <2>7 DEF Handover
<1>9. ASSUME NEW p \in Pids, Kill(p) PROVE Runs' /\ Handover'
  <2>1. kills' # 0 BY <1>9 DEF Kill, UpdateTypes
  <2>2. run[p].at \in {"idle", "get", "swap"} BY <1>9 DEF Kill
  <2>3. /\ proc' = [proc EXCEPT ![p].st = "dead"] /\ run' = [run EXCEPT ![p] = NoRun]
        /\ UNCHANGED <<quality, exec>>
    BY <1>9 DEF Kill
  <2>4. /\ proc'[p].st = "dead" /\ proc'[p].v = proc[p].v /\ run'[p].at = "idle"
        /\ \A q \in Pids : q # p => proc'[q] = proc[q] /\ run'[q] = run[q]
    BY <1>0, <2>3 DEF NoRun
  <2>5. Runs' BY <2>1, <2>3, <2>4 DEF Runs
  <2>6. \A q \in Pids : OnPort(q)' => OnPort(q) /\ q # p BY <2>4 DEF OnPort
  <2>7. \A q, r \in Pids : HandsTo(q, r) => HandsTo(q, r)' BY <2>2, <2>4 DEF HandsTo
  <2> QED BY <2>5, <2>6, <2>7 DEF Handover
<1>10. CASE StartAgain
  <2> DEFINE c == NextPid
  <2>1. \A q \in Pids : proc[q].st \notin {"starting", "up"} BY <1>10 DEF StartAgain, Alive
  <2>2. \A q \in Pids : run[q].at = "idle" BY <2>1 DEF Runs
  <2>3. proc' = [proc EXCEPT ![c] = [st |-> "starting", v |-> exec]] /\ run' = run
    BY <1>10 DEF StartAgain
  <2> HIDE DEF c
  <2>4. \A q \in Pids : OnPort(q)' => q = c BY <1>0, <2>1, <2>3 DEF OnPort
  <2> QED BY <2>2, <2>3, <2>4 DEF Runs, Handover
<1>11. CASE Command
  <2>1. UNCHANGED <<quality, proc, kills, exec>> BY <1>11 DEF Command
  <2>2. CASE run' = run BY <2>1, <2>2 DEF Runs, Handover, OnPort, HandsTo
  <2>3. ASSUME NEW p \in Pids, proc[p].st = "up", proc[p].v = "v1", run[p].at = "idle", Moves(p, "get")
        PROVE  Runs' /\ Handover'
    BY <1>c, <2>1, <2>3
  <2> QED BY <1>11, <2>2, <2>3 DEF Command, Up
<1>12. CASE Stage \/ StageFails \/ Watched
  <2>1. UNCHANGED <<quality, proc, run, kills>> /\ (exec' = exec \/ exec' = New)
    BY <1>0, <1>12 DEF Stage, StageFails, Watched
  <2> QED BY <2>1 DEF Runs, Handover, OnPort, HandsTo
<1>13. CASE UNCHANGED <<quality, proc, run, kills, exec>>
  BY <1>13 DEF Runs, Handover, OnPort, HandsTo
<1> QED
  BY <1>1, <1>2, <1>3, <1>4, <1>5, <1>6, <1>7, <1>8, <1>9, <1>10, <1>11, <1>12, <1>13
  DEF UpdateNext, RunStep, updateVars, Stamp, Accept, FinishRequest

(* What a step may do to the binary a restart would find.                  *)
LEMMA StepOnDisk ==
  ASSUME UpdateTypes, Started, Runs, Handover, OnDisk, [UpdateNext]_updateVars, ~torn', ~raced'
  PROVE  OnDisk'
<1> USE DEF disk, hist
<1>0. /\ run \in [Pids -> [at : Stages, child : Pids \cup {Absent}]]
      /\ fresh \in {New, Absent} /\ New # Absent
  BY UpdateAssumption DEF UpdateTypes, New
<1>1. \A b \in Builds \cup {Absent} : Sound(b) => Sound(b)'
  BY DEF Sound, UpdateNext, RunStep, updateVars, Apply, Download, DownloadFails, MoveAside, Install,
         Spawn, SpawnFails, Proven, GiveUp, PutBack, Signal, Stamp, BindPort, DiesAtStart, Accept,
         FinishRequest, Exit, Kill, StartAgain, Command, Stage, StageFails, Watched
<1> USE DEF UpdateTypes
<1>b. ASSUME NEW p \in Pids, run[p].at # "idle"
      PROVE  \A q \in Pids : run[q].at # "idle" => q = p
  BY <1>b, OneRun
\* The one run that is on ends, or moves on to another stage.
<1>c. ASSUME NEW p \in Pids, NEW at \in Stages, run[p].at # "idle",
             Moves(p, at) \/ (Over(p) /\ at = "idle")
      PROVE  run'[p].at = at /\ \A q \in Pids : q # p => run'[q].at = "idle"
  BY <1>0, <1>b, <1>c DEF Moves, Over, NoRun
<1>2. ASSUME NEW p \in Pids, NEW at \in {"idle", "get", "swap"}, Moves(p, at) \/ (Over(p) /\ at = "idle"),
             run[p].at \in {"idle", "get", "swap"}, UNCHANGED <<exec, backup>>
      PROVE  OnDisk'
  <2>1. run'[p].at = at /\ \A q \in Pids : q # p => run'[q] = run[q]
    BY <1>0, <1>2 DEF Moves, Over, NoRun
  <2> QED BY <1>1, <1>2, <2>1 DEF OnDisk
<1>3. ASSUME NEW p \in Pids, Apply(p) \/ Download(p) \/ DownloadFails(p) PROVE OnDisk'
  BY <1>2, <1>3 DEF Apply, Download, DownloadFails, At
<1>4. ASSUME NEW p \in Pids, MoveAside(p) PROVE OnDisk'
  <2>1. run[p].at = "swap" BY <1>4 DEF MoveAside, At
  <2>2. \A q \in Pids : run[q].at \in {"idle", "swap"} BY <1>b, <2>1
  <2>3. Sound(exec) BY <2>2 DEF OnDisk
  <2>4. Moves(p, "aside") /\ backup' = exec BY <1>4, <2>3 DEF MoveAside, Sound
  <2>5. run'[p].at = "aside" BY <1>c, <2>1, <2>4 DEF Stages
  <2>6. Sound(backup)' BY <1>1, <2>3, <2>4 DEF Sound
  <2> QED BY <2>5, <2>6 DEF OnDisk
\* The backup stays where it is while the run goes on, or is put back.
<1>d. ASSUME NEW p \in Pids, NEW at \in {"spawn", "wait", "killed"}, run'[p].at = at, backup' = backup,
             run[p].at \in {"aside", "spawn", "wait", "killed"}
      PROVE  OnDisk'
  <2>1. Sound(backup) BY <1>d DEF OnDisk
  <2>2. Sound(backup)' BY <1>1, <1>d, <2>1 DEF Sound
  <2> QED BY <1>d, <2>2 DEF OnDisk
<1>e. ASSUME NEW p \in Pids, Over(p), run[p].at \in {"aside", "spawn", "wait", "killed"}, exec' = backup
      PROVE  OnDisk'
  <2>1. Sound(backup) BY <1>e DEF OnDisk
  <2>2. Sound(exec)' BY <1>1, <1>e, <2>1 DEF Sound
  <2>3. \A q \in Pids : run'[q].at = "idle" BY <1>c, <1>e DEF Stages
  <2> QED BY <2>2, <2>3 DEF OnDisk
<1>5. ASSUME NEW p \in Pids, Install(p) PROVE OnDisk'
  <2>1. run[p].at = "aside" BY <1>5 DEF Install, At
  <2>2. CASE fresh = Absent BY <1>5, <1>e, <2>1, <2>2 DEF Install
  <2>3. CASE fresh # Absent
    <3>1. Moves(p, "spawn") /\ backup' = backup BY <1>5, <2>3 DEF Install
    <3>2. run'[p].at = "spawn" BY <1>c, <2>1, <3>1 DEF Stages
    <3> QED BY <1>d, <2>1, <3>1, <3>2
  <2> QED BY <2>2, <2>3
<1>6. ASSUME NEW p \in Pids, Spawn(p) PROVE OnDisk'
  <2>1. run[p].at = "spawn" /\ backup' = backup BY <1>6 DEF Spawn, At
  <2>2. run'[p].at = "wait" BY <1>0, <1>6 DEF Spawn
  <2> QED BY <1>d, <2>1, <2>2
<1>7. ASSUME NEW p \in Pids, SpawnFails(p) PROVE OnDisk' BY <1>7, <1>e DEF SpawnFails, At
<1>8. ASSUME NEW p \in Pids, Proven(p) PROVE OnDisk'
  <2>1. run[p].at = "wait" /\ Moves(p, "proven") BY <1>8 DEF Proven, At
  <2>2. run'[p].at = "proven" /\ \A q \in Pids : q # p => run'[q].at = "idle"
    BY <1>c, <2>1 DEF Stages
  <2>3. Runs' BY StepRuns
  <2>4. quality' = "good" /\ exec' = New BY <2>2, <2>3 DEF Runs
  <2>5. Sound(exec)' BY <1>0, <2>4 DEF Sound
  <2> QED BY <2>2, <2>5 DEF OnDisk
<1>9. ASSUME NEW p \in Pids, GiveUp(p) PROVE OnDisk'
  <2>1. run[p].at = "wait" /\ Moves(p, "killed") /\ backup' = backup BY <1>9 DEF GiveUp, At
  <2>2. run'[p].at = "killed" BY <1>c, <2>1 DEF Stages
  <2> QED BY <1>d, <2>1, <2>2
<1>10. ASSUME NEW p \in Pids, PutBack(p) PROVE OnDisk'
  <2>1. run[p].at = "killed" /\ Over(p) BY <1>10 DEF PutBack, At
  <2>2. exec' = backup BY <1>10, <2>1 DEF PutBack
  <2> QED BY <1>e, <2>1, <2>2
<1>11. ASSUME NEW p \in Pids, Signal(p) PROVE OnDisk'
  <2>1. run[p].at = "proven" /\ Over(p) /\ exec' = exec BY <1>11 DEF Signal, At
  <2>2. \A q \in Pids : run[q].at \in {"idle", "proven"} BY <1>b, <2>1
  <2>3. Sound(exec) BY <2>2 DEF OnDisk
  <2>4. Sound(exec)' BY <1>1, <2>1, <2>3 DEF Sound
  <2>5. \A q \in Pids : run'[q].at = "idle" BY <1>c, <2>1 DEF Stages
  <2> QED BY <2>4, <2>5 DEF OnDisk
<1>12. ASSUME NEW p \in Pids, Exit(p) \/ Kill(p) PROVE OnDisk'
  <2>1. run[p].at \in {"idle", "get", "swap"} BY <1>12 DEF Exit, Kill, Runs
  <2>2. Over(p) /\ UNCHANGED <<exec, backup>> BY <1>12 DEF Exit, Kill, Over
  <2> QED BY <1>2, <2>1, <2>2
<1>13. CASE UNCHANGED <<run, exec, backup>> BY <1>1, <1>13 DEF OnDisk
<1>14. CASE Command
  <2>1. UNCHANGED <<exec, backup>> BY <1>14 DEF Command
  <2>2. ASSUME NEW p \in Pids, run[p].at = "idle", Moves(p, "get") PROVE OnDisk'
    BY <1>2, <2>1, <2>2
  <2> QED BY <1>13, <1>14, <2>1, <2>2 DEF Command, Up
<1>15. CASE Stage
  <2>1. \A q \in Pids : run[q].at = "idle" BY <1>15 DEF Stage
  <2>2. exec' = New /\ cli'.at = "done" /\ run' = run BY <1>0, <1>15 DEF Stage
  <2>3. Sound(exec)' BY <1>0, <2>2 DEF Sound
  <2> QED BY <2>1, <2>2, <2>3 DEF OnDisk
<1> QED
  BY <1>3, <1>4, <1>5, <1>6, <1>7, <1>8, <1>9, <1>10, <1>11, <1>12, <1>13, <1>14, <1>15
  DEF UpdateNext, RunStep, updateVars, Stamp, BindPort, DiesAtStart, Accept, FinishRequest, StartAgain,
      StageFails, Watched

(* What a step may do to the processes that accept connections.            *)
LEMMA StepPort ==
  ASSUME UpdateTypes, Runs, [UpdateNext]_updateVars, Up # {}, kills' = 0
  PROVE  Up' # {}
<1> USE DEF disk, hist
<1>0. proc \in [Pids -> [st : {"none", "starting", "up", "draining", "dead"},
                          v : Builds \cup {Absent}]]
  BY DEF UpdateTypes
<1>a. ASSUME NEW p \in Pids, proc'[p].st = "up" PROVE Up' # {} BY <1>a DEF Up
<1>b. PICK u \in Pids : proc[u].st = "up" BY DEF Up
<1>c. ASSUME NEW c \in Pids, proc[c].st # "up", \A q \in Pids : q # c => proc'[q] = proc[q]
      PROVE  Up' # {}
  BY <1>a, <1>b, <1>c
<1>1. ASSUME NEW p \in Pids, GiveUp(p) PROVE Up' # {}
  <2>1. proc[p].st = "up" /\ proc[p].v = "v1" /\ proc[run[p].child].v = New
    BY <1>1 DEF GiveUp, At, Runs
  <2>2. p # run[p].child BY <2>1 DEF New
  <2>3. proc'[p] = proc[p] BY <1>0, <1>1, <2>2 DEF GiveUp
  <2> QED BY <1>a, <2>1, <2>3
<1>2. ASSUME NEW p \in Pids, Signal(p) PROVE Up' # {}
  <2> DEFINE c == run[p].child
  <2>1. kills = 0 BY <1>2 DEF Signal
  <2>2. c \in Pids /\ proc[c].st = "up" /\ proc[c].v = New /\ proc[p].v = "v1"
    BY <1>2, <2>1 DEF Signal, At, Runs
  <2>3. c # p BY <2>2 DEF New
  <2> HIDE DEF c
  <2>4. proc'[c] = proc[c] BY <1>0, <1>2, <2>2, <2>3 DEF Signal
  <2> QED BY <1>a, <2>2, <2>4
<1>3. ASSUME NEW p \in Pids, Kill(p) PROVE FALSE BY <1>3 DEF Kill, UpdateTypes
<1>4. ASSUME NEW p \in Pids, BindPort(p) \/ DiesAtStart(p) \/ Exit(p) PROVE Up' # {}
  <2>1. proc[p].st \in {"starting", "draining"} /\ \A q \in Pids : q # p => proc'[q] = proc[q]
    BY <1>0, <1>4 DEF BindPort, DiesAtStart, Exit
  <2> QED BY <1>c, <2>1
<1>5. ASSUME NEW p \in Pids, Spawn(p) PROVE Up' # {}
  <2>1. NextPid \in Pids /\ proc[NextPid].st = "none" BY <1>5, NextPidIs DEF Spawn
  <2> QED BY <1>0, <1>5, <1>c, <2>1 DEF Spawn
<1>6. CASE StartAgain BY <1>6, <1>b DEF StartAgain, Alive
<1>7. CASE proc' = proc BY <1>a, <1>b, <1>7
<1> QED
  BY <1>1, <1>2, <1>3, <1>4, <1>5, <1>6, <1>7
  DEF UpdateNext, RunStep, updateVars, Apply, Download, DownloadFails, MoveAside, Install, SpawnFails,
      Proven, PutBack, Stamp, Accept, FinishRequest, Command, Stage, StageFails, Watched

LEMMA StepUpdate == UpdateInv /\ [UpdateNext]_updateVars => UpdateInv'
<1> SUFFICES ASSUME UpdateInv, [UpdateNext]_updateVars PROVE UpdateInv'
    OBVIOUS
<1>1. UpdateTypes /\ Started /\ UpdateTypes' /\ Started'
  BY StepUpdateTypes, StepStarted DEF UpdateInv
<1>2. /\ ~torn' => ~torn
      /\ ~raced' => ~raced
      /\ kills' = 0 => kills = 0
  <2>1. ASSUME NEW p \in Pids, Kill(p) PROVE kills' # 0 BY <1>1, <2>1 DEF Kill, UpdateTypes
  <2>2. ASSUME NEW p \in Pids, Kill(p) PROVE (~torn' => ~torn) /\ raced' = raced BY <2>2 DEF Kill
  <2>3. CASE Stage \/ StageFails
    <3>1. ~raced' => ~raced BY <2>3 DEF Stage, StageFails
    <3> QED BY <2>3, <3>1 DEF Stage, StageFails
  <2>4. CASE UNCHANGED hist BY <2>4 DEF hist
  <2> QED
    BY <2>1, <2>2, <2>3, <2>4
    DEF UpdateNext, RunStep, updateVars, hist, Apply, Download, DownloadFails, MoveAside, Install,
        Spawn, SpawnFails, Proven, GiveUp, PutBack, Signal, Stamp, BindPort, DiesAtStart, Accept,
        FinishRequest, Exit, StartAgain, Command, Watched
<1>3. ~torn' => Runs' /\ Handover' BY <1>1, <1>2, StepRuns DEF UpdateInv
<1>4. ~torn' /\ ~raced' => OnDisk' BY <1>1, <1>2, StepOnDisk DEF UpdateInv
<1>5. kills' = 0 => Up' # {} BY <1>1, <1>2, StepPort DEF UpdateInv, UpdateTypes
<1> QED BY <1>1, <1>3, <1>4, <1>5 DEF UpdateInv

(* A set of which no two members differ.                                   *)
LEMMA OneMember ==
  ASSUME NEW S, \A x, y \in S : x = y
  PROVE  Cardinality(S) <= 1
<1>1. CASE S = {} BY <1>1, FS_EmptySet
<1>2. ASSUME NEW x \in S PROVE Cardinality(S) <= 1
  <2>1. S = {x} BY <1>2
  <2> QED BY <2>1, FS_Singleton
<1> QED BY <1>1, <1>2

(* Through an update (Run, ApplyAsync): the old process keeps the port     *)
(* until waitServing has proven the new one and only then gets its         *)
(* SIGTERM, a child that proved nothing is killed before the rollback puts *)
(* the backup back, and swap and rollback leave a restart a binary that    *)
(* has not failed its handoff -- for any number of processes, updates and  *)
(* kills, and whatever the new build does.                                 *)
THEOREM UpdatesAreSeamless == UpdateSpec => []Seamless
<1>1. UpdateInit => UpdateInv BY InitUpdate
<1>2. UpdateInv /\ [UpdateNext]_updateVars => UpdateInv' BY StepUpdate
<1>3. UpdateInv => Seamless
  <2> SUFFICES ASSUME UpdateInv PROVE Seamless
      OBVIOUS
  <2>1. PortHeld BY DEF UpdateInv, PortHeld
  <2>2. ASSUME \A p \in Pids : run[p].at = "idle", ~torn PROVE Cardinality(Up) <= 1
    <3>1. \A p, q \in Up : p = q BY <2>2 DEF UpdateInv, Handover, HandsTo, OnPort, Up
    <3> QED BY <3>1, OneMember
  <2>3. Restartable BY DEF UpdateInv, OnDisk, Sound, Restartable
  <2> QED BY <2>1, <2>2, <2>3 DEF Seamless, OneGateway
<1> QED BY <1>1, <1>2, <1>3, PTL DEF UpdateSpec
=============================================================================
