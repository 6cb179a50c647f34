----------------------------- MODULE TokenStore -----------------------------
(***************************************************************************)
(* The OAuth token file shared by the gateway and the onegw-oauth command  *)
(* (internal/oauth/store.go), the gateway's refresh loops (manager.go),    *)
(* the command's forced refresh and the dashboard's sign-out.              *)
(*                                                                         *)
(* One account.  A token is [rt, at]: rt numbers the vendor's refresh      *)
(* token, which rotates (the old one is spent by the exchange), at is      *)
(* UpdatedAt.  A job is a goroutine or a command: two refresh loops of the *)
(* account (a reload that changes its profile starts the second while the  *)
(* first finishes), the command, and the gateway's other writers of the    *)
(* file.                                                                   *)
(***************************************************************************)
EXTENDS Naturals

CONSTANTS
  Loops,      \* refresh loops of the account in the gateway
  Commands,   \* `onegw-oauth refresh` processes, one job each
  Others,     \* the gateway's other writers: another account's Put, a sign-out
  MaxRt,      \* bound: refresh tokens the vendor issues
  MaxFault    \* bound: answers lost and crashes

\* The jobs are distinct, and no process or job bears a reserved name.
StoreAssumption ==
  /\ Loops \cap Commands = {} /\ Loops \cap Others = {} /\ Commands \cap Others = {}
  /\ "gateway" \notin Commands /\ "none" \notin Loops \cup Commands \cup Others

Jobs == Loops \cup Commands \cup Others
Procs == {"gateway"} \cup Commands
Proc(j) == IF j \in Commands THEN j ELSE "gateway"

None == [rt |-> 0, at |-> 0]   \* no token stored
Unread == 0                    \* a process that has not read the file yet

VARIABLES
  file, ver,  \* the file's token and its mtime
  tmp,        \* the temporary file both processes write, and whether it exists
  resident,   \* each process: the token in its memory
  seen,       \* each process: the mtime it last saw
  lock,       \* each process: the job inside its store's mutex, or "none"
  busy,       \* the manager's single-flight mark
  loop,       \* the loop the manager runs
  pc, held,   \* each job: where it stands, the refresh token it carries
  clock,      \* the last UpdatedAt given
  vendor,     \* the refresh token the vendor accepts
  due,        \* refresh tokens up to this one belong to expiring access tokens
  lost,       \* history: the vendor rotated and the answer or its store failed
  overlap,    \* history: two processes were inside persist at once
  deleted,    \* history: a sign-out took the token away
  faults      \* bound

storeVars == <<file, ver, tmp, resident, seen, lock, busy, loop, pc, held, clock, vendor, due,
               lost, overlap, deleted, faults>>

store == <<file, ver, tmp, resident, seen, lock, clock, overlap, deleted>>

StoreInit ==
  /\ file = [rt |-> 1, at |-> 1] /\ ver = 1 /\ tmp = [there |-> FALSE, tok |-> None]
  /\ resident = [p \in Procs |-> None] /\ seen = [p \in Procs |-> Unread]
  /\ lock = [p \in Procs |-> "none"] /\ busy = FALSE /\ loop \in Loops
  /\ pc = [j \in Jobs |-> "idle"] /\ held = [j \in Jobs |-> 0]
  /\ clock = 1 /\ vendor = 1 /\ due = 0
  /\ lost = FALSE /\ overlap = FALSE /\ deleted = FALSE /\ faults = 0

-----------------------------------------------------------------------------
\* The store.

\* A plausible bug: a re-read takes the file's copy whatever its age.
Mut_mergeNewer_Disk(t, disk) == IF disk = None THEN t ELSE disk

\* mergeNewer: the file's copy unless the resident one is newer; an entry the
\* file lacks stays.
mergeNewer(t, disk) ==
  IF disk # None /\ (t = None \/ disk.at >= t.at) THEN disk ELSE t

\* syncLocked: the resident token after a look at the file.
Synced(p) ==
  IF seen[p] = ver THEN resident[p]
  ELSE IF seen[p] = Unread THEN file ELSE mergeNewer(resident[p], file)

Sync(p) == /\ resident' = [resident EXCEPT ![p] = Synced(p)] /\ seen' = [seen EXCEPT ![p] = ver]

Unlocked(p) == lock[p] = "none"

\* Get: a re-stat when the last is over a second old, else the resident token.
Get(p, t) ==
  /\ Unlocked(p)
  /\ \/ t = Synced(p) /\ Sync(p)
     \/ seen[p] # Unread /\ t = resident[p] /\ UNCHANGED <<resident, seen>>
  /\ UNCHANGED <<file, ver, tmp, lock, clock, overlap, deleted>>

InPersist(j) == pc[j] \in {"rename", "stat"}
Crossing(p) == \E j \in Jobs : Proc(j) # p /\ InPersist(j)

\* persistLocked up to the temporary file: sync again, write.
Write(j) ==
  LET p == Proc(j) IN
  /\ pc[j] = "write" /\ Sync(p)
  /\ tmp' = [there |-> TRUE, tok |-> Synced(p)]
  /\ overlap' = (overlap \/ Crossing(p))
  /\ pc' = [pc EXCEPT ![j] = "rename"]
  /\ UNCHANGED <<file, ver, lock, busy, loop, held, clock, vendor, due, lost, deleted, faults>>

\* The rename: it fails when the other process has renamed the file away.
Rename(j) ==
  /\ pc[j] = "rename"
  /\ IF tmp.there
     THEN /\ file' = tmp.tok /\ ver' = ver + 1 /\ tmp' = [there |-> FALSE, tok |-> None]
          /\ pc' = [pc EXCEPT ![j] = "stat"]
          /\ UNCHANGED lock
     ELSE /\ pc' = [pc EXCEPT ![j] = "failed"]
          /\ lock' = [lock EXCEPT ![Proc(j)] = "none"]
          /\ UNCHANGED <<file, ver, tmp>>
  /\ UNCHANGED <<resident, seen, busy, loop, held, clock, vendor, due, lost, overlap, deleted, faults>>

\* The stat after it records whatever mtime the file has by then.
Stat(j) ==
  LET p == Proc(j) IN
  /\ pc[j] = "stat"
  /\ seen' = [seen EXCEPT ![p] = ver]
  /\ lock' = [lock EXCEPT ![p] = "none"]
  /\ pc' = [pc EXCEPT ![j] = "done"]
  /\ UNCHANGED <<file, ver, tmp, resident, busy, loop, held, clock, vendor, due, lost, overlap, deleted, faults>>

\* Put: the token is stamped with the time it is stored.
Put(j) ==
  LET p == Proc(j) IN
  /\ pc[j] = "got" /\ Unlocked(p)
  /\ clock' = clock + 1
  /\ resident' = [resident EXCEPT ![p] = [rt |-> held[j], at |-> clock + 1]]
  /\ seen' = [seen EXCEPT ![p] = ver]
  /\ lock' = [lock EXCEPT ![p] = j]
  /\ pc' = [pc EXCEPT ![j] = "write"]
  /\ UNCHANGED <<file, ver, tmp, busy, loop, held, vendor, due, lost, overlap, deleted, faults>>

\* Put of another account's token: this account's is written back as it is.
PutOther(j) ==
  /\ pc[j] = "idle" /\ Unlocked("gateway")
  /\ Sync("gateway")
  /\ lock' = [lock EXCEPT !["gateway"] = j]
  /\ pc' = [pc EXCEPT ![j] = "write"]
  /\ UNCHANGED <<file, ver, tmp, busy, loop, held, clock, vendor, due, lost, overlap, deleted, faults>>

\* Delete, on a sign-out.
Delete(j) ==
  /\ pc[j] = "idle" /\ Unlocked("gateway")
  /\ resident' = [resident EXCEPT !["gateway"] = None]
  /\ seen' = [seen EXCEPT !["gateway"] = ver]
  /\ lock' = [lock EXCEPT !["gateway"] = j]
  /\ pc' = [pc EXCEPT ![j] = "write"]
  /\ deleted' = TRUE
  /\ UNCHANGED <<file, ver, tmp, busy, loop, held, clock, vendor, due, lost, overlap, faults>>

-----------------------------------------------------------------------------
\* The manager.

\* An access token nears its expiry, or the vendor's signed exp says so.
Lapse ==
  /\ due < vendor /\ vendor < MaxRt
  /\ due' = vendor
  /\ UNCHANGED <<store, busy, loop, pc, held, vendor, lost, faults>>

\* maybeRefresh, on a tick: nothing to do unless a token is near its expiry.
Tick(j) ==
  /\ j = loop /\ pc[j] = "idle"
  /\ \E t \in {resident["gateway"], Synced("gateway")} :
       /\ Get("gateway", t)
       /\ t # None /\ t.rt <= due
       /\ pc' = [pc EXCEPT ![j] = "due"]
  /\ UNCHANGED <<busy, loop, held, vendor, due, lost, faults>>

\* A plausible bug: the single-flight mark is not looked at.
Mut_Claim_Unguarded(j) ==
  /\ pc[j] = "due"
  /\ busy' = TRUE /\ pc' = [pc EXCEPT ![j] = "ask"]
  /\ UNCHANGED <<store, loop, held, vendor, due, lost, faults>>

\* The single-flight mark: a second refresh of the account gives up.
Claim(j) ==
  /\ pc[j] = "due"
  /\ IF busy THEN pc' = [pc EXCEPT ![j] = "idle"] /\ UNCHANGED busy
     ELSE pc' = [pc EXCEPT ![j] = "ask"] /\ busy' = TRUE
  /\ UNCHANGED <<store, loop, held, vendor, due, lost, faults>>

\* refresh: the token is read again and its refresh token sent.  A command
\* starts here (RefreshNow): it knows neither the expiry nor the mark.
Ask(j) ==
  LET p == Proc(j) IN
  /\ IF j \in Commands THEN pc[j] = "idle" ELSE pc[j] = "ask"
  /\ \E t \in {resident[p], Synced(p)} :
       /\ Get(p, t)
       /\ held' = [held EXCEPT ![j] = t.rt]
       /\ pc' = [pc EXCEPT ![j] = IF t = None THEN "failed" ELSE "sent"]
  /\ UNCHANGED <<busy, loop, vendor, due, lost, faults>>

\* A plausible bug: the response's refresh token is dropped for the old one.
Mut_Grant_KeepsOld(j) ==
  /\ pc[j] = "sent" /\ held[j] = vendor /\ vendor < MaxRt
  /\ vendor' = vendor + 1
  /\ pc' = [pc EXCEPT ![j] = "got"]
  /\ UNCHANGED <<store, busy, loop, held, due, lost, faults>>

\* The vendor rotates: the answer carries the next refresh token.
Grant(j) ==
  /\ pc[j] = "sent" /\ held[j] = vendor /\ vendor < MaxRt
  /\ vendor' = vendor + 1
  /\ held' = [held EXCEPT ![j] = vendor + 1]
  /\ pc' = [pc EXCEPT ![j] = "got"]
  /\ UNCHANGED <<store, busy, loop, due, lost, faults>>

\* A spent refresh token is refused.
Refuse(j) ==
  /\ pc[j] = "sent" /\ held[j] # vendor
  /\ pc' = [pc EXCEPT ![j] = "failed"]
  /\ UNCHANGED <<store, busy, loop, held, vendor, due, lost, faults>>

\* The exchange fails on the way there or, after the vendor rotated, back.
NoAnswer(j) ==
  /\ pc[j] = "sent" /\ faults < MaxFault
  /\ faults' = faults + 1
  /\ pc' = [pc EXCEPT ![j] = "failed"]
  /\ \/ UNCHANGED <<vendor, lost>>
     \/ held[j] = vendor /\ vendor < MaxRt /\ vendor' = vendor + 1 /\ lost' = TRUE
  /\ UNCHANGED <<store, busy, loop, held, due>>

\* A plausible bug: a failed refresh keeps the single-flight mark.
Mut_Settle_KeepsMark(j) ==
  /\ pc[j] \in {"done", "failed"} /\ j \in Loops
  /\ pc' = [pc EXCEPT ![j] = "idle"] /\ busy' = (pc[j] = "failed")
  /\ UNCHANGED <<store, loop, held, vendor, due, lost, faults>>

\* maybeRefresh returns and drops the mark; the next tick retries.
Settle(j) ==
  /\ pc[j] \in {"done", "failed"} /\ j \in Loops
  /\ pc' = [pc EXCEPT ![j] = "idle"] /\ busy' = FALSE
  /\ UNCHANGED <<store, loop, held, vendor, due, lost, faults>>

\* Sync: the account's profile changed, the other loop takes over.
Restart ==
  /\ \E j \in Loops \ {loop} : loop' = j
  /\ UNCHANGED <<store, busy, pc, held, vendor, due, lost, faults>>

\* A process ends between two steps: what only it held is gone.  The gateway
\* starts again; a command does not.
Carries(j) == pc[j] \in {"got", "write", "rename"} /\ held[j] = vendor

Dies(p) ==
  /\ faults < MaxFault /\ faults' = faults + 1
  /\ \E j \in Jobs : Proc(j) = p /\ pc[j] # "idle" /\ (p = "gateway" \/ pc[j] \notin {"done", "failed"})
  /\ resident' = [resident EXCEPT ![p] = None] /\ seen' = [seen EXCEPT ![p] = Unread]
  /\ lock' = [lock EXCEPT ![p] = "none"]
  /\ busy' = (busy /\ p # "gateway")
  /\ pc' = [j \in Jobs |->
              IF Proc(j) # p THEN pc[j]
              ELSE IF j \in Loops THEN "idle" ELSE "done"]
  /\ lost' = (lost \/ \E j \in Jobs : Proc(j) = p /\ Carries(j))
  /\ UNCHANGED <<file, ver, tmp, loop, held, clock, vendor, due, overlap, deleted>>

SomeTick == \E j \in Loops : Tick(j)

\* What a refresh under way, or a store operation, does next.
Step(j) ==
  \/ Put(j) \/ Write(j) \/ Rename(j) \/ Stat(j)
  \/ j \in Loops \cup Commands /\ (Ask(j) \/ Grant(j) \/ Refuse(j))
  \/ j \in Loops /\ (Claim(j) \/ Settle(j))

StoreNext ==
  \/ \E j \in Jobs : Step(j)
  \/ \E j \in Others : PutOther(j) \/ Delete(j)
  \/ \E j \in Loops \cup Commands : NoAnswer(j)
  \/ SomeTick \/ Lapse \/ Restart
  \/ \E p \in Procs : Dies(p)

\* The loops' timers fire, and what was begun goes on: an HTTP exchange ends
\* within its client's 30 s, the mutex is held for a few file operations.
StoreFairness ==
  /\ WF_storeVars(SomeTick)
  /\ \A j \in Loops : WF_storeVars(Step(j))
  /\ WF_storeVars(\E j \in Jobs \ Loops : pc[j] # "idle" /\ Step(j))

StoreSpec == StoreInit /\ [][StoreNext]_storeVars /\ StoreFairness

-----------------------------------------------------------------------------
\* A token a process holds is never replaced by an older one, whatever the
\* file was rolled back to (mergeNewer; "the newer UpdatedAt wins per key").
NoRollback ==
  [][\A p \in Procs : resident'[p] = None \/ resident'[p].at >= resident[p].at]_storeVars

\* The gateway never has two refreshes of one account under way, though a
\* reload may run a second loop beside the first: each refresh token it spends,
\* it spends once.
OneRefresh ==
  \A i, j \in Loops :
    pc[i] \in {"ask", "sent", "got"} /\ pc[j] \in {"ask", "sent", "got"} => i = j

\* The rotating credential survives: while no answer was lost, no process died
\* with it in hand and no two processes wrote the file at once, the refresh
\* token the vendor accepts is in the file, resident in the gateway, or on its
\* way there -- however loops, commands and restarts interleave.
Holds(t) == t.rt = vendor
CredentialKept ==
  lost \/ overlap \/ deleted
    \/ Holds(file) \/ (\E j \in Loops \cup Commands : pc[j] \in {"got", "write", "rename"} /\ held[j] = vendor)

\* store.go: "the newer UpdatedAt wins per key, so the gateway's auto-refresher
\* and a concurrent CLI refresh cannot clobber each other's rotated refresh
\* token".  Without a fault, the token the vendor accepts is never lost.
CannotClobber ==
  faults > 0 \/ deleted
    \/ Holds(file) \/ Holds(resident["gateway"])
    \/ \E j \in Loops \cup Commands : pc[j] \in {"got", "write", "rename", "stat"} /\ held[j] = vendor

\* The mark never sticks: an account whose token is due, and still the one the
\* vendor accepts, is refreshed.
Overdue == resident["gateway"] # None /\ resident["gateway"].rt <= due /\ Holds(resident["gateway"])
Refreshes == Overdue ~> ~Overdue

\* A rotating refresh token is spent once, and its successor is not lost.
OneUse == OneRefresh /\ CredentialKept
=============================================================================
