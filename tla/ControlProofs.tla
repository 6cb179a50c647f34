--------------------------- MODULE ControlProofs ---------------------------
(***************************************************************************)
(* Proofs about what the operator does to a running gateway.               *)
(*                                                                         *)
(* ConfigEdit: acknowledged edits are in the file, in force and survive a  *)
(* restart, for any number of editors, edits by hand, signals and crashes. *)
(* An edit works with what it read, and what it read stays the newest      *)
(* value of each field unless somebody without the lock writes, which is   *)
(* booked against it (FreshRead).  Of the reloads that do not overlap, one *)
(* at a time carries what the file says (InStep).                          *)
(*                                                                         *)
(* AdminSessions: an address has no more guesses behind it and under way   *)
(* than the guard allows (Guesses), and room in the session table is made  *)
(* of expired sessions before live ones, of the soonest one among those.   *)
(*                                                                         *)
(* StateReload: quota and terminal marks over overlapping reloads.  The    *)
(* serving state and every heir of it miss no more than what strayed       *)
(* (NoneLost), nothing counts what was not observed (NoneOver), and a      *)
(* state not stored yet is nobody else's (Apart).                          *)
(*                                                                         *)
(* Subquota: polls, their verdicts and a reload, for any cycle and timeout.*)
(* What is left of a park and how long the vendor has been spendable again *)
(* stay within a cycle and a timeout together (ParksEnd); a snapshot that  *)
(* stands beside another has its successor due within a cycle (Replacing). *)
(***************************************************************************)
EXTENDS ConfigEdit, AdminSessions, StateReload, Subquota, FiniteSetTheorems, WellFoundedInduction, TLAPS

\* A request between its read of the file and its answer.
Active == {"read", "wrote", "loaded", "live"}

(* What each station has read so far.                                      *)
Reads ==
  /\ \A e \in Editors :
       /\ ed[e].at = "ask" /\ ed[e].kind = "keyrow" => ed[e].snap \in Rows
       /\ ed[e].at = "read" => ed[e].base \in Configs
       /\ ed[e].at = "read" /\ ed[e].kind \in {"keyrow", "pin"} => ed[e].snap \in Rows
       /\ ed[e].at = "loaded" => ed[e].snap \in Configs
  /\ hup.at # "idle" => hup.cfg \in Configs
  /\ ~up => hup.at = "idle" /\ \A e \in Editors : ed[e].at \notin Active

(* cfgMu: who edits with the lock has it.                                  *)
Excluded == \A e \in Editors : ed[e].at \in Active /\ Locks(e) => cfgMu = e

(* What a request read is still the newest value of every field, but for   *)
(* those an unlocked change touched since.                                 *)
FreshRead ==
  \A e \in Editors : ed[e].at = "read" =>
    \A f \in Fields \ (ed[e].stale \cup undone) : ed[e].base[f] = last[f]

(* Which requests come to which station, and what a password change has    *)
(* achieved when it gets there.                                            *)
Stages ==
  \A e \in Editors :
    /\ ed[e].at = "wrote" => writable /\ ed[e].kind # "reload"
    /\ ed[e].at = "loaded" /\ ~writable => ed[e].kind = "reload"
    /\ ed[e].at = "live" => ed[e].kind = "password"
    /\ ed[e].at \in {"wrote", "loaded", "live"} /\ ed[e].kind = "password" /\ writable => last["pw"] = e
    /\ ed[e].at = "live" /\ ~writable /\ ~crossed => live["pw"] = e

(* Nobody is between a write and the load that follows it.                 *)
Settled == ~unseen /\ \A e \in Editors : ed[e].at # "wrote"

NoneLoaded == \A e \in Editors : ed[e].at # "loaded"

(* cfg is what the file says, the password apart that was taken back.      *)
Says(cfg) ==
  /\ \A f \in Fields \ {"pw"} : cfg[f] = file[f]
  /\ cfg["pw"] = UseStoredAdminPassword(file["pw"]) \/ "pw" \in undone

(* Of the reloads that do not overlap at most one is under way.            *)
OneReload ==
  /\ \A e, o \in Editors : ed[e].at = "loaded" /\ ed[o].at = "loaded" => e = o
  /\ \A e \in Editors : ed[e].at \in {"loaded", "live"} => hup.at = "idle"

(* It carries what the file says.                                          *)
FromFile ==
  /\ \A e \in Editors : ed[e].at = "loaded" /\ Settled => Says(ed[e].snap)
  /\ hup.at = "loaded" /\ Settled => Says(hup.cfg)

(* It brings it to the requests and to the update service.                 *)
Stored ==
  /\ hup.at = "reloaded" => live = hup.cfg /\ curCfg = live
  /\ hup.at # "loaded" /\ NoneLoaded => curCfg = live

(* Once it has arrived, what is in force is what the file says.  A password *)
(* the file cannot take is in force before the mirror has it.               *)
Arrived ==
  hup.at # "loaded" /\ NoneLoaded /\ Settled =>
    \/ Says(live)
    \/ /\ \A f \in Fields \ {"pw"} : live[f] = file[f]
       /\ ~writable
       /\ file["pw"] # None \/ \E e \in Editors : ed[e].at = "live"

InStep == up /\ ~crossed => OneReload /\ FromFile /\ Stored /\ Arrived

IInv == TypeOK /\ Reads /\ Excluded /\ FreshRead /\ Stages /\ mirror = pw /\ EditsKept /\ InStep

-----------------------------------------------------------------------------
(* The values a splice puts together are values of the file.               *)
LEMMA SpliceType ==
  ASSUME IInv, NEW e \in Editors, ed[e].at = "read" PROVE Splice(e) \in Configs
<1> USE DEF IInv, Configs, Rows, Values, Fields
<1>1. ed[e].base \in [Fields -> Values] BY DEF Reads
<1>2. ed[e].kind \in {"keyrow", "pin"} => ed[e].snap \in [{"url", "key"} -> Values] BY DEF Reads
<1> QED BY <1>1, <1>2 DEF Splice

(* What the file configures has a value for every field.                   *)
LEMMA LoadType ==
  ASSUME TypeOK
  PROVE  /\ Load \in Configs
         /\ \A f \in Fields \ {"pw"} : Load[f] = file[f]
         /\ Load["pw"] = IF file["pw"] # None THEN file["pw"] ELSE mirror
BY DEF TypeOK, Load, UseStoredAdminPassword, Configs, Fields

(* The part of a row an edit looks at is a row.                            *)
LEMMA SnapshotType ==
  ASSUME TypeOK, NEW kind
  PROVE  Row(live) \in Rows /\ Snapshot(kind) \in Rows \cup {None} /\ (kind = "keyrow" => Snapshot(kind) \in Rows)
BY DEF TypeOK, Snapshot, Row, Rows, Configs, Fields

(* Well-typed states stay well typed.                                      *)
LEMMA StepTypes == ASSUME IInv, [Next]_vars PROVE TypeOK'
<1> USE DEF IInv, TypeOK, Stations, Request
<1>1. ASSUME NEW e \in Editors, NEW kind \in Kinds, Ask(e, kind) PROVE TypeOK'
  <2>1. Snapshot(kind) \in Rows \cup {None} BY DEF Snapshot, Row, Rows, Configs, Fields
  <2> QED BY <1>1, <2>1 DEF Ask, Idle, hist
<1>2. ASSUME NEW e \in Editors, Enter(e) PROVE TypeOK'
  <2>1. Row(live) \in Rows BY DEF Row, Rows, Configs, Fields
  <2>2. cfgMu' \in Editors \cup {None} BY <1>2 DEF Enter
  <2>3. PICK s \in Rows \cup Configs \cup {None} : ed' = [ed EXCEPT ![e].at = "read", ![e].base = file, ![e].snap = s]
    <3>1. ed[e].snap \in Rows \cup Configs \cup {None} OBVIOUS
    <3> QED BY <1>2, <2>1, <3>1 DEF Enter
  <2>4. ed' = [ed EXCEPT ![e] = [ed[e] EXCEPT !.at = "read", !.base = file, !.snap = s]] BY <2>3
  <2>5. [ed[e] EXCEPT !.at = "read", !.base = file, !.snap = s] \in Request OBVIOUS
  <2>6. ed' \in [Editors -> Request] BY <2>4, <2>5
  <2> QED BY <1>2, <2>2, <2>6 DEF Enter
<1>3. ASSUME NEW e \in Editors, Reject(e) \/ WriteFails(e) PROVE TypeOK'
  BY <1>3 DEF Reject, WriteFails, Done, Idle, hist
<1>4. ASSUME NEW e \in Editors, Rename(e) PROVE TypeOK'
  <2>1. Splice(e) \in Configs BY <1>4, SpliceType DEF Rename
  <2>2. Meant(e) \subseteq Fields BY DEF Meant, Fields
  <2>3. last' \in Configs BY <1>4, <2>2 DEF Rename, Configs, Values
  <2>4. undone' \subseteq Fields BY <1>4, <2>2 DEF Rename
  <2>5. rowLost' \in BOOLEAN BY <1>4 DEF Rename
  <2>6. ed' \in [Editors -> Request]
    BY <1>4, <2>2 DEF Rename
  <2> QED BY <1>4, <2>1, <2>3, <2>4, <2>5, <2>6 DEF Rename
<1>5. ASSUME NEW e \in Editors, LoadFile(e) PROVE TypeOK'
  <2>1. Load \in Configs BY LoadType
  <2>2. ed' = [ed EXCEPT ![e].at = "loaded", ![e].snap = Load] BY <1>5 DEF LoadFile
  <2>3. crossed' \in BOOLEAN BY <1>5 DEF LoadFile
  <2>4. ed' = [ed EXCEPT ![e] = [ed[e] EXCEPT !.at = "loaded", !.snap = Load]] BY <2>2
  <2>5. [ed[e] EXCEPT !.at = "loaded", !.snap = Load] \in Request BY <2>1
  <2>6. ed' \in [Editors -> Request] BY <2>4, <2>5
  <2> QED BY <1>5, <2>3, <2>6 DEF LoadFile
<1>6. ASSUME NEW e \in Editors, Reload(e) PROVE TypeOK'
  <2>1. ed[e].snap \in Configs BY <1>6 DEF Reload, Reads
  <2> QED BY <1>6, <2>1 DEF Reload, Done, Idle
<1>7. ASSUME NEW e \in Editors, SwapPassword(e) PROVE TypeOK'
  <2>1. live' \in Configs BY <1>7 DEF SwapPassword, Configs, Values
  <2>2. ed' \in [Editors -> Request] BY <1>7 DEF SwapPassword
  <2> QED BY <1>7, <2>1, <2>2 DEF SwapPassword
<1>8. ASSUME NEW e \in Editors, Mirror(e) PROVE TypeOK'
  BY <1>8 DEF Mirror, Done, Idle, Values
<1>9. CASE HandEdit
  <2> PICK f \in {"url", "alias"}, good \in BOOLEAN :
        /\ file' = [file EXCEPT ![f] = Hand] /\ loads' = good
        /\ last' = [last EXCEPT ![f] = Hand]
        /\ undone' = undone \ {f}
        /\ ed' = [o \in Editors |-> IF ed[o].at = "read" THEN [ed[o] EXCEPT !.stale = @ \cup {f}] ELSE ed[o]]
    BY <1>9 DEF HandEdit
  <2>1. file' \in Configs /\ last' \in Configs BY DEF Configs, Values
  <2>2. f \in Fields BY DEF Fields
  <2> QED BY <1>9, <2>1, <2>2 DEF HandEdit
<1>10. CASE Mend BY <1>10 DEF Mend, hist
<1>11. CASE HupLoad BY <1>11, LoadType DEF HupLoad, Quiet
<1>12. CASE HupReload BY <1>12 DEF HupReload, Reads
<1>13. CASE HupStore BY <1>13 DEF HupStore, Reads, Quiet, hist
<1>14. CASE Crash BY <1>14 DEF Crash, Quiet, Idle, hist
<1>15. CASE Boot BY <1>15, LoadType DEF Boot
<1>16. CASE UNCHANGED vars BY <1>16 DEF vars
<1> QED BY <1>1, <1>2, <1>3, <1>4, <1>5, <1>6, <1>7, <1>8, <1>9, <1>10, <1>11, <1>12, <1>13, <1>14, <1>15, <1>16 DEF Next

(* What a station has read it keeps until it has used it.                  *)
LEMMA StepReads == ASSUME EditAssumption, IInv, [Next]_vars PROVE Reads'
<1> USE DEF IInv, TypeOK, Reads, Active, Request
<1>1. ASSUME NEW e \in Editors, NEW kind \in Kinds, Ask(e, kind) PROVE Reads'
  BY <1>1, SnapshotType DEF Ask, Idle, hist
<1>2. ASSUME NEW e \in Editors, Enter(e) PROVE Reads'
  BY <1>2, SnapshotType DEF Enter
<1>3. ASSUME NEW e \in Editors, Reject(e) \/ WriteFails(e) PROVE Reads'
  BY <1>3 DEF Reject, WriteFails, Done, Idle, hist
<1>4. ASSUME NEW e \in Editors, Rename(e) PROVE Reads'
  BY <1>4 DEF Rename
<1>5. ASSUME NEW e \in Editors, LoadFile(e) PROVE Reads'
  BY <1>5, LoadType DEF LoadFile
<1>6. ASSUME NEW e \in Editors, Reload(e) PROVE Reads'
  BY <1>6 DEF Reload, Done, Idle
<1>7. ASSUME NEW e \in Editors, SwapPassword(e) PROVE Reads'
  BY <1>7 DEF SwapPassword
<1>8. ASSUME NEW e \in Editors, Mirror(e) PROVE Reads'
  BY <1>8 DEF Mirror, Done, Idle
<1>9. CASE HandEdit BY <1>9 DEF HandEdit
<1>10. CASE Mend BY <1>10 DEF Mend, hist
<1>11. CASE HupLoad BY <1>11, LoadType DEF HupLoad, Quiet
<1>12. CASE HupReload BY <1>12 DEF HupReload
<1>13. CASE HupStore BY <1>13 DEF HupStore, Quiet, hist
<1>14. CASE Crash BY <1>14 DEF Crash, Quiet, Idle, hist
<1>15. CASE Boot BY <1>15 DEF Boot
<1>16. CASE UNCHANGED vars BY <1>16 DEF vars
<1> QED BY <1>1, <1>2, <1>3, <1>4, <1>5, <1>6, <1>7, <1>8, <1>9, <1>10, <1>11, <1>12, <1>13, <1>14, <1>15, <1>16 DEF Next

(* The lock goes from holder to holder, by way of nobody.                  *)
LEMMA StepExcluded == ASSUME EditAssumption, IInv, [Next]_vars PROVE Excluded'
<1> USE DEF IInv, TypeOK, Reads, Excluded, Active, Request, Locks, EditAssumption
<1>1. ASSUME NEW e \in Editors, NEW kind \in Kinds, Ask(e, kind) PROVE Excluded'
  BY <1>1 DEF Ask, Idle, hist
<1>2. ASSUME NEW e \in Editors, Enter(e) PROVE Excluded'
  BY <1>2 DEF Enter
<1>3. ASSUME NEW e \in Editors, Reject(e) \/ WriteFails(e) PROVE Excluded'
  BY <1>3 DEF Reject, WriteFails, Done, Idle, hist
<1>4. ASSUME NEW e \in Editors, Rename(e) PROVE Excluded'
  BY <1>4 DEF Rename
<1>5. ASSUME NEW e \in Editors, LoadFile(e) PROVE Excluded'
  BY <1>5 DEF LoadFile
<1>6. ASSUME NEW e \in Editors, Reload(e) PROVE Excluded'
  BY <1>6 DEF Reload, Done, Idle
<1>7. ASSUME NEW e \in Editors, SwapPassword(e) PROVE Excluded'
  BY <1>7 DEF SwapPassword
<1>8. ASSUME NEW e \in Editors, Mirror(e) PROVE Excluded'
  BY <1>8 DEF Mirror, Done, Idle
<1>9. CASE HandEdit BY <1>9 DEF HandEdit
<1>10. CASE Mend BY <1>10 DEF Mend, hist
<1>11. CASE HupLoad BY <1>11 DEF HupLoad, Quiet
<1>12. CASE HupReload BY <1>12 DEF HupReload
<1>13. CASE HupStore BY <1>13 DEF HupStore, Quiet, hist
<1>14. CASE Crash BY <1>14 DEF Crash, Quiet, Idle, hist
<1>15. CASE Boot BY <1>15 DEF Boot
<1>16. CASE UNCHANGED vars BY <1>16 DEF vars
<1> QED BY <1>1, <1>2, <1>3, <1>4, <1>5, <1>6, <1>7, <1>8, <1>9, <1>10, <1>11, <1>12, <1>13, <1>14, <1>15, <1>16 DEF Next

(* A password change at its later stations is the only one.                *)
LEMMA StepStages == ASSUME EditAssumption, IInv, [Next]_vars PROVE Stages'
<1> USE DEF IInv, TypeOK, Reads, Excluded, Active, Stages, Request, Locks, EditAssumption
<1>1. ASSUME NEW e \in Editors, NEW kind \in Kinds, Ask(e, kind) PROVE Stages'
  BY <1>1 DEF Ask, Idle, hist
<1>2. ASSUME NEW e \in Editors, Enter(e) PROVE Stages'
  BY <1>2 DEF Enter
<1>3. ASSUME NEW e \in Editors, Reject(e) \/ WriteFails(e) PROVE Stages'
  BY <1>3 DEF Reject, WriteFails, Done, Idle, hist
<1>4. ASSUME NEW e \in Editors, Rename(e) PROVE Stages'
  BY <1>4 DEF Rename, Meant, Fields
<1>5. ASSUME NEW e \in Editors, LoadFile(e) PROVE Stages'
  BY <1>5 DEF LoadFile
<1>6. ASSUME NEW e \in Editors, Reload(e) PROVE Stages'
  BY <1>6 DEF Reload, Done, Idle
<1>7. ASSUME NEW e \in Editors, SwapPassword(e) PROVE Stages'
  BY <1>7 DEF SwapPassword, Configs, Fields
<1>8. ASSUME NEW e \in Editors, Mirror(e) PROVE Stages'
  BY <1>8 DEF Mirror, Done, Idle
<1>9. CASE HandEdit BY <1>9 DEF HandEdit
<1>10. CASE Mend BY <1>10 DEF Mend, hist
<1>11. CASE HupLoad BY <1>11 DEF HupLoad, Quiet
<1>12. CASE HupReload BY <1>12 DEF HupReload, Editing
<1>13. CASE HupStore BY <1>13 DEF HupStore, Quiet, hist
<1>14. CASE Crash BY <1>14 DEF Crash, Idle, hist
<1>15. CASE Boot BY <1>15 DEF Boot
<1>16. CASE UNCHANGED vars BY <1>16 DEF vars
<1> QED BY <1>1, <1>2, <1>3, <1>4, <1>5, <1>6, <1>7, <1>8, <1>9, <1>10, <1>11, <1>12, <1>13, <1>14, <1>15, <1>16 DEF Next

(* Nobody with the lock works with an old file, and nothing is lost.       *)
LEMMA StepFresh == ASSUME EditAssumption, IInv, [Next]_vars PROVE FreshRead' /\ EditsKept'
<1> USE DEF IInv, TypeOK, Reads, Excluded, Active, FreshRead, EditsKept, Request, Locks, EditAssumption
<1>1. ASSUME NEW e \in Editors, NEW kind \in Kinds, Ask(e, kind) PROVE FreshRead' /\ EditsKept'
  BY <1>1 DEF Ask, Idle, hist
<1>2. ASSUME NEW e \in Editors, Enter(e) PROVE FreshRead' /\ EditsKept'
  BY <1>2 DEF Enter
<1>3. ASSUME NEW e \in Editors, Reject(e) \/ WriteFails(e) PROVE FreshRead' /\ EditsKept'
  BY <1>3 DEF Reject, WriteFails, Done, Idle, hist
<1>4. ASSUME NEW e \in Editors, Rename(e) PROVE FreshRead' /\ EditsKept'
  BY <1>4 DEF Rename, Splice
<1>5. ASSUME NEW e \in Editors, LoadFile(e) PROVE FreshRead' /\ EditsKept'
  BY <1>5 DEF LoadFile
<1>6. ASSUME NEW e \in Editors, Reload(e) PROVE FreshRead' /\ EditsKept'
  BY <1>6 DEF Reload, Done, Idle
<1>7. ASSUME NEW e \in Editors, SwapPassword(e) PROVE FreshRead' /\ EditsKept'
  BY <1>7 DEF SwapPassword
<1>8. ASSUME NEW e \in Editors, Mirror(e) PROVE FreshRead' /\ EditsKept'
  BY <1>8 DEF Mirror, Done, Idle
<1>9. CASE HandEdit
  <2> PICK f \in {"url", "alias"}, good \in BOOLEAN :
        /\ file' = [file EXCEPT ![f] = Hand] /\ loads' = good
        /\ last' = [last EXCEPT ![f] = Hand]
        /\ undone' = undone \ {f}
        /\ ed' = [o \in Editors |-> IF ed[o].at = "read" THEN [ed[o] EXCEPT !.stale = @ \cup {f}] ELSE ed[o]]
    BY <1>9 DEF HandEdit
  <2>1. \A g \in Fields : g # f => file'[g] = file[g] /\ last'[g] = last[g] BY DEF Configs, Fields
  <2>2. f \in Fields /\ file'[f] = last'[f] BY DEF Configs, Fields
  <2>3. ASSUME NEW o \in Editors, ed'[o].at = "read"
        PROVE  ed[o].at = "read" /\ ed'[o].base = ed[o].base /\ ed'[o].stale = ed[o].stale \cup {f}
    BY <2>3
  <2>4. FreshRead' BY <2>1, <2>3
  <2>5. EditsKept' BY <2>1, <2>2
  <2> QED BY <2>4, <2>5
<1>10. CASE Mend BY <1>10 DEF Mend, hist
<1>11. CASE HupLoad BY <1>11 DEF HupLoad, Quiet
<1>12. CASE HupReload BY <1>12 DEF HupReload
<1>13. CASE HupStore BY <1>13 DEF HupStore, Quiet, hist
<1>14. CASE Crash BY <1>14 DEF Crash, Quiet, Idle, hist
<1>15. CASE Boot BY <1>15 DEF Boot
<1>16. CASE UNCHANGED vars BY <1>16 DEF vars
<1> QED BY <1>1, <1>2, <1>3, <1>4, <1>5, <1>6, <1>7, <1>8, <1>9, <1>10, <1>11, <1>12, <1>13, <1>14, <1>15, <1>16 DEF Next

(* What is loaded is what the file says, and one reload at a time carries  *)
(* it into force.                                                          *)
LEMMA StepInStep == ASSUME EditAssumption, IInv, [Next]_vars PROVE InStep'
<1> USE DEF IInv, TypeOK, Reads, Active, Request, InStep, OneReload, FromFile, Stored, Arrived, Settled, NoneLoaded, Says, UseStoredAdminPassword
<1>1. ASSUME NEW e \in Editors, NEW kind \in Kinds, Ask(e, kind) PROVE InStep'
  BY <1>1 DEF Ask, Idle, hist
<1>2. ASSUME NEW e \in Editors, Enter(e) PROVE InStep'
  BY <1>2 DEF Enter
<1>3. ASSUME NEW e \in Editors, Reject(e) \/ WriteFails(e) PROVE InStep'
  <2>1. \A o \in Editors, a \in {"wrote", "loaded", "live"} : ed'[o].at = a <=> ed[o].at = a
    BY <1>3 DEF Reject, WriteFails, Done, Idle
  <2>2. \A o \in Editors : ed'[o].at = "loaded" => ed'[o].snap = ed[o].snap
    BY <1>3 DEF Reject, WriteFails, Done, Idle
  <2>3. UNCHANGED <<up, crossed, unseen, file, mirror, undone, hup, live, curCfg, writable>>
    BY <1>3 DEF Reject, WriteFails, hist
  <2>4. SUFFICES ASSUME up, ~crossed PROVE (OneReload /\ FromFile /\ Stored /\ Arrived)' BY <2>3
  <2>5. OneReload' BY <2>1, <2>3, <2>4
  <2>6. FromFile' BY <2>1, <2>2, <2>3, <2>4
  <2>7. Stored' BY <2>1, <2>3, <2>4
  <2>8. Arrived' BY <2>1, <2>3, <2>4
  <2> QED BY <2>5, <2>6, <2>7, <2>8
<1>4. ASSUME NEW e \in Editors, Rename(e) PROVE InStep'
  <2>1. ed'[e].at = "wrote" BY <1>4 DEF Rename
  <2>2. \A o \in Editors : ed'[o].at = "loaded" <=> ed[o].at = "loaded" BY <1>4 DEF Rename
  <2>3. \A o \in Editors : ed'[o].at = "live" <=> ed[o].at = "live" BY <1>4 DEF Rename
  <2> QED BY <1>4, <2>1, <2>2, <2>3 DEF Rename
<1>5. ASSUME NEW e \in Editors, LoadFile(e) PROVE InStep'
  <2>1. /\ \A f \in Fields \ {"pw"} : Load[f] = file[f]
        /\ Load["pw"] = UseStoredAdminPassword(file["pw"])
    BY LoadType
  <2>2. ed'[e].at = "loaded" /\ ed'[e].snap = Load BY <1>5 DEF LoadFile
  <2>3. \A o \in Editors : o # e => ed'[o] = ed[o] BY <1>5 DEF LoadFile
  <2>4. SUFFICES ASSUME ~crossed' PROVE InStep' OBVIOUS
  <2>5. hup.at = "idle" /\ \A o \in Editors : o # e => ed'[o].at # "loaded" BY <1>5, <2>3, <2>4 DEF LoadFile
  <2>6. Says(ed[e].snap)' BY <1>5, <2>1, <2>2 DEF LoadFile
  <2>7. \A o \in Editors : ed'[o].at = "loaded" => o = e BY <2>5
  <2> QED BY <1>5, <2>2, <2>5, <2>6, <2>7 DEF LoadFile
<1>6. ASSUME NEW e \in Editors, Reload(e) PROVE InStep'
  BY <1>6 DEF Reload, Done, Idle
<1>7. ASSUME NEW e \in Editors, SwapPassword(e) PROVE InStep'
  <2>1. \A f \in Fields \ {"pw"} : live'[f] = live[f] BY <1>7 DEF SwapPassword, Configs, Fields
  <2>2. ed'[e].at = "live" /\ ed[e].at = "read" BY <1>7 DEF SwapPassword
  <2>3. \A o \in Editors : o # e => ed'[o] = ed[o] BY <1>7 DEF SwapPassword
  <2>4. SUFFICES ASSUME up, ~crossed, hup.at = "idle" PROVE (OneReload /\ FromFile /\ Stored /\ Arrived)'
    BY <1>7 DEF SwapPassword
  <2>5. OneReload' BY <1>7, <2>2, <2>3, <2>4 DEF SwapPassword
  <2>6. FromFile' BY <1>7, <2>2, <2>3, <2>4 DEF SwapPassword
  <2>7. Stored' BY <1>7, <2>4 DEF SwapPassword
  <2>8. Arrived' BY <1>7, <2>1, <2>2, <2>3, <2>4 DEF SwapPassword
  <2> QED BY <2>5, <2>6, <2>7, <2>8
<1>8. ASSUME NEW e \in Editors, Mirror(e) PROVE InStep'
  BY <1>8 DEF Mirror, Done, Idle, Stages, Excluded, EditsKept, Locks, EditAssumption, Fields
<1>9. CASE HandEdit BY <1>9 DEF HandEdit
<1>10. CASE Mend BY <1>10 DEF Mend, hist
<1>11. CASE HupLoad
  <2>1. /\ \A f \in Fields \ {"pw"} : Load[f] = file[f]
        /\ Load["pw"] = UseStoredAdminPassword(file["pw"])
    BY LoadType
  <2>2. SUFFICES ASSUME ~crossed' PROVE InStep' OBVIOUS
  <2>3. \A o \in Editors : ed[o].at \notin Active BY <1>11, <2>2 DEF HupLoad, Editing
  <2>4. CASE ~loads BY <1>11, <2>3, <2>4 DEF HupLoad, Quiet, Validate
  <2>5. CASE loads BY <1>11, <2>1, <2>3, <2>5 DEF HupLoad, Validate
  <2> QED BY <2>4, <2>5
<1>12. CASE HupReload BY <1>12 DEF HupReload, Editing
<1>13. CASE HupStore BY <1>13 DEF HupStore, Quiet, hist
<1>14. CASE Crash BY <1>14 DEF Crash
<1>15. CASE Boot
  <2>1. /\ \A f \in Fields \ {"pw"} : Load[f] = file[f]
        /\ Load["pw"] = UseStoredAdminPassword(file["pw"])
    BY LoadType
  <2> QED BY <1>15, <2>1 DEF Boot
<1>16. CASE UNCHANGED vars BY <1>16 DEF vars
<1> QED BY <1>1, <1>2, <1>3, <1>4, <1>5, <1>6, <1>7, <1>8, <1>9, <1>10, <1>11, <1>12, <1>13, <1>14, <1>15, <1>16 DEF Next

(* Only an acknowledged change moves the mirror.                           *)
LEMMA StepMirrored == ASSUME IInv, [Next]_vars PROVE mirror' = pw'
BY DEF IInv, Next, Ask, Enter, Reject, WriteFails, Rename, LoadFile, Reload, SwapPassword, Mirror,
       HandEdit, Mend, HupLoad, HupReload, HupStore, Crash, Boot, vars, hist

-----------------------------------------------------------------------------
LEMMA InitIInv == ASSUME EditAssumption, Init PROVE IInv
<1> USE DEF Init, Idle, Quiet
<1>1. file \in Configs /\ mirror \in Values
  BY DEF Configs, Values, Fields
<1>2. /\ Load \in Configs
      /\ \A f \in Fields \ {"pw"} : Load[f] = file[f]
      /\ Load["pw"] = Old
  BY DEF Load, UseStoredAdminPassword, Configs, Values, Fields
<1>3. TypeOK BY <1>1, <1>2 DEF TypeOK, Configs, Values, Fields, Request, Stations
<1>4. Reads /\ Excluded /\ FreshRead /\ Stages /\ EditsKept BY DEF Reads, Excluded, FreshRead, Stages, EditsKept, Active
<1>5. InStep BY <1>2, LoadType, <1>3 DEF InStep, OneReload, FromFile, Stored, Arrived, Says, UseStoredAdminPassword
<1>6. mirror = pw BY <1>2
<1> QED BY <1>3, <1>4, <1>5, <1>6 DEF IInv

LEMMA StepIInv == ASSUME EditAssumption, IInv, [Next]_vars PROVE IInv'
BY StepTypes, StepReads, StepExcluded, StepStages, StepFresh, StepInStep, StepMirrored DEF IInv

(* The invariant is what the three promises rest on.                       *)
LEMMA IInvHolds == ASSUME EditAssumption, IInv PROVE EditsHold
<1> USE DEF IInv
<1>1. /\ \A f \in Fields \ {"pw"} : Load[f] = file[f]
      /\ Load["pw"] = IF file["pw"] # None THEN file["pw"] ELSE mirror
  BY LoadType
<1>2. LiveIsFile
  BY <1>1 DEF LiveIsFile, InStep, OneReload, FromFile, Stored, Arrived, Says, Settled, NoneLoaded, Editing, UseStoredAdminPassword
<1>3. PasswordKept
  BY <1>1 DEF PasswordKept, EditsKept, Fields
<1> QED BY <1>2, <1>3 DEF EditsHold

(* Acknowledged edits are in the file, in force, and survive a restart.    *)
THEOREM AcknowledgedEditsHold == ASSUME EditAssumption PROVE Spec => []EditsHold
<1>1. Init => IInv BY InitIInv
<1>2. IInv /\ [Next]_vars => IInv' BY StepIInv
<1>3. IInv => EditsHold BY IInvHolds
<1> QED BY <1>1, <1>2, <1>3, PTL DEF Spec
-----------------------------------------------------------------------------
(* The sessions of the dashboard.                                          *)

\* Every set of natural numbers has a least one.
LEMMA Least ==
  ASSUME NEW T \in SUBSET Nat, T # {}
  PROVE  \E x \in T : \A y \in T : x <= y
<1>1. PICK x \in T : \A y \in T : ~(<<y, x>> \in OpToRel(<, Nat))
  BY NatLessThanWellFounded, WFMin
<1>2. ASSUME NEW y \in Nat, y < x
      PROVE  <<y, x>> \in OpToRel(<, Nat)
  <2>1. <<y, x>> \in Nat \X Nat /\ <<y, x>>[1] < <<y, x>>[2]
    BY <1>2
  <2> QED
    BY <2>1, Zenon DEF OpToRel
<1>3. ASSUME NEW y \in T PROVE x <= y
  <2>1. ~(y < x)
    BY <1>1, <1>2
  <2> QED
    BY <2>1
<1> QED
  BY <1>3

Session == [of : Reqs, pw : Nat, exp : Nat]

\* The sets the variables of AdminSessions range over.
GuardTypes ==
  /\ now \in Nat \ {0} /\ secret \in Nat
  /\ logins \in [Ips -> {Absent} \cup [n : Nat, until : Nat]]
  /\ sess \subseteq Session /\ IsFiniteSet(sess)
  /\ visit \in [Reqs -> {NoVisit} \cup [at : {"open", "right"}, ip : Ips, pw : Nat]]
  /\ wrong \in [Ips -> Nat]

\* The requests of address i that the guard has let pass and not heard of since.
Past(i) == {r \in Reqs : visit[r].at = "open" /\ visit[r].ip = i}

\* What the guard counts is what was compared, until it blocks; and then only
\* the requests that are past it already can still add to it.
Guesses ==
  \A i \in Ips :
    /\ logins[i] = Absent => wrong[i] = 0
    /\ logins[i] # Absent =>
         /\ logins[i].n < MaxLoginFails
         /\ logins[i].until = 0 => wrong[i] = logins[i].n
    /\ wrong[i] + Cardinality(Past(i)) <= MaxLoginFails + Cardinality(Reqs) - 1

GuardInv == GuardTypes /\ Guesses /\ SessionsKept

LEMMA PastFinite ==
  ASSUME NEW i \in Ips
  PROVE  /\ IsFiniteSet(Past(i)) /\ Cardinality(Past(i)) \in Nat /\ Cardinality(Reqs) \in Nat
         /\ Cardinality(Past(i)) <= Cardinality(Reqs)
<1>1. Past(i) \subseteq Reqs
  BY DEF Past
<1> QED
  BY <1>1, FS_Subset, FS_CardinalityType, GuardAssumption

\* What a count below the limit leaves room for: every request at once.
LEMMA RoomForAll ==
  ASSUME NEW i \in Ips, NEW k \in Nat, k < MaxLoginFails
  PROVE  k + Cardinality(Past(i)) <= MaxLoginFails + Cardinality(Reqs) - 1
BY PastFinite, GuardAssumption

\* The soonest session of a set is in it.
LEMMA SoonestIs ==
  ASSUME NEW S \in SUBSET Session, S # {}
  PROVE  Soonest(S) \in S /\ \A t \in S : Soonest(S).exp <= t.exp
<1> DEFINE T == {s.exp : s \in S}
<1>1. T \in SUBSET Nat /\ T # {}
  BY DEF Session
<1>2. PICK x \in T : \A y \in T : x <= y
  BY <1>1, Least
<1>3. \E s \in S : \A t \in S : s.exp <= t.exp
  BY <1>2
<1> QED
  BY <1>3 DEF Soonest

(* A sign-in makes room for one session, and takes a live one only from a  *)
(* table of nothing else, and of those the soonest (issue).                *)
LEMMA RoomKept ==
  ASSUME GuardTypes, Cardinality(sess) <= MaxSessions
  PROVE  /\ Room \subseteq sess /\ IsFiniteSet(Room)
         /\ Cardinality(Room) \in Nat /\ Cardinality(Room) < MaxSessions
         /\ \A s \in sess \ Room : ~Expired(s) => \A t \in Room : s.exp <= t.exp /\ ~Expired(t)
<1> DEFINE swept == IF Cardinality(sess) >= MaxSessions THEN {s \in sess : ~Expired(s)} ELSE sess
<1>1. /\ sess \subseteq Session /\ IsFiniteSet(sess) /\ Cardinality(sess) \in Nat
      /\ MaxSessions \in Nat \ {0} /\ now \in Nat
  BY FS_CardinalityType, GuardAssumption DEF GuardTypes
<1>2. /\ swept \subseteq sess
      /\ Cardinality(sess) >= MaxSessions => \A t \in swept : ~Expired(t)
      /\ \A s \in sess \ swept : Expired(s)
      /\ Cardinality(sess) < MaxSessions => swept = sess
  BY <1>1
<1>3. Room = IF Cardinality(swept) >= MaxSessions THEN swept \ {Soonest(swept)} ELSE swept
  BY DEF Room
<1> HIDE DEF swept
<1>4. /\ IsFiniteSet(swept) /\ Cardinality(swept) \in Nat
      /\ Cardinality(swept) <= Cardinality(sess)
  BY <1>1, <1>2, FS_Subset, FS_CardinalityType
<1>5. CASE Cardinality(swept) < MaxSessions
  <2>1. Room = swept
    BY <1>1, <1>3, <1>4, <1>5
  <2> QED
    BY <1>2, <1>4, <1>5, <2>1
<1>6. CASE Cardinality(swept) >= MaxSessions
  <2>1. Cardinality(swept) = MaxSessions /\ Cardinality(sess) >= MaxSessions
    BY <1>1, <1>4, <1>6
  <2>2. swept # {}
    <3>1. Cardinality({}) = 0
      BY FS_EmptySet
    <3> QED
      BY <1>1, <2>1, <3>1
  <2>3. Soonest(swept) \in swept /\ \A t \in swept : Soonest(swept).exp <= t.exp
    BY <1>1, <1>2, <2>2, SoonestIs
  <2>4. Room = swept \ {Soonest(swept)}
    BY <1>3, <1>6
  <2>5. /\ IsFiniteSet(swept \ {Soonest(swept)})
        /\ Cardinality(swept \ {Soonest(swept)}) = Cardinality(swept) - 1
    BY <1>4, <2>3, FS_RemoveElement
  <2>6. IsFiniteSet(Room) /\ Cardinality(Room) = MaxSessions - 1
    BY <2>1, <2>4, <2>5
  <2> QED
    BY <1>1, <1>2, <2>1, <2>3, <2>4, <2>6
<1> QED
  BY <1>1, <1>4, <1>5, <1>6

LEMMA InitGuard == GuardInit => GuardInv
<1> SUFFICES ASSUME GuardInit PROVE GuardInv
  OBVIOUS
<1>1. /\ now = 1 /\ secret = 0 /\ sess = {} /\ shut = FALSE
      /\ \A i \in Ips : logins[i] = Absent /\ wrong[i] = 0
      /\ visit = [r \in Reqs |-> NoVisit] /\ wrong = [i \in Ips |-> 0]
      /\ logins = [i \in Ips |-> Absent]
  BY DEF GuardInit
<1>2. IsFiniteSet({}) /\ Cardinality({}) = 0
  BY FS_EmptySet
<1>3. GuardTypes
  BY <1>1, <1>2 DEF GuardTypes
<1>4. Guesses
  BY <1>1, RoomForAll, GuardAssumption DEF Guesses
<1>5. SessionsKept
  BY <1>1, <1>2, GuardAssumption DEF SessionsKept
<1> QED
  BY <1>3, <1>4, <1>5 DEF GuardInv

\* A request that the guard lets pass is one more of its address.
LEMMA ArriveStep ==
  ASSUME GuardInv, NEW r \in Reqs, NEW i \in Ips, Arrive(r, i)
  PROVE  GuardInv'
<1> USE GuardAssumption
<1> DEFINE v == [at |-> "open", ip |-> i, pw |-> secret]
<1>1. /\ GuardTypes /\ Guesses /\ SessionsKept
      /\ UNCHANGED <<now, secret, logins, sess, shut>>
      /\ visit[r].at = "idle" /\ visit' = [visit EXCEPT ![r] = v]
      /\ wrong' = IF logins[i] # Absent /\ logins[i].until \in 1..now
                  THEN [wrong EXCEPT ![i] = 0] ELSE wrong
      /\ ~Blocked(i)
  BY DEF GuardInv, Arrive
<1>2. GuardTypes'
  <2>1. v \in [at : {"open", "right"}, ip : Ips, pw : Nat]
    BY <1>1 DEF GuardTypes
  <2>2. visit' \in [Reqs -> {NoVisit} \cup [at : {"open", "right"}, ip : Ips, pw : Nat]]
    BY <1>1, <2>1 DEF GuardTypes
  <2>3. wrong' \in [Ips -> Nat]
    BY <1>1 DEF GuardTypes
  <2> QED
    BY <1>1, <2>2, <2>3 DEF GuardTypes
<1>3. ASSUME NEW j \in Ips
      PROVE  /\ logins'[j] = Absent => wrong'[j] = 0
             /\ logins'[j] # Absent =>
                  /\ logins'[j].n < MaxLoginFails
                  /\ logins'[j].until = 0 => wrong'[j] = logins'[j].n
             /\ wrong'[j] + Cardinality(Past(j)') <= MaxLoginFails + Cardinality(Reqs) - 1
  <2>1. CASE j # i
    <3>1. Past(j)' = Past(j) /\ wrong'[j] = wrong[j] /\ logins'[j] = logins[j]
      BY <1>1, <2>1 DEF Past, GuardTypes
    <3> QED
      BY <1>1, <3>1 DEF Guesses
  <2>2. CASE j = i
    <3>1. logins[j] # Absent => logins[j].n \in Nat /\ logins[j].until \in Nat
      BY <1>1 DEF GuardTypes
    <3>2. logins[j] # Absent => logins[j].until <= now
      BY <1>1, <2>2, <3>1 DEF Blocked, GuardTypes
    <3>3. wrong'[j] \in Nat /\ wrong'[j] < MaxLoginFails
      <4>1. CASE logins[j] # Absent /\ logins[j].until \in 1..now
        BY <1>1, <2>2, <4>1 DEF GuardTypes
      <4>2. CASE logins[j] = Absent
        BY <1>1, <2>2, <4>2 DEF Guesses
      <4>3. CASE logins[j] # Absent /\ logins[j].until \notin 1..now
        <5>1. logins[j].until = 0
          BY <1>1, <3>1, <3>2, <4>3 DEF GuardTypes
        <5> QED
          BY <1>1, <2>2, <3>1, <4>3, <5>1 DEF Guesses
      <4> QED
        BY <4>1, <4>2, <4>3
    <3>4. wrong'[j] + Cardinality(Past(j)') <= MaxLoginFails + Cardinality(Reqs) - 1
      <4>1. Past(j)' \subseteq Reqs
        BY DEF Past
      <4>2. Cardinality(Past(j)') <= Cardinality(Reqs) /\ Cardinality(Past(j)') \in Nat
            /\ Cardinality(Reqs) \in Nat
        BY <4>1, FS_Subset, FS_CardinalityType
      <4> QED
        BY <3>3, <4>2
    <3>5. /\ logins'[j] = Absent => wrong'[j] = 0
          /\ logins'[j] # Absent =>
               /\ logins'[j].n < MaxLoginFails
               /\ logins'[j].until = 0 => wrong'[j] = logins'[j].n
      BY <1>1, <2>2 DEF Guesses
    <3> QED
      BY <3>4, <3>5
  <2> QED
    BY <2>1, <2>2
<1>4. Guesses'
  BY <1>3 DEF Guesses
<1>5. SessionsKept'
  BY <1>1 DEF SessionsKept
<1> QED
  BY <1>2, <1>4, <1>5 DEF GuardInv

\* A wrong password is counted, and is one request less that is past the guard.
LEMMA FailStep ==
  ASSUME GuardInv, NEW r \in Reqs, Fail(r)
  PROVE  GuardInv'
<1> USE GuardAssumption
<1> DEFINE i == visit[r].ip
           f(D) == IF logins[i] = Absent \/ i \in D THEN [n |-> 0, until |-> 0] ELSE logins[i]
<1>1. PICK D \in Forget(i) :
        /\ logins' = [j \in Ips |-> IF j = i THEN Counted(f(D)) ELSE IF j \in D THEN Absent ELSE logins[j]]
        /\ wrong' = [j \in Ips |-> IF j = i THEN (IF i \in D THEN 1 ELSE wrong[i] + 1)
                                   ELSE IF j \in D THEN 0 ELSE wrong[j]]
  BY DEF Fail
<1>2. /\ GuardTypes /\ Guesses /\ SessionsKept
      /\ UNCHANGED <<now, secret, sess, shut>>
      /\ visit[r].at = "open" /\ visit' = [visit EXCEPT ![r] = NoVisit]
  BY DEF GuardInv, Fail
<1>3. i \in Ips
  BY <1>2 DEF GuardTypes, NoVisit
<1> DEFINE g == f(D)
<1>4. /\ g \in [n : Nat, until : Nat] /\ g.n < MaxLoginFails
      /\ g = [n |-> 0, until |-> 0] \/ (g = logins[i] /\ logins[i] # Absent /\ i \notin D)
  BY <1>2, <1>3 DEF GuardTypes, Guesses
<1>5. logins[i] # Absent /\ i \notin D => g = logins[i]
  OBVIOUS
<1>6. logins[i] = Absent \/ i \in D => g = [n |-> 0, until |-> 0]
  OBVIOUS
<1> HIDE DEF i, f, g
<1>7. /\ Counted(g) \in [n : Nat, until : Nat] /\ Counted(g).n < MaxLoginFails
      /\ Counted(g).until = 0 => g.until = 0 /\ Counted(g).n = g.n + 1
  <2>1. CASE g.n + 1 >= MaxLoginFails
    <3>1. Counted(g) = [n |-> 0, until |-> now + LoginBlock]
      BY <2>1 DEF Counted
    <3>2. now + LoginBlock \in Nat \ {0}
      BY <1>2 DEF GuardTypes
    <3> QED
      BY <3>1, <3>2
  <2>2. CASE ~(g.n + 1 >= MaxLoginFails)
    <3>1. Counted(g) = [g EXCEPT !.n = g.n + 1]
      BY <2>2 DEF Counted
    <3>2. g.n + 1 \in Nat /\ g.n + 1 < MaxLoginFails
      BY <1>4, <2>2
    <3> QED
      BY <1>4, <3>1, <3>2
  <2> QED
    BY <2>1, <2>2
<1>8. GuardTypes'
  <2>1. logins' \in [Ips -> {Absent} \cup [n : Nat, until : Nat]]
    BY <1>1, <1>2, <1>7 DEF GuardTypes, g
  <2>2. wrong' \in [Ips -> Nat]
    BY <1>1, <1>2, <1>3 DEF GuardTypes
  <2>3. visit' \in [Reqs -> {NoVisit} \cup [at : {"open", "right"}, ip : Ips, pw : Nat]]
    BY <1>2 DEF GuardTypes
  <2> QED
    BY <1>2, <2>1, <2>2, <2>3 DEF GuardTypes
<1>9. ASSUME NEW j \in Ips
      PROVE  /\ logins'[j] = Absent => wrong'[j] = 0
             /\ logins'[j] # Absent =>
                  /\ logins'[j].n < MaxLoginFails
                  /\ logins'[j].until = 0 => wrong'[j] = logins'[j].n
             /\ wrong'[j] + Cardinality(Past(j)') <= MaxLoginFails + Cardinality(Reqs) - 1
  <2>1. Past(j)' = Past(j) \ {r}
    BY <1>2 DEF Past, GuardTypes, NoVisit
  <2>2. /\ IsFiniteSet(Past(j)) /\ Cardinality(Past(j)) \in Nat /\ Cardinality(Reqs) \in Nat
        /\ Cardinality(Past(j)) <= Cardinality(Reqs)
    BY PastFinite
  <2>3. Cardinality(Past(j)') = IF r \in Past(j) THEN Cardinality(Past(j)) - 1 ELSE Cardinality(Past(j))
    <3>1. Cardinality(Past(j) \ {r})
            = IF r \in Past(j) THEN Cardinality(Past(j)) - 1 ELSE Cardinality(Past(j))
      BY <2>2, FS_RemoveElement
    <3> QED
      BY <2>1, <3>1
  <2>4. wrong[j] \in Nat /\ wrong[j] + Cardinality(Past(j)) <= MaxLoginFails + Cardinality(Reqs) - 1
    BY <1>2 DEF GuardTypes, Guesses
  <2>5. CASE j = i
    <3>1. logins'[j] = Counted(g) /\ wrong'[j] = IF i \in D THEN 1 ELSE wrong[j] + 1
      BY <1>1, <2>5 DEF g
    <3>2. logins'[j] # Absent
      BY <1>7, <3>1
    <3>3. Cardinality(Past(j)') = Cardinality(Past(j)) - 1
      BY <1>2, <2>3, <2>5 DEF Past, i
    <3>4. wrong'[j] + Cardinality(Past(j)') <= MaxLoginFails + Cardinality(Reqs) - 1
      BY <2>2, <2>4, <3>1, <3>3
    <3>5. g.until = 0 => wrong'[j] = g.n + 1
      <4>1. CASE i \in D
        BY <1>6, <3>1, <4>1
      <4>2. CASE i \notin D /\ logins[i] = Absent
        BY <1>2, <1>3, <1>6, <2>5, <3>1, <4>2 DEF Guesses
      <4>3. CASE i \notin D /\ logins[i] # Absent
        BY <1>2, <1>3, <1>5, <2>5, <3>1, <4>3 DEF Guesses
      <4> QED
        BY <4>1, <4>2, <4>3
    <3> QED
      BY <1>7, <3>1, <3>2, <3>4, <3>5
  <2>6. CASE j # i
    <3>1. Cardinality(Past(j)') = Cardinality(Past(j))
      BY <1>2, <2>3, <2>6 DEF Past, i
    <3>2. CASE j \in D
      BY <1>1, <2>2, <2>6, <3>1, <3>2
    <3>3. CASE j \notin D
      <4>1. logins'[j] = logins[j] /\ wrong'[j] = wrong[j]
        BY <1>1, <2>6, <3>3
      <4> QED
        BY <1>2, <2>4, <3>1, <4>1 DEF Guesses
    <3> QED
      BY <3>2, <3>3
  <2> QED
    BY <2>5, <2>6
<1>10. Guesses'
  BY <1>9 DEF Guesses
<1>11. SessionsKept'
  BY <1>2 DEF SessionsKept
<1> QED
  BY <1>8, <1>10, <1>11 DEF GuardInv

\* A right password clears the count of its address.
LEMMA PassStep ==
  ASSUME GuardInv, NEW r \in Reqs, Pass(r)
  PROVE  GuardInv'
<1> USE GuardAssumption
<1> DEFINE i == visit[r].ip
<1>1. /\ GuardTypes /\ Guesses /\ SessionsKept
      /\ UNCHANGED <<now, secret, sess, shut>> /\ visit[r].at = "open"
      /\ logins' = [logins EXCEPT ![i] = Absent] /\ wrong' = [wrong EXCEPT ![i] = 0]
      /\ visit' = [visit EXCEPT ![r].at = "right"]
  BY DEF GuardInv, Pass
<1>2. visit[r] \in [at : {"open", "right"}, ip : Ips, pw : Nat]
  BY <1>1 DEF GuardTypes, NoVisit
<1>3. i \in Ips
  BY <1>2
<1> HIDE DEF i
<1>4. GuardTypes'
  <2>1. [visit[r] EXCEPT !.at = "right"] \in [at : {"open", "right"}, ip : Ips, pw : Nat]
    BY <1>2
  <2>2. visit' \in [Reqs -> {NoVisit} \cup [at : {"open", "right"}, ip : Ips, pw : Nat]]
    BY <1>1, <2>1 DEF GuardTypes
  <2>3. wrong' \in [Ips -> Nat] /\ logins' \in [Ips -> {Absent} \cup [n : Nat, until : Nat]]
    BY <1>1 DEF GuardTypes
  <2> QED
    BY <1>1, <2>2, <2>3 DEF GuardTypes
<1>5. ASSUME NEW j \in Ips
      PROVE  /\ logins'[j] = Absent => wrong'[j] = 0
             /\ logins'[j] # Absent =>
                  /\ logins'[j].n < MaxLoginFails
                  /\ logins'[j].until = 0 => wrong'[j] = logins'[j].n
             /\ wrong'[j] + Cardinality(Past(j)') <= MaxLoginFails + Cardinality(Reqs) - 1
  <2>1. Past(j)' \subseteq Past(j)
    BY <1>1 DEF Past, GuardTypes
  <2>2. /\ IsFiniteSet(Past(j)) /\ Cardinality(Past(j)) \in Nat /\ Cardinality(Reqs) \in Nat
        /\ Cardinality(Past(j)) <= Cardinality(Reqs)
    BY PastFinite
  <2>3. Cardinality(Past(j)') \in Nat /\ Cardinality(Past(j)') <= Cardinality(Past(j))
    BY <2>1, <2>2, FS_Subset, FS_CardinalityType
  <2>4. wrong[j] \in Nat /\ wrong[j] + Cardinality(Past(j)) <= MaxLoginFails + Cardinality(Reqs) - 1
    BY <1>1 DEF GuardTypes, Guesses
  <2>5. CASE j = i
    <3>1. logins'[j] = Absent /\ wrong'[j] = 0
      BY <1>1, <2>5 DEF GuardTypes
    <3> QED
      BY <2>2, <2>3, <3>1
  <2>6. CASE j # i
    <3>1. logins'[j] = logins[j] /\ wrong'[j] = wrong[j]
      BY <1>1, <2>6 DEF GuardTypes
    <3> QED
      BY <1>1, <2>2, <2>3, <2>4, <3>1 DEF Guesses
  <2> QED
    BY <2>5, <2>6
<1>6. Guesses'
  BY <1>5 DEF Guesses
<1>7. SessionsKept'
  BY <1>1 DEF SessionsKept
<1> QED
  BY <1>4, <1>6, <1>7 DEF GuardInv

\* The guard has nothing to do with a step that leaves its counts alone.
LEMMA Uncounted ==
  ASSUME GuardInv, UNCHANGED <<logins, wrong>>,
         \A q \in Reqs : visit'[q].at = "open" => visit'[q] = visit[q]
  PROVE  Guesses'
<1>1. ASSUME NEW j \in Ips
      PROVE  wrong'[j] + Cardinality(Past(j)') <= MaxLoginFails + Cardinality(Reqs) - 1
  <2>1. Past(j)' \subseteq Past(j)
    BY DEF Past
  <2>2. /\ IsFiniteSet(Past(j)) /\ Cardinality(Past(j)) \in Nat /\ Cardinality(Reqs) \in Nat
    BY PastFinite
  <2>3. Cardinality(Past(j)') \in Nat /\ Cardinality(Past(j)') <= Cardinality(Past(j))
    BY <2>1, <2>2, FS_Subset, FS_CardinalityType
  <2>4. wrong[j] \in Nat /\ wrong[j] + Cardinality(Past(j)) <= MaxLoginFails + Cardinality(Reqs) - 1
    BY DEF GuardInv, GuardTypes, Guesses
  <2> QED
    BY <2>2, <2>3, <2>4, GuardAssumption
<1> QED
  BY <1>1 DEF GuardInv, Guesses

\* A session is issued into the room made for it.
LEMMA IssueStep ==
  ASSUME GuardInv, NEW r \in Reqs, Issue(r)
  PROVE  GuardInv'
<1> USE GuardAssumption
<1> DEFINE s0 == [of |-> r, pw |-> visit[r].pw, exp |-> now + SessionTTL]
<1>1. /\ GuardTypes /\ Guesses /\ SessionsKept /\ Cardinality(sess) <= MaxSessions /\ ~shut
      /\ UNCHANGED <<now, secret, logins, wrong>> /\ visit[r].at = "right"
      /\ visit' = [visit EXCEPT ![r] = NoVisit]
      /\ sess' = Room \cup {s0}
      /\ shut' = (shut \/ \E s \in sess \ Room :
                            ~Expired(s) /\ (\E t \in Room : t.exp < s.exp \/ Expired(t)))
  BY DEF GuardInv, Issue, SessionsKept
<1>2. s0 \in Session
  <2>1. visit[r] \in [at : {"open", "right"}, ip : Ips, pw : Nat]
    BY <1>1 DEF GuardTypes, NoVisit
  <2>2. visit[r].pw \in Nat /\ now + SessionTTL \in Nat
    BY <1>1, <2>1 DEF GuardTypes
  <2> QED
    BY <2>2 DEF Session
<1> HIDE DEF s0
<1>3. /\ Room \subseteq sess /\ IsFiniteSet(Room)
      /\ Cardinality(Room) \in Nat /\ Cardinality(Room) < MaxSessions
      /\ \A s \in sess \ Room : ~Expired(s) => \A t \in Room : s.exp <= t.exp /\ ~Expired(t)
  BY <1>1, RoomKept
<1>4. IsFiniteSet(sess') /\ Cardinality(sess') <= MaxSessions
  <2>1. /\ IsFiniteSet(Room \cup {s0})
        /\ Cardinality(Room \cup {s0}) = IF s0 \in Room THEN Cardinality(Room) ELSE Cardinality(Room) + 1
    BY <1>3, FS_AddElement
  <2> QED
    BY <1>1, <1>3, <2>1
<1>5. ~shut'
  <2> SUFFICES ASSUME NEW s \in sess \ Room, ~Expired(s), NEW t \in Room, t.exp < s.exp \/ Expired(t)
               PROVE  FALSE
    BY <1>1
  <2>1. s.exp <= t.exp /\ ~Expired(t)
    BY <1>3
  <2>2. s.exp \in Nat /\ t.exp \in Nat
    BY <1>1, <1>3 DEF GuardTypes, Session
  <2> QED
    BY <2>1, <2>2
<1>6. GuardTypes'
  <2>1. sess' \subseteq Session
    BY <1>1, <1>2, <1>3 DEF GuardTypes
  <2>2. visit' \in [Reqs -> {NoVisit} \cup [at : {"open", "right"}, ip : Ips, pw : Nat]]
    BY <1>1 DEF GuardTypes
  <2> QED
    BY <1>1, <1>4, <2>1, <2>2 DEF GuardTypes
<1>7. Guesses'
  <2>1. \A q \in Reqs : visit'[q].at = "open" => visit'[q] = visit[q]
    BY <1>1 DEF GuardTypes, NoVisit
  <2> QED
    BY <1>1, <2>1, Uncounted
<1> QED
  BY <1>4, <1>5, <1>6, <1>7 DEF GuardInv, SessionsKept

LEMMA StepGuard == GuardInv /\ [GuardNext]_guardVars => GuardInv'
<1> SUFFICES ASSUME GuardInv, [GuardNext]_guardVars PROVE GuardInv'
  OBVIOUS
<1> USE GuardAssumption
<1>1. /\ GuardTypes /\ SessionsKept /\ IsFiniteSet(sess) /\ Cardinality(sess) \in Nat
      /\ MaxSessions \in Nat
  BY FS_CardinalityType DEF GuardInv, GuardTypes
<1>2. CASE UNCHANGED guardVars
  BY <1>1, <1>2, Uncounted DEF GuardInv, guardVars, GuardTypes, SessionsKept
<1>3. CASE Tick
  BY <1>1, <1>3, Uncounted DEF GuardInv, Tick, GuardTypes, SessionsKept
<1>4. ASSUME sess' \in SUBSET sess, secret' \in Nat,
             UNCHANGED <<now, logins, visit, wrong, shut>>
      PROVE  GuardInv'
  <2>1. IsFiniteSet(sess') /\ Cardinality(sess') <= Cardinality(sess)
    BY <1>1, <1>4, FS_Subset
  <2>2. Cardinality(sess') \in Nat
    BY <2>1, FS_CardinalityType
  <2>3. GuardTypes' /\ SessionsKept'
    BY <1>1, <1>4, <2>1, <2>2 DEF GuardTypes, SessionsKept
  <2> QED
    BY <1>4, <2>3, Uncounted DEF GuardInv
<1>5. CASE Logout
  BY <1>1, <1>4, <1>5 DEF Logout, GuardTypes
<1>6. CASE ChangePassword
  BY <1>1, <1>4, <1>6 DEF ChangePassword, GuardTypes
<1> QED
  BY <1>2, <1>3, <1>5, <1>6, ArriveStep, FailStep, PassStep, IssueStep DEF GuardNext

(* For any addresses, requests, limits and caps: overlapping sign-ins get  *)
(* an address at most the limit and one guess for each of the others, and  *)
(* no sign-in costs a live session while another could go                  *)
(* (handleAdminLogin, loginGuard, issue).                                  *)
THEOREM GuardIsKept == GuardSpec => []GuardHolds
<1>1. GuardInv => GuardHolds
  <2> SUFFICES ASSUME GuardInv, NEW i \in Ips
               PROVE  wrong[i] <= MaxLoginFails + Cardinality(Reqs) - 1
    BY DEF GuardInv, GuardHolds, GuessesBounded
  <2>1. wrong[i] + Cardinality(Past(i)) <= MaxLoginFails + Cardinality(Reqs) - 1 /\ wrong[i] \in Nat
    BY DEF GuardInv, Guesses, GuardTypes
  <2> QED
    BY <2>1, PastFinite, GuardAssumption
<1> QED
  BY <1>1, InitGuard, StepGuard, PTL DEF GuardSpec
-----------------------------------------------------------------------------
(* StateReload.  What the variables hold; no counter is of a window to     *)
(* come, and nobody holds a generation that is not built yet.              *)
Counter == [start : Nat, used : Nat]
Generation == [quota : Counter, dead : BOOLEAN, stopped : BOOLEAN]

StateTypes ==
  /\ serving \in Gens /\ built \in Gens /\ window \in Nat \ {0} /\ crashes \in Nat
  /\ gen \in [Gens -> Generation] /\ row \in Counter
  /\ reload \in [Reloaders -> [at : {"idle", "built", "inherited", "carried", "stored"},
                               gen : Gens, old : Gens]]
  /\ req \in [Requests -> [at : {"idle", "busy"}, gen : Gens, stamp : Nat \ {0}]]
  /\ booked \in Nat /\ beside \in Nat /\ strayed \in Nat
  /\ refused \in {"no", "carried", "late"}

Dated ==
  /\ \A g \in Gens : gen[g].quota.start <= window
  /\ row.start <= window
  /\ \A r \in Requests : req[r].stamp <= window

Known ==
  /\ serving <= built
  /\ \A l \in Reloaders : reload[l].gen <= built /\ reload[l].old <= built

(* No tracker, and nothing the store keeps, counts what nobody used.       *)
Spent == booked + beside

NoneOver ==
  /\ \A g \in Gens : Used(gen[g].quota) <= Spent
  /\ Used(row) <= Spent

(* The state that serves, and one that has inherited from it and is going  *)
(* to serve, miss no more than what strayed.                               *)
Heir(l) == reload[l].at \in {"inherited", "carried"}

Enough(g) == Used(gen[g].quota) + strayed >= booked

NoneLost == Enough(serving) /\ \A l \in Reloaders : Heir(l) => Enough(reload[l].gen)

(* A state not stored yet is nobody else's: it does not serve, no other    *)
(* reload builds it, and none has carried a mark from it.                  *)
Unborn(l) == reload[l].at \in {"built", "inherited", "carried"}

Apart ==
  \A l \in Reloaders : Unborn(l) =>
    /\ reload[l].gen # serving
    /\ \A m \in Reloaders :
         /\ m # l /\ Unborn(m) => reload[m].gen # reload[l].gen
         /\ reload[m].at = "carried" => reload[m].old # reload[l].gen

(* A refusal the live state had before a reload carried the marks over is  *)
(* marked in the state about to be stored.                                 *)
Marked ==
  refused = "carried" =>
    /\ gen[serving].dead
    /\ \A l \in Reloaders :
         reload[l].at = "carried" /\ reload[l].old = serving => gen[reload[l].gen].dead

StateInv == StateTypes /\ Dated /\ Known /\ NoneOver /\ NoneLost /\ Apart /\ Marked
(* A request adds one to its own window, and leaves nothing of an older    *)
(* one in the current window.                                              *)
LEMMA ObservedCounts ==
  ASSUME NEW q \in Counter, NEW stamp \in Nat \ {0}
  PROVE  /\ Observed(q, stamp) \in Counter /\ Observed(q, stamp).start = stamp
         /\ stamp = window => Used(Observed(q, stamp)) = Used(q) + 1
         /\ stamp # window => Used(Observed(q, stamp)) = 0
  BY DEF Counter, Observed, Used

(* A seed counts what the store has of the window, the row or the usage.   *)
LEMMA SeedCounts ==
  ASSUME StateTypes, Dated, NoneOver, NEW sum \in Rollups
  PROVE  /\ seed(sum) \in Counter /\ seed(sum).start <= window
         /\ Used(seed(sum)) \in Nat /\ Used(seed(sum)) <= Spent
<1> USE DEF StateTypes, Dated, NoneOver, Counter, Used, seed, NoWindow, Spent
<1>0. sum \in Nat /\ sum <= booked + beside BY DEF Rollups
<1>1. CASE row.start = window BY <1>1
<1>2. CASE row.start # window /\ sum > 0 BY <1>0, <1>2
<1>3. CASE row.start # window /\ ~(sum > 0) BY <1>0, <1>3
<1> QED BY <1>1, <1>2, <1>3 DEF StateTypes

(* What a reload builds, and what a restart begins with.                   *)
LEMMA BuildIs ==
  ASSUME StateTypes, Dated, NoneOver, NEW l \in Reloaders, Build(l)
  PROVE  \E q \in Counter : /\ q.start <= window /\ Used(q) <= Spent
                            /\ gen' = [gen EXCEPT ![built + 1] = [Fresh EXCEPT !.quota = q]]
  BY SeedCounts DEF Build

LEMMA RestartIs ==
  ASSUME StateTypes, Dated, NoneOver, Restart
  PROVE  \E q \in Counter :
           /\ q.start <= window /\ Used(q) <= Spent
           /\ gen' = [g \in Gens |-> IF g = 1 THEN [Fresh EXCEPT !.quota = q] ELSE Fresh]
           /\ strayed' \in Nat /\ Used(q) + strayed' >= booked
<1>1. PICK sum \in Rollups :
        /\ gen' = [g \in Gens |-> IF g = 1 THEN [Fresh EXCEPT !.quota = seed(sum)] ELSE Fresh]
        /\ strayed' = IF booked > Used(seed(sum)) THEN booked - Used(seed(sum)) ELSE 0
  BY DEF Restart
<1>2. /\ seed(sum) \in Counter /\ seed(sum).start <= window
      /\ Used(seed(sum)) \in Nat /\ Used(seed(sum)) <= Spent
  BY SeedCounts
<1> DEFINE q == seed(sum)
           u == Used(q)
<1>3. u \in Nat /\ booked \in Nat /\ strayed' = IF booked > u THEN booked - u ELSE 0
  BY <1>1, <1>2 DEF StateTypes
<1>4. strayed' \in Nat /\ u + strayed' >= booked
  <2> HIDE DEF u
  <2> QED BY <1>3
<1> QED BY <1>1, <1>2, <1>4

LEMMA InitState == StateInit => StateInv
<1> SUFFICES ASSUME StateInit PROVE StateInv OBVIOUS
<1> USE StateAssumption DEF StateInit, Gens, NoReload, Away, Fresh, NoWindow
<1>1. StateTypes BY DEF StateTypes, Generation, Counter
<1>2. Dated /\ Known BY DEF Dated, Known
<1>3. NoneOver /\ NoneLost BY DEF NoneOver, NoneLost, Enough, Heir, Used, Spent
<1>4. Apart /\ Marked BY DEF Apart, Marked, Unborn
<1> QED BY <1>1, <1>2, <1>3, <1>4 DEF StateInv

LEMMA StepStateTypes == StateTypes /\ Dated /\ Known /\ NoneOver /\ [StateNext]_stateVars => StateTypes'
<1> SUFFICES ASSUME StateTypes, Dated, Known, NoneOver, [StateNext]_stateVars PROVE StateTypes'
    OBVIOUS
<1> USE StateAssumption DEF StateTypes, Gens
<1>1. CASE UNCHANGED stateVars BY <1>1 DEF stateVars
<1>2. ASSUME NEW r \in Requests, Take(r) PROVE StateTypes' BY <1>2 DEF Take
<1>3. ASSUME NEW r \in Requests, Observe(r) PROVE StateTypes'
  <2> DEFINE g == req[r].gen
             stamp == req[r].stamp
             q == Observed(gen[g].quota, stamp)
  <2>1. g \in Gens /\ stamp \in Nat \ {0} BY DEF Gens
  <2>2. gen[g].quota \in Counter BY <2>1 DEF Generation
  <2>3. q \in Counter BY <2>1, <2>2, ObservedCounts
  <2>4. gen' = [gen EXCEPT ![g] = [gen[g] EXCEPT !.quota = q]] BY <1>3 DEF Observe
  <2> HIDE DEF q
  <2>5. [gen[g] EXCEPT !.quota = q] \in Generation
    <3>1. gen[g] \in Generation BY <2>1
    <3> QED BY <2>3, <3>1 DEF Generation
  <2>6. gen' \in [Gens -> Generation] BY <2>1, <2>4, <2>5
  <2>7. req' \in [Requests -> [at : {"idle", "busy"}, gen : Gens, stamp : Nat \ {0}]]
    BY <1>3 DEF Observe, Away
  <2>8. booked' \in Nat /\ beside' \in Nat /\ strayed' \in Nat BY <1>3 DEF Observe
  <2> QED BY <1>3, <2>6, <2>7, <2>8 DEF Observe
<1>4. ASSUME NEW r \in Requests, Refuse(r) PROVE StateTypes'
  <2>1. req' \in [Requests -> [at : {"idle", "busy"}, gen : Gens, stamp : Nat \ {0}]]
    BY <1>4 DEF Refuse, Away
  <2>2. [gen[req[r].gen] EXCEPT !.dead = TRUE] \in Generation
    <3>1. gen[req[r].gen] \in Generation OBVIOUS
    <3> QED BY <3>1 DEF Generation
  <2>3. gen' = [gen EXCEPT ![req[r].gen] = [gen[req[r].gen] EXCEPT !.dead = TRUE]] BY <1>4 DEF Refuse
  <2>4. gen' \in [Gens -> Generation] BY <2>2, <2>3
  <2> QED BY <1>4, <2>1, <2>4 DEF Refuse
<1>5. ASSUME NEW l \in Reloaders, Build(l) PROVE StateTypes'
  <2>1. PICK q \in Counter : gen' = [gen EXCEPT ![built + 1] = [Fresh EXCEPT !.quota = q]]
    BY <1>5, BuildIs
  <2>a. [Fresh EXCEPT !.quota = q] \in Generation BY DEF Fresh, Generation
  <2>2. built + 1 \in Gens BY <1>5 DEF Build
  <2>3. gen' \in [Gens -> Generation] BY <2>1, <2>a, <2>2
  <2>4. built' \in Gens /\ reload' \in [Reloaders ->
          [at : {"idle", "built", "inherited", "carried", "stored"}, gen : Gens, old : Gens]]
    BY <1>5, <2>2 DEF Build
  <2> QED BY <1>5, <2>3, <2>4 DEF Build
<1>6. ASSUME NEW l \in Reloaders, Inherit(l) PROVE StateTypes'
  <2>1. gen[serving].quota \in Counter /\ gen[reload[l].gen].quota \in Counter BY DEF Generation
  <2>2. Inherited(gen[reload[l].gen].quota, gen[serving].quota) \in Counter
    BY <2>1 DEF Inherited
  <2>3. gen' \in [Gens -> Generation] BY <1>6, <2>2 DEF Inherit, Generation
  <2>4. reload' \in [Reloaders ->
          [at : {"idle", "built", "inherited", "carried", "stored"}, gen : Gens, old : Gens]]
    BY <1>6 DEF Inherit
  <2> QED BY <1>6, <2>3, <2>4 DEF Inherit
<1>7. ASSUME NEW l \in Reloaders, CarryInvalidated(l) PROVE StateTypes'
  <2> DEFINE h == reload[l].gen
             b == Carried(gen[h].dead, gen[serving].dead)
  <2>1. b \in BOOLEAN BY DEF Carried, Generation
  <2>2. gen' = [gen EXCEPT ![h] = [gen[h] EXCEPT !.dead = b]] BY <1>7 DEF CarryInvalidated
  <2> HIDE DEF b
  <2>3. [gen[h] EXCEPT !.dead = b] \in Generation
    <3>1. gen[h] \in Generation OBVIOUS
    <3> QED BY <2>1, <3>1 DEF Generation
  <2>4. gen' \in [Gens -> Generation] BY <2>2, <2>3
  <2>5. reload' = [reload EXCEPT ![l] = [reload[l] EXCEPT !.at = "carried", !.old = serving]]
    BY <1>7 DEF CarryInvalidated
  <2>6. [reload[l] EXCEPT !.at = "carried", !.old = serving] \in
          [at : {"idle", "built", "inherited", "carried", "stored"}, gen : Gens, old : Gens]
    OBVIOUS
  <2>7. reload' \in [Reloaders ->
          [at : {"idle", "built", "inherited", "carried", "stored"}, gen : Gens, old : Gens]]
    BY <2>5, <2>6
  <2> QED BY <1>7, <2>4, <2>7 DEF CarryInvalidated
<1>8. ASSUME NEW l \in Reloaders, Store(l) PROVE StateTypes' BY <1>8 DEF Store
<1>9. ASSUME NEW l \in Reloaders, StopOld(l) PROVE StateTypes'
  <2>1. gen' \in [Gens -> Generation] BY <1>9 DEF StopOld, Generation
  <2>2. row' \in Counter BY <1>9 DEF StopOld, Saved, Generation
  <2> QED BY <1>9, <2>1, <2>2 DEF StopOld, NoReload
<1>10. ASSUME NEW g \in Gens, Flush(g) PROVE StateTypes'
  <2>1. row' \in Counter BY <1>10 DEF Flush, Saved, Generation
  <2> QED BY <1>10, <2>1 DEF Flush
<1>11. CASE NodeReports BY <1>11 DEF NodeReports
<1>12. CASE WindowTurns BY <1>12 DEF WindowTurns, Rollups
<1>13. CASE Restart
  <2>1. PICK q \in Counter :
          /\ gen' = [g \in Gens |-> IF g = 1 THEN [Fresh EXCEPT !.quota = q] ELSE Fresh]
          /\ strayed' \in Nat
    BY <1>13, RestartIs
  <2>a. [Fresh EXCEPT !.quota = q] \in Generation /\ Fresh \in Generation
    BY DEF Fresh, Generation, NoWindow, Counter
  <2>2. gen' \in [Gens -> Generation] BY <2>1, <2>a
  <2>3. strayed' \in Nat BY <2>1
  <2>4. reload' \in [Reloaders ->
          [at : {"idle", "built", "inherited", "carried", "stored"}, gen : Gens, old : Gens]]
    BY <1>13 DEF Restart, NoReload
  <2>5. req' \in [Requests -> [at : {"idle", "busy"}, gen : Gens, stamp : Nat \ {0}]]
    BY <1>13 DEF Restart, Away
  <2>6. serving' \in Gens /\ built' \in Gens /\ crashes' \in Nat /\ refused' = "no"
    BY <1>13 DEF Restart
  <2>7. UNCHANGED <<window, row, booked, beside>> BY <1>13 DEF Restart
  <2> QED BY <2>2, <2>3, <2>4, <2>5, <2>6, <2>7
<1> QED
  BY <1>1, <1>2, <1>3, <1>4, <1>5, <1>6, <1>7, <1>8, <1>9, <1>10, <1>11, <1>12, <1>13
  DEF StateNext
LEMMA StepDated ==
  StateTypes /\ Dated /\ NoneOver /\ [StateNext]_stateVars => Dated'
<1> SUFFICES ASSUME StateTypes, Dated, NoneOver, [StateNext]_stateVars PROVE Dated'
    OBVIOUS
<1> USE DEF StateTypes, Dated
<1>1. CASE UNCHANGED stateVars BY <1>1 DEF stateVars
<1>2. ASSUME NEW r \in Requests, Take(r) PROVE Dated' BY <1>2 DEF Take
<1>3. ASSUME NEW r \in Requests, Observe(r) PROVE Dated'
  <2>1. gen[req[r].gen].quota \in Counter /\ req[r].stamp \in Nat \ {0} BY DEF Generation
  <2>2. Observed(gen[req[r].gen].quota, req[r].stamp).start <= window BY <2>1, ObservedCounts
  <2>3. \A g \in Gens : gen'[g].quota.start <= window BY <1>3, <2>2 DEF Observe, Generation
  <2> QED BY <1>3, <2>3, StateAssumption DEF Observe, Away
<1>4. ASSUME NEW r \in Requests, Refuse(r) PROVE Dated'
  BY <1>4 DEF Refuse, Away, Generation
<1>5. ASSUME NEW l \in Reloaders, Build(l) PROVE Dated'
  <2>1. PICK q \in Counter : /\ q.start <= window
                             /\ gen' = [gen EXCEPT ![built + 1] = [Fresh EXCEPT !.quota = q]]
    BY <1>5, BuildIs
  <2>2. \A g \in Gens : gen'[g].quota.start <= window BY <2>1 DEF Fresh, Generation
  <2> QED BY <1>5, <2>2 DEF Build
<1>6. ASSUME NEW l \in Reloaders, Inherit(l) PROVE Dated'
  BY <1>6 DEF Inherit, Inherited, Generation
<1>7. ASSUME NEW l \in Reloaders, CarryInvalidated(l) PROVE Dated'
  BY <1>7 DEF CarryInvalidated, Generation
<1>8. ASSUME NEW l \in Reloaders, Store(l) PROVE Dated' BY <1>8 DEF Store
<1>9. ASSUME NEW l \in Reloaders, StopOld(l) PROVE Dated'
  BY <1>9 DEF StopOld, Saved, Generation
<1>10. ASSUME NEW g \in Gens, Flush(g) PROVE Dated' BY <1>10 DEF Flush, Saved
<1>11. CASE NodeReports BY <1>11 DEF NodeReports
<1>12. CASE WindowTurns BY <1>12 DEF WindowTurns, Generation, Counter
<1>13. CASE Restart
  <2>1. PICK q \in Counter :
          /\ q.start <= window
          /\ gen' = [g \in Gens |-> IF g = 1 THEN [Fresh EXCEPT !.quota = q] ELSE Fresh]
    BY <1>13, RestartIs
  <2>2. \A g \in Gens : gen'[g].quota.start <= window BY <2>1 DEF Fresh, NoWindow
  <2> QED BY <1>13, <2>2 DEF Restart, Away
<1> QED
  BY <1>1, <1>2, <1>3, <1>4, <1>5, <1>6, <1>7, <1>8, <1>9, <1>10, <1>11, <1>12, <1>13
  DEF StateNext

LEMMA StepKnown == StateTypes /\ Known /\ [StateNext]_stateVars => Known'
<1> SUFFICES ASSUME StateTypes, Known, [StateNext]_stateVars PROVE Known'
    OBVIOUS
<1> USE StateAssumption DEF StateTypes, Known, Gens
<1>1. ASSUME NEW l \in Reloaders, Build(l) PROVE Known' BY <1>1 DEF Build
<1>2. ASSUME NEW l \in Reloaders, CarryInvalidated(l) PROVE Known' BY <1>2 DEF CarryInvalidated
<1>3. ASSUME NEW l \in Reloaders, Store(l) PROVE Known' BY <1>3 DEF Store
<1>4. ASSUME NEW l \in Reloaders, StopOld(l) PROVE Known' BY <1>4 DEF StopOld, NoReload
<1>5. ASSUME NEW l \in Reloaders, Inherit(l) PROVE Known' BY <1>5 DEF Inherit
<1>6. CASE Restart BY <1>6 DEF Restart, NoReload
<1> QED
  BY <1>1, <1>2, <1>3, <1>4, <1>5, <1>6
  DEF StateNext, stateVars, Take, Observe, Refuse, Flush, NodeReports, WindowTurns

LEMMA StepNoneOver ==
  StateTypes /\ Dated /\ NoneOver /\ [StateNext]_stateVars => NoneOver'
<1> SUFFICES ASSUME StateTypes, Dated, NoneOver, [StateNext]_stateVars PROVE NoneOver'
    OBVIOUS
<1> USE DEF StateTypes, NoneOver, Spent
<1>1. CASE UNCHANGED stateVars BY <1>1 DEF stateVars, Used
<1>2. ASSUME NEW r \in Requests, Take(r) PROVE NoneOver' BY <1>2 DEF Take, Used
<1>3. ASSUME NEW r \in Requests, Observe(r) PROVE NoneOver'
  <2> DEFINE q == gen[req[r].gen].quota
             stamp == req[r].stamp
  <2>1. q \in Counter /\ stamp \in Nat \ {0} BY DEF Generation
  <2>2. Used(q) \in Nat /\ Used(row) \in Nat /\ \A g \in Gens : Used(gen[g].quota) \in Nat
    BY <2>1 DEF Used, Counter, Generation
  <2> DEFINE s == booked + beside
             t == booked' + beside'
  <2>3. /\ s \in Nat /\ t \in Nat /\ s <= t
        /\ stamp = window => s + 1 <= t
    BY <1>3 DEF Observe
  <2>4. Used(q) <= s /\ Used(row) <= s /\ \A g \in Gens : Used(gen[g].quota) <= s OBVIOUS
  <2>5. \A g \in Gens : gen'[g].quota = IF g = req[r].gen THEN Observed(q, stamp) ELSE gen[g].quota
    BY <1>3 DEF Observe, Generation
  <2>6. row' = row /\ window' = window BY <1>3 DEF Observe
  <2>7. /\ stamp = window => Used(Observed(q, stamp)) = Used(q) + 1
        /\ stamp # window => Used(Observed(q, stamp)) = 0
    BY <2>1, ObservedCounts
  <2> HIDE DEF q, stamp, s, t
  <2>8. Used(Observed(q, stamp)) <= t BY <2>2, <2>3, <2>4, <2>7
  <2>9. Used(row) <= t BY <2>2, <2>3, <2>4
  <2>10. \A g \in Gens : Used(gen[g].quota) <= t BY <2>2, <2>3, <2>4
  <2>11. \A g \in Gens : Used(gen'[g].quota) <= t BY <2>5, <2>8, <2>10
  <2> QED BY <2>6, <2>9, <2>11 DEF t, Used
<1>4. ASSUME NEW r \in Requests, Refuse(r) PROVE NoneOver'
  BY <1>4 DEF Refuse, Generation, Used
<1>5. ASSUME NEW l \in Reloaders, Build(l) PROVE NoneOver'
  <2>1. PICK q \in Counter : /\ Used(q) <= booked + beside
                             /\ gen' = [gen EXCEPT ![built + 1] = [Fresh EXCEPT !.quota = q]]
    BY <1>5, BuildIs
  <2>2. \A g \in Gens : Used(gen'[g].quota) <= booked + beside BY <2>1 DEF Fresh
  <2> QED BY <1>5, <2>2 DEF Build, Used
<1>6. ASSUME NEW l \in Reloaders, Inherit(l) PROVE NoneOver'
  <2>1. \A g \in Gens : Used(gen'[g].quota) <= booked + beside BY <1>6 DEF Inherit, Inherited, Generation
  <2> QED BY <1>6, <2>1 DEF Inherit, Used
<1>7. ASSUME NEW l \in Reloaders, CarryInvalidated(l) PROVE NoneOver'
  BY <1>7 DEF CarryInvalidated, Generation, Used
<1>8. ASSUME NEW l \in Reloaders, Store(l) PROVE NoneOver' BY <1>8 DEF Store, Used
<1>9. ASSUME NEW l \in Reloaders, StopOld(l) PROVE NoneOver'
  <2>1. \A g \in Gens : gen'[g].quota = gen[g].quota BY <1>9 DEF StopOld, Generation
  <2>2. Used(row') <= booked + beside BY <1>9 DEF StopOld, Saved
  <2> QED BY <1>9, <2>1, <2>2 DEF StopOld, Used
<1>10. ASSUME NEW g \in Gens, Flush(g) PROVE NoneOver'
  <2>1. Used(row') <= booked + beside BY <1>10 DEF Flush, Saved
  <2> QED BY <1>10, <2>1 DEF Flush, Used
<1>11. CASE NodeReports
  <2>1. \A g \in Gens : Used(gen[g].quota) \in Nat BY DEF Used, Counter, Generation
  <2>2. Used(row) \in Nat BY DEF Used, Counter
  <2>3. beside' = beside + 1 /\ UNCHANGED <<gen, row, booked, window>> BY <1>11 DEF NodeReports
  <2> QED BY <2>1, <2>2, <2>3 DEF Used
<1>12. CASE WindowTurns
  <2>1. beside' \in Nat /\ booked' \in Nat BY <1>12 DEF WindowTurns, Rollups
  <2>2. \A g \in Gens : gen'[g].quota.start # window'
    BY <1>12 DEF WindowTurns, Dated, Generation, Counter
  <2>3. row'.start # window' BY <1>12 DEF WindowTurns, Dated, Counter
  <2>4. 0 <= booked' + beside'
    <3>1. \A b, c \in Nat : 0 <= b + c OBVIOUS
    <3> QED BY <2>1, <3>1
  <2>5. Used(row)' <= booked' + beside' BY <2>3, <2>4 DEF Used
  <2>6. \A g \in Gens : Used(gen[g].quota)' <= booked' + beside' BY <2>2, <2>4 DEF Used
  <2> QED BY <2>5, <2>6
<1>13. CASE Restart
  <2>1. PICK q \in Counter :
          /\ Used(q) <= booked + beside
          /\ gen' = [g \in Gens |-> IF g = 1 THEN [Fresh EXCEPT !.quota = q] ELSE Fresh]
    BY <1>13, RestartIs
  <2>2. Used(NoWindow) <= booked + beside BY DEF Used, NoWindow
  <2>3. \A g \in Gens : Used(gen'[g].quota) <= booked + beside BY <2>1, <2>2 DEF Fresh
  <2> QED BY <1>13, <2>3 DEF Restart, Used
<1> QED
  BY <1>1, <1>2, <1>3, <1>4, <1>5, <1>6, <1>7, <1>8, <1>9, <1>10, <1>11, <1>12, <1>13
  DEF StateNext

(* An observation the heirs may not see is booked as strayed; the others   *)
(* are counted where they have to be.                                      *)
LEMMA StepNoneLost ==
  StateInv /\ [StateNext]_stateVars => NoneLost'
<1> SUFFICES ASSUME StateInv, [StateNext]_stateVars PROVE NoneLost'
    OBVIOUS
<1> USE DEF StateInv, StateTypes, NoneLost, Heir, Enough
<1>1. CASE UNCHANGED stateVars BY <1>1 DEF stateVars, Used
<1>2. ASSUME NEW r \in Requests, Take(r) PROVE NoneLost' BY <1>2 DEF Take, Used
<1>3. ASSUME NEW r \in Requests, Observe(r) PROVE NoneLost'
  <2> DEFINE q == gen[req[r].gen].quota
             stamp == req[r].stamp
  <2>1. q \in Counter /\ stamp \in Nat \ {0} BY DEF Generation
  <2>2. Used(q) \in Nat /\ \A g \in Gens : Used(gen[g].quota) \in Nat
    BY DEF Used, Counter, Generation
  <2>3. Used(Observed(q, stamp)) \in Nat BY <2>1, <2>2, ObservedCounts
  <2>4. \A g \in Gens : g # req[r].gen => gen'[g].quota = gen[g].quota
    BY <1>3 DEF Observe
  <2>5. gen'[req[r].gen].quota = Observed(q, stamp) BY <1>3 DEF Observe, Generation
  <2>6. ASSUME NEW g \in Gens, Enough(g), g = serving \/ \E l \in Reloaders : Heir(l) /\ reload[l].gen = g
        PROVE  Used(gen'[g].quota) + strayed' >= booked'
    <3>1. CASE stamp # window
      <4>1. strayed' = booked /\ booked' = booked BY <1>3, <3>1 DEF Observe
      <4>2. Used(gen'[g].quota) \in Nat BY <2>2, <2>3, <2>4, <2>5
      <4> QED BY <4>1, <4>2
    <3>2. CASE stamp = window
      <4>1. booked' = booked + 1 BY <1>3, <3>2 DEF Observe
      <4>2. Used(gen'[g].quota) >= Used(gen[g].quota) /\ Used(gen'[g].quota) \in Nat
        <5>1. Used(Observed(q, stamp)) = Used(q) + 1 BY <2>1, <3>2, ObservedCounts
        <5>2. CASE g = req[r].gen BY <2>2, <2>5, <5>1, <5>2
        <5>3. CASE g # req[r].gen BY <2>2, <2>4, <5>3
        <5> QED BY <5>2, <5>3
      <4>3. CASE req[r].gen = serving /\ ~ReadBy({"inherited", "carried"})
        <5>1. strayed' = strayed BY <1>3, <3>2, <4>3 DEF Observe
        <5>2. g = serving BY <2>6, <4>3 DEF ReadBy
        <5>3. Used(gen'[g].quota) = Used(gen[g].quota) + 1
          BY <2>1, <2>5, <3>2, <4>3, <5>2, ObservedCounts
        <5> QED BY <2>2, <2>6, <4>1, <5>1, <5>3
      <4>4. CASE ~(req[r].gen = serving /\ ~ReadBy({"inherited", "carried"}))
        <5>1. strayed' = strayed + 1 BY <1>3, <3>2, <4>4 DEF Observe
        <5> QED BY <2>2, <2>6, <4>1, <4>2, <5>1
      <4> QED BY <4>3, <4>4
    <3> QED BY <3>1, <3>2
  <2>7. serving' = serving /\ reload' = reload /\ window' = window BY <1>3 DEF Observe
  <2>8. Used(gen'[serving].quota) + strayed' >= booked' BY <2>6
  <2>9. \A l \in Reloaders : Heir(l) => Used(gen'[reload[l].gen].quota) + strayed' >= booked' BY <2>6
  <2> QED BY <2>7, <2>8, <2>9 DEF Used
<1>4. ASSUME NEW r \in Requests, Refuse(r) PROVE NoneLost'
  <2>1. \A g \in Gens : gen'[g].quota = gen[g].quota BY <1>4 DEF Refuse, Generation
  <2> QED BY <1>4, <2>1 DEF Refuse, Used
<1>5. ASSUME NEW l \in Reloaders, Build(l) PROVE NoneLost'
  <2>1. \A g \in Gens : g <= built => gen'[g].quota = gen[g].quota
    BY <1>5, StateAssumption DEF Build, Gens
  <2>2. \A m \in Reloaders : m # l => reload'[m] = reload[m] BY <1>5 DEF Build
  <2>3. reload'[l].at = "built" BY <1>5 DEF Build
  <2> QED BY <1>5, <2>1, <2>2, <2>3 DEF Build, Used, Known
<1>6. ASSUME NEW l \in Reloaders, Inherit(l) PROVE NoneLost'
  <2> DEFINE h == reload[l].gen
  <2>1. h # serving BY <1>6 DEF Inherit, Apart, Unborn
  <2>2. \A m \in Reloaders : m # l /\ Heir(m) => reload[m].gen # h
    BY <1>6 DEF Inherit, Apart, Unborn
  <2>3. \A g \in Gens : g # h => gen'[g].quota = gen[g].quota BY <1>6 DEF Inherit
  <2>4. gen'[h].quota = Inherited(gen[h].quota, gen[serving].quota)
    BY <1>6 DEF Inherit, Generation
  <2>5. Used(gen'[h].quota) + strayed >= booked
    <3>1. CASE gen[serving].quota.start = 0
      <4>1. Used(gen[serving].quota) = 0 BY <3>1 DEF Used
      <4>2. gen'[h].quota = gen[h].quota BY <2>4, <3>1 DEF Inherited
      <4>3. Used(gen[h].quota) \in Nat BY DEF Used, Generation, Counter
      <4> QED BY <4>1, <4>2, <4>3
    <3>2. CASE gen[serving].quota.start # 0 BY <2>4, <3>2 DEF Inherited
    <3> QED BY <3>1, <3>2
  <2>6. reload' = [reload EXCEPT ![l].at = "inherited"] BY <1>6 DEF Inherit
  <2>7. \A m \in Reloaders : reload'[m].gen = reload[m].gen BY <2>6
  <2>8. \A m \in Reloaders : m # l => reload'[m] = reload[m] BY <2>6
  <2>9. serving' = serving /\ window' = window /\ strayed' = strayed /\ booked' = booked
    BY <1>6 DEF Inherit
  <2>10. ASSUME NEW m \in Reloaders, Heir(m)' PROVE Used(gen'[reload[m].gen].quota) + strayed >= booked
    <3>1. CASE m = l BY <2>5, <3>1
    <3>2. CASE m # l BY <2>2, <2>3, <2>8, <2>10, <3>2
    <3> QED BY <3>1, <3>2
  <2>11. Used(gen'[serving].quota) + strayed >= booked BY <2>1, <2>3
  <2> QED BY <2>7, <2>9, <2>10, <2>11 DEF Used
<1>7. ASSUME NEW l \in Reloaders, CarryInvalidated(l) PROVE NoneLost'
  <2>1. \A g \in Gens : gen'[g].quota = gen[g].quota BY <1>7 DEF CarryInvalidated, Generation
  <2> QED BY <1>7, <2>1 DEF CarryInvalidated, Used
<1>8. ASSUME NEW l \in Reloaders, Store(l) PROVE NoneLost' BY <1>8 DEF Store, Used
<1>9. ASSUME NEW l \in Reloaders, StopOld(l) PROVE NoneLost'
  <2>1. \A g \in Gens : gen'[g].quota = gen[g].quota BY <1>9 DEF StopOld, Generation
  <2> QED BY <1>9, <2>1 DEF StopOld, NoReload, Used
<1>10. ASSUME NEW g \in Gens, Flush(g) PROVE NoneLost' BY <1>10 DEF Flush, Used
<1>11. CASE NodeReports BY <1>11 DEF NodeReports, Used
<1>12. CASE WindowTurns
  <2>1. \A g \in Gens : Used(gen[g].quota)' \in Nat
    BY <1>12 DEF WindowTurns, Used, Generation, Counter
  <2> QED BY <1>12, <2>1 DEF WindowTurns
<1>13. CASE Restart
  <2>1. 1 \in Gens BY StateAssumption DEF Gens
  <2>2. PICK q \in Counter :
          /\ gen' = [g \in Gens |-> IF g = 1 THEN [Fresh EXCEPT !.quota = q] ELSE Fresh]
          /\ Used(q) + strayed' >= booked
    BY <1>13, RestartIs
  <2>3. Used(gen'[1].quota) + strayed' >= booked BY <2>1, <2>2 DEF Fresh
  <2>4. \A l \in Reloaders : ~Heir(l)' BY <1>13 DEF Restart, NoReload
  <2> QED BY <1>13, <2>3, <2>4 DEF Restart, Used
<1> QED
  BY <1>1, <1>2, <1>3, <1>4, <1>5, <1>6, <1>7, <1>8, <1>9, <1>10, <1>11, <1>12, <1>13
  DEF StateNext
LEMMA StepApart == StateTypes /\ Known /\ Apart /\ [StateNext]_stateVars => Apart'
<1> SUFFICES ASSUME StateTypes, Known, Apart, [StateNext]_stateVars PROVE Apart'
    OBVIOUS
<1> USE DEF StateTypes, Known, Apart, Unborn
<1>1. ASSUME NEW l \in Reloaders, Build(l) PROVE Apart'
  <2>1. \A m \in Reloaders : m # l => reload'[m] = reload[m] BY <1>1 DEF Build
  <2>2. reload'[l] = [at |-> "built", gen |-> built + 1, old |-> 1] BY <1>1 DEF Build
  <2>3. serving' = serving BY <1>1 DEF Build
  <2> DEFINE b == built + 1
  <2>4. \A m \in Reloaders : reload[m].gen # b /\ reload[m].old # b BY DEF Gens
  <2>5. serving # b BY DEF Gens
  <2>6. reload'[l].gen = b /\ reload'[l].at = "built" BY <2>2
  <2> HIDE DEF b
  <2>7. ASSUME NEW a \in Reloaders, Unborn(a)'
        PROVE  /\ reload'[a].gen # serving
               /\ \A m \in Reloaders :
                    /\ m # a /\ Unborn(m)' => reload'[m].gen # reload'[a].gen
                    /\ reload'[m].at = "carried" => reload'[m].old # reload'[a].gen
    <3>1. CASE a = l BY <2>1, <2>4, <2>5, <2>6, <3>1
    <3>2. CASE a # l
      <4>1. reload'[a] = reload[a] /\ Unborn(a) /\ reload[a].gen # b BY <2>1, <2>4, <2>7, <3>2
      <4>2. reload[a].gen # serving BY <4>1
      <4>3. ASSUME NEW m \in Reloaders, m # l
            PROVE  /\ m # a /\ Unborn(m)' => reload'[m].gen # reload'[a].gen
                   /\ reload'[m].at = "carried" => reload'[m].old # reload'[a].gen
        BY <2>1, <4>1, <4>3
      <4>4. reload'[l].gen # reload'[a].gen /\ reload'[l].at # "carried" BY <2>6, <4>1
      <4> QED BY <4>1, <4>2, <4>3, <4>4
    <3> QED BY <3>1, <3>2
  <2> QED BY <2>3, <2>7
<1>2. ASSUME NEW l \in Reloaders, Inherit(l) PROVE Apart' BY <1>2 DEF Inherit
<1>3. ASSUME NEW l \in Reloaders, CarryInvalidated(l) PROVE Apart' BY <1>3 DEF CarryInvalidated
<1>4. ASSUME NEW l \in Reloaders, Store(l) PROVE Apart' BY <1>4 DEF Store
<1>5. ASSUME NEW l \in Reloaders, StopOld(l) PROVE Apart' BY <1>5 DEF StopOld, NoReload
<1>6. CASE Restart BY <1>6 DEF Restart, NoReload
<1> QED
  BY <1>1, <1>2, <1>3, <1>4, <1>5, <1>6
  DEF StateNext, stateVars, Take, Observe, Refuse, Flush, NodeReports, WindowTurns

(* A mark is never taken away from a state somebody may come to hold.      *)
LEMMA StepMarked ==
  StateTypes /\ Known /\ Apart /\ Marked /\ [StateNext]_stateVars => Marked'
<1> SUFFICES ASSUME StateTypes, Known, Apart, Marked, [StateNext]_stateVars PROVE Marked'
    OBVIOUS
<1> USE DEF StateTypes, Marked
<1>1. ASSUME NEW r \in Requests, Observe(r) PROVE Marked'
  <2>1. \A g \in Gens : gen'[g].dead = gen[g].dead BY <1>1 DEF Observe, Generation
  <2> QED BY <1>1, <2>1 DEF Observe
<1>2. ASSUME NEW r \in Requests, Refuse(r) PROVE Marked'
  <2>1. \A g \in Gens : gen[g].dead => gen'[g].dead BY <1>2 DEF Refuse, Generation
  <2>2. gen'[req[r].gen].dead BY <1>2 DEF Refuse, Generation
  <2> QED BY <1>2, <2>1, <2>2 DEF Refuse, ReadBy
<1>3. ASSUME NEW l \in Reloaders, Build(l) PROVE Marked'
  <2>1. \A g \in Gens : g <= built => gen'[g] = gen[g]
    BY <1>3, StateAssumption DEF Build, Gens
  <2>2. \A m \in Reloaders : m # l => reload'[m] = reload[m] BY <1>3 DEF Build
  <2>3. reload'[l].at = "built" BY <1>3 DEF Build
  <2> QED BY <1>3, <2>1, <2>2, <2>3 DEF Build, Known
<1>4. ASSUME NEW l \in Reloaders, Inherit(l) PROVE Marked'
  <2>1. \A g \in Gens : gen'[g].dead = gen[g].dead BY <1>4 DEF Inherit, Generation
  <2> QED BY <1>4, <2>1 DEF Inherit
<1>5. ASSUME NEW l \in Reloaders, CarryInvalidated(l) PROVE Marked'
  <2> DEFINE h == reload[l].gen
             b == Carried(gen[h].dead, gen[serving].dead)
  <2>1. gen' = [gen EXCEPT ![h] = [gen[h] EXCEPT !.dead = b]] BY <1>5 DEF CarryInvalidated
  <2>2. \A g \in Gens : g # h => gen'[g].dead = gen[g].dead BY <2>1
  <2>3. gen[h] \in Generation OBVIOUS
  <2>4. gen'[h].dead = b BY <2>1, <2>3 DEF Generation
  <2>5. gen[h].dead => gen'[h].dead BY <2>4 DEF Carried
  <2>6. gen[serving].dead => gen'[h].dead BY <2>4 DEF Carried
  <2>7. serving' = serving /\ refused' = refused BY <1>5 DEF CarryInvalidated
  <2>8. reload'[l].gen = h /\ \A m \in Reloaders : m # l => reload'[m] = reload[m]
    BY <1>5 DEF CarryInvalidated
  <2> HIDE DEF b
  <2>9. \A g \in Gens : gen[g].dead => gen'[g].dead BY <2>2, <2>5
  <2> QED BY <2>6, <2>7, <2>8, <2>9
<1>6. ASSUME NEW l \in Reloaders, Store(l) PROVE Marked'
  <2> SUFFICES ASSUME refused' = "carried" PROVE Marked' OBVIOUS
  <2>1. refused = "carried" /\ (reload[l].old = serving \/ gen[reload[l].gen].dead)
    BY <1>6 DEF Store
  <2>2. gen[reload[l].gen].dead BY <1>6, <2>1 DEF Store
  <2>3. \A m \in Reloaders : reload'[m].at = "carried" => reload[m].old # reload[l].gen
    BY <1>6 DEF Store, Apart, Unborn
  <2>4. serving' = reload[l].gen /\ gen' = gen BY <1>6 DEF Store
  <2>5. \A m \in Reloaders : reload'[m].old = reload[m].old BY <1>6 DEF Store
  <2> QED BY <2>2, <2>3, <2>4, <2>5
<1>7. ASSUME NEW l \in Reloaders, StopOld(l) PROVE Marked'
  <2>1. \A g \in Gens : gen'[g].dead = gen[g].dead BY <1>7 DEF StopOld, Generation
  <2> QED BY <1>7, <2>1 DEF StopOld, NoReload
<1>8. CASE Restart BY <1>8 DEF Restart
<1> QED
  BY <1>1, <1>2, <1>3, <1>4, <1>5, <1>6, <1>7, <1>8
  DEF StateNext, stateVars, Take, Flush, NodeReports, WindowTurns

(* For any requests, reloaders, windows and crashes: a state that serves   *)
(* counts neither more than was used in the hours of its window, by this   *)
(* node or another, nor less than what it observed by more than what is    *)
(* booked as strayed, and a refusal carried over is marked in it (seed,    *)
(* Inherit, CarryInvalidated, apply).                                      *)
THEOREM ReloadsCarryState == StateSpec => []StateCarried
<1>1. StateInv /\ [StateNext]_stateVars => StateInv'
  BY StepStateTypes, StepDated, StepKnown, StepNoneOver, StepNoneLost, StepApart, StepMarked
  DEF StateInv
<1>2. StateInv => StateCarried
  BY DEF StateInv, StateTypes, NoneOver, Spent, NoneLost, Enough, Marked,
         StateCarried, NeverOvercount, QuotaSurvives, TerminalSurvives
<1> QED
  BY <1>1, <1>2, InitState, PTL DEF StateSpec
-----------------------------------------------------------------------------
(* Subquota.                                                               *)
Snapshots == [account : Subscribed, key : Nat]

Verdicts == {"spendable", "drained", "failed"}

Probes == [at : {"idle", "sent", "answered", "stored"}, key : Nat, since : Nat, saw : Verdicts]

PollTypes ==
  /\ pollNow \in Nat /\ inherited \in Nat
  /\ vendor \in [Subscribed -> {"spendable", "drained"}] /\ spare \in [Subscribed -> Nat]
  /\ key \in [Subscribed -> Nat] /\ park \in [Subscribed -> Nat]
  /\ reloadStage \in {"none", "built", "inherited", "done"}
  /\ ticker \in [Trackers -> {"none", "waits", "runs"}] /\ due \in [Trackers -> Nat]
  /\ probe \in [Trackers -> [Subscribed -> Probes]]
  /\ snaps \in [Trackers -> SUBSET Snapshots]

(* The history tells whether the vendor says drained, and a verdict under  *)
(* way is no older than its probe.                                         *)
Recent ==
  /\ \A a \in Subscribed : vendor[a] = "drained" => spare[a] = 0
  /\ \A t \in Trackers, a \in Subscribed :
       (probe[t][a].at \in {"answered", "stored"} /\ probe[t][a].saw = "drained") =>
         spare[a] + probe[t][a].since <= pollNow

(* No probe outlives its timeout, no live tracker misses its ticker.       *)
Punctual ==
  /\ \A t \in Trackers, a \in Subscribed : probe[t][a].at # "idle" =>
       probe[t][a].since <= pollNow /\ pollNow <= probe[t][a].since + Timeout
  /\ \A t \in Trackers : (Running(t) /\ ticker[t] = "runs") =>
       pollNow <= due[t] /\ due[t] <= pollNow + Cycle

(* Where the second tracker has inherited and still has no ticker, its     *)
(* first poll began before, or begins now.                                 *)
FirstPoll ==
  /\ reloadStage = "none" => ticker[2] = "none"
  /\ (reloadStage \in {"inherited", "done"} /\ ticker[2] # "runs") =>
       /\ pollNow <= inherited + Timeout
       /\ ticker[2] = "none" => pollNow = inherited
       /\ \A a \in Subscribed : probe[2][a].at # "idle" => probe[2][a].since <= inherited

(* What is left of a park and how long the vendor has been spendable stay  *)
(* within a cycle and a timeout together.                                  *)
ParksEnd ==
  \A a \in Subscribed : park[a] > pollNow => spare[a] + park[a] <= pollNow + Cycle + Timeout

(* The first tracker has one snapshot an account; where the second has two *)
(* its next snapshot of the account is at most a cycle and two probes away. *)
Single == \A s1, s2 \in snaps[1] : s1.account = s2.account => s1 = s2

Replacing ==
  \A s1, s2 \in snaps[2] : (s1.account = s2.account /\ s1 # s2) =>
    /\ reloadStage \in {"inherited", "done"}
    /\ IF probe[2][s1.account].at \in {"sent", "answered"}
       THEN probe[2][s1.account].since <= inherited + Cycle + Timeout
       ELSE ticker[2] = "runs" => due[2] <= inherited + Cycle + Timeout

PollInv == PollTypes /\ Recent /\ Punctual /\ FirstPoll /\ ParksEnd /\ Single /\ Replacing

LEMMA InitPoll == PollInit => PollInv
<1> SUFFICES ASSUME PollInit PROVE PollInv
  OBVIOUS
<1> USE DEF PollInit
<1>1. NoProbe \in Probes
  BY DEF NoProbe, Probes, Verdicts
<1>2. Long \in Nat
  BY PollAssumption DEF Long
<1>3. \A t \in Trackers : snaps[t] = {}
  OBVIOUS
<1>4. \A t \in Trackers, a \in Subscribed : probe[t][a] = NoProbe
  OBVIOUS
<1>5. PollTypes
  <2>1. probe \in [Trackers -> [Subscribed -> Probes]]
    BY <1>1
  <2>2. snaps \in [Trackers -> SUBSET Snapshots] /\ due \in [Trackers -> Nat]
    OBVIOUS
  <2> QED BY <1>2, <2>1, <2>2 DEF PollTypes
<1>6. Recent
  BY <1>4 DEF Recent, NoProbe
<1>7. Punctual
  BY <1>4, PollAssumption DEF Punctual, NoProbe, Trackers
<1>7a. FirstPoll
  BY DEF FirstPoll, Trackers
<1>8. ParksEnd
  BY DEF ParksEnd
<1>9. 1 \in Trackers /\ 2 \in Trackers
  BY DEF Trackers
<1> QED
  BY <1>3, <1>5, <1>6, <1>7, <1>7a, <1>8, <1>9 DEF PollInv, Single, Replacing

LEMMA PollStep == ASSUME PollInv, NEW t \in Trackers, Poll(t) PROVE PollInv'
<1> USE DEF PollInv
<1>1. \A b \in Subscribed :
        [at |-> "sent", key |-> key[b], since |-> pollNow, saw |-> "failed"] \in Probes
  BY DEF PollTypes, Probes, Verdicts
<1>2. /\ probe' \in [Trackers -> [Subscribed -> Probes]]
      /\ \A b \in Subscribed : probe'[t][b].at = "sent" /\ probe'[t][b].since = pollNow
      /\ \A u \in Trackers \ {t} : probe'[u] = probe[u]
  <2> DEFINE new == [b \in Subscribed |->
               [at |-> "sent", key |-> key[b], since |-> pollNow, saw |-> "failed"]]
  <2>1. new \in [Subscribed -> Probes]
    BY <1>1
  <2>2. \A b \in Subscribed : new[b].at = "sent" /\ new[b].since = pollNow
    OBVIOUS
  <2>3. probe' = [probe EXCEPT ![t] = new]
    BY DEF Poll
  <2> HIDE DEF new
  <2> QED BY <2>1, <2>2, <2>3 DEF PollTypes
<1>3. /\ Running(t) /\ Quiescent(t)
      /\ UNCHANGED <<pollNow, vendor, spare, key, park, reloadStage, snaps, inherited>>
  BY DEF Poll
<1>4. \/ ticker[t] = "none" /\ ticker' = [ticker EXCEPT ![t] = "waits"] /\ due' = due
      \/ /\ ticker[t] = "runs" /\ pollNow >= due[t]
         /\ due' = [due EXCEPT ![t] = pollNow + Cycle] /\ ticker' = ticker
  BY DEF Poll, Due
<1>5. ticker[t] = "runs" => pollNow = due[t]
  <2>1. ticker[t] = "runs" => pollNow <= due[t]
    BY <1>3 DEF Punctual
  <2>2. pollNow \in Nat /\ due[t] \in Nat
    BY DEF PollTypes
  <2> QED BY <1>4, <2>1, <2>2
<1>6. PollTypes'
  BY <1>2, <1>3, <1>4, PollAssumption DEF PollTypes
<1>7. Recent'
  BY <1>2, <1>3 DEF Recent
<1>8. Punctual'
  <2>1. \A u \in Trackers : Running(u)' = Running(u)
    BY <1>3 DEF Running
  <2>2. \A u \in Trackers, b \in Subscribed : probe'[u][b].at # "idle" =>
          probe'[u][b].since <= pollNow' /\ pollNow' <= probe'[u][b].since + Timeout
    <3>1. pollNow' = pollNow /\ pollNow \in Nat /\ pollNow <= pollNow + Timeout
      BY <1>3, PollAssumption DEF PollTypes
    <3>2. ASSUME NEW u \in Trackers \ {t}, NEW b \in Subscribed, probe[u][b].at # "idle"
          PROVE  probe[u][b].since <= pollNow /\ pollNow <= probe[u][b].since + Timeout
      BY <3>2 DEF Punctual
    <3> HIDE DEF PollInv
    <3>3. \A b \in Subscribed :
            probe'[t][b].since <= pollNow' /\ pollNow' <= probe'[t][b].since + Timeout
      BY <1>2, <3>1
    <3> QED BY <1>2, <3>1, <3>2, <3>3
  <2>3. \A u \in Trackers : (Running(u) /\ ticker'[u] = "runs") =>
          pollNow' <= due'[u] /\ due'[u] <= pollNow' + Cycle
    BY <1>3, <1>4, PollAssumption DEF Punctual, PollTypes
  <2> QED BY <2>1, <2>2, <2>3 DEF Punctual
<1>9. ParksEnd' /\ Single'
  BY <1>3 DEF ParksEnd, Single
<1>10. FirstPoll'
  <2>1. CASE t = 2
    <3>1. reloadStage # "none"
      BY <1>3, <2>1 DEF Running
    <3>2. CASE ticker[2] = "none"
      <4>1. ticker'[2] = "waits"
        BY <1>4, <2>1, <3>2 DEF PollTypes
      <4> QED BY <1>2, <1>3, <2>1, <3>1, <3>2, <4>1, PollAssumption DEF FirstPoll, PollTypes
    <3>3. CASE ticker[2] # "none"
      BY <1>3, <1>4, <2>1, <3>1, <3>3 DEF FirstPoll
    <3> QED BY <3>2, <3>3
  <2>2. CASE t # 2
    <3>1. 2 \in Trackers \ {t} /\ ticker'[2] = ticker[2]
      BY <1>4, <2>2 DEF Trackers, PollTypes
    <3> QED BY <1>2, <1>3, <3>1 DEF FirstPoll
  <2> QED BY <2>1, <2>2
<1>11. Replacing'
  <2> SUFFICES ASSUME NEW s1 \in snaps[2], NEW s2 \in snaps[2],
                      s1.account = s2.account, s1 # s2
               PROVE  /\ reloadStage \in {"inherited", "done"}
                      /\ IF probe'[2][s1.account].at \in {"sent", "answered"}
                         THEN probe'[2][s1.account].since <= inherited + Cycle + Timeout
                         ELSE ticker'[2] = "runs" => due'[2] <= inherited + Cycle + Timeout
    BY <1>3 DEF Replacing
  <2>1. s1.account \in Subscribed /\ 2 \in Trackers
    BY DEF PollTypes, Trackers, Snapshots
  <2>2. CASE t = 2
    <3>1. probe[2][s1.account].at = "idle" /\ reloadStage \in {"inherited", "done"}
      BY <1>3, <2>1, <2>2 DEF Quiescent, Replacing
    <3>2. pollNow <= inherited + Cycle + Timeout
      <4>1. CASE ticker[2] = "runs"
        BY <1>5, <2>2, <3>1, <4>1 DEF Replacing
      <4>2. CASE ticker[2] # "runs"
        BY <3>1, <4>2, PollAssumption DEF FirstPoll, PollTypes
      <4> QED BY <4>1, <4>2
    <3> QED BY <1>2, <2>1, <2>2, <3>1, <3>2
  <2>3. CASE t # 2
    <3>1. ticker'[2] = ticker[2] /\ due'[2] = due[2] /\ probe'[2] = probe[2]
      BY <1>2, <1>4, <2>1, <2>3 DEF PollTypes
    <3> QED BY <3>1 DEF Replacing
  <2> QED BY <2>2, <2>3
<1> QED
  BY <1>6, <1>7, <1>8, <1>9, <1>10, <1>11

\* The first poll has ended: its ticker starts, a cycle from now.
LEMMA NewTickerStep == ASSUME PollInv, NEW t \in Trackers, NewTicker(t) PROVE PollInv'
<1> USE DEF PollInv
<1>1. /\ ticker[t] = "waits" /\ ticker' = [ticker EXCEPT ![t] = "runs"]
      /\ due' = [due EXCEPT ![t] = pollNow + Cycle]
      /\ UNCHANGED <<pollNow, vendor, spare, key, park, reloadStage, probe, snaps, inherited>>
  BY DEF NewTicker
<1>2. PollTypes'
  BY <1>1, PollAssumption DEF PollTypes
<1>3. Recent' /\ ParksEnd' /\ Single'
  BY <1>1 DEF Recent, ParksEnd, Single
<1>4. Punctual'
  <2>1. \A u \in Trackers : Running(u)' = Running(u)
    BY <1>1 DEF Running
  <2>2. \A u \in Trackers : (Running(u) /\ ticker'[u] = "runs") =>
          pollNow' <= due'[u] /\ due'[u] <= pollNow' + Cycle
    BY <1>1, PollAssumption DEF Punctual, PollTypes
  <2> QED BY <1>1, <2>1, <2>2 DEF Punctual
<1>5. 2 \in Trackers /\ (t = 2 => ticker'[2] = "runs") /\ (t # 2 => ticker'[2] = ticker[2] /\ due'[2] = due[2])
  BY <1>1 DEF PollTypes, Trackers
<1>6. FirstPoll'
  BY <1>1, <1>5 DEF FirstPoll
<1>7. Replacing'
  <2>1. t = 2 => due'[2] = pollNow + Cycle
    BY <1>1, <1>5 DEF PollTypes
  <2>2. (t = 2 /\ reloadStage \in {"inherited", "done"}) => due'[2] <= inherited + Cycle + Timeout
    BY <1>1, <2>1, PollAssumption DEF FirstPoll, PollTypes
  <2> QED BY <1>1, <1>5, <2>2 DEF Replacing
<1> QED
  BY <1>2, <1>3, <1>4, <1>6, <1>7

LEMMA AnsweredStep ==
  ASSUME PollInv, NEW t \in Trackers, NEW a \in Subscribed, Answered(t, a) PROVE PollInv'
<1> USE DEF PollInv
<1>1. PICK saw \in {vendor[a], "failed"} :
        probe' = [probe EXCEPT ![t][a] = [@ EXCEPT !.at = "answered", !.saw = saw]]
  BY DEF Answered
<1> DEFINE p == [probe[t][a] EXCEPT !.at = "answered", !.saw = saw]
<1>2. probe[t][a] \in Probes /\ probe[t][a].at = "sent" /\ saw \in Verdicts
  BY DEF Answered, PollTypes, Verdicts
<1>3. p \in Probes /\ p.at = "answered" /\ p.saw = saw /\ p.since = probe[t][a].since
  BY <1>2 DEF Probes
<1>4. probe' = [probe EXCEPT ![t][a] = p]
  BY <1>1 DEF PollTypes
<1> HIDE DEF p
<1>5. /\ probe' \in [Trackers -> [Subscribed -> Probes]] /\ probe'[t][a] = p
      /\ \A u \in Trackers, b \in Subscribed : (u # t \/ b # a) => probe'[u][b] = probe[u][b]
  BY <1>3, <1>4 DEF PollTypes
<1>6. UNCHANGED <<pollNow, vendor, spare, key, park, reloadStage, ticker, due, snaps, inherited>>
  BY DEF Answered
<1>7. PollTypes'
  BY <1>5, <1>6 DEF PollTypes
<1>8. Recent'
  <2>1. saw = "drained" => spare[a] + p.since <= pollNow
    BY <1>2, <1>3 DEF Recent, Punctual, PollTypes, Probes
  <2> QED BY <1>3, <1>5, <1>6, <2>1 DEF Recent
<1>9. Punctual'
  <2>1. \A u \in Trackers : Running(u)' = Running(u)
    BY <1>6 DEF Running
  <2> QED BY <1>2, <1>3, <1>5, <1>6, <2>1 DEF Punctual
<1>10. ParksEnd' /\ Single'
  BY <1>6 DEF ParksEnd, Single
<1>10a. FirstPoll'
  BY <1>2, <1>3, <1>5, <1>6 DEF FirstPoll, Trackers
<1>11. Replacing'
  <2>1. \A s \in snaps[2] : s.account \in Subscribed /\ 2 \in Trackers
    BY DEF PollTypes, Trackers, Snapshots
  <2> QED BY <1>2, <1>3, <1>5, <1>6, <2>1 DEF Replacing
<1> QED
  BY <1>7, <1>8, <1>9, <1>10, <1>10a, <1>11

LEMMA StoreSnapStep ==
  ASSUME PollInv, NEW t \in Trackers, NEW a \in Subscribed, StoreSnap(t, a) PROVE PollInv'
<1> USE DEF PollInv
<1> DEFINE p == [probe[t][a] EXCEPT !.at = "stored"]
           s == [account |-> a, key |-> probe[t][a].key]
<1>1. probe[t][a] \in Probes /\ probe[t][a].at = "answered"
  BY DEF StoreSnap, PollTypes
<1>2. p \in Probes /\ p.at = "stored" /\ p.saw = probe[t][a].saw /\ p.since = probe[t][a].since
  BY <1>1 DEF Probes
<1>3. probe' = [probe EXCEPT ![t][a] = p]
  BY DEF StoreSnap, PollTypes
<1>4. s \in Snapshots /\ s.account = a
  BY <1>1 DEF Snapshots, Probes
<1>5. snaps' = [snaps EXCEPT ![t] = {o \in snaps[t] : o.account # a} \cup {s}]
  BY DEF StoreSnap, Replaced
<1> HIDE DEF p, s
<1>6. /\ probe' \in [Trackers -> [Subscribed -> Probes]] /\ probe'[t][a] = p
      /\ \A u \in Trackers, b \in Subscribed : (u # t \/ b # a) => probe'[u][b] = probe[u][b]
  BY <1>2, <1>3 DEF PollTypes
<1>7. UNCHANGED <<pollNow, vendor, spare, key, park, reloadStage, ticker, due, inherited>>
  BY DEF StoreSnap
<1>8. /\ snaps'[t] = {o \in snaps[t] : o.account # a} \cup {s}
      /\ \A u \in Trackers \ {t} : snaps'[u] = snaps[u]
      /\ snaps' \in [Trackers -> SUBSET Snapshots]
  BY <1>4, <1>5 DEF PollTypes
<1>9. PollTypes'
  BY <1>6, <1>7, <1>8 DEF PollTypes
<1>10. Recent'
  BY <1>1, <1>2, <1>6, <1>7 DEF Recent
<1>11. Punctual'
  <2>1. \A u \in Trackers : Running(u)' = Running(u)
    BY <1>7 DEF Running
  <2> QED BY <1>1, <1>2, <1>6, <1>7, <2>1 DEF Punctual
<1>12. ParksEnd'
  BY <1>7 DEF ParksEnd
<1>13. 1 \in Trackers /\ 2 \in Trackers
  BY DEF Trackers
<1>14. Single'
  BY <1>4, <1>8, <1>13 DEF Single
<1>14a. FirstPoll'
  BY <1>1, <1>2, <1>6, <1>7, <1>13 DEF FirstPoll
<1>15. Replacing'
  <2> SUFFICES ASSUME NEW s1 \in snaps'[2], NEW s2 \in snaps'[2],
                      s1.account = s2.account, s1 # s2
               PROVE  /\ reloadStage \in {"inherited", "done"}
                      /\ IF probe'[2][s1.account].at \in {"sent", "answered"}
                         THEN probe'[2][s1.account].since <= inherited + Cycle + Timeout
                         ELSE ticker[2] = "runs" => due[2] <= inherited + Cycle + Timeout
    BY <1>7 DEF Replacing
  <2>1. s1 \in snaps[2] /\ s2 \in snaps[2] /\ (t = 2 => s1.account # a)
    BY <1>4, <1>8, <1>13
  <2>2. s1.account \in Subscribed
    BY <1>13, <2>1 DEF PollTypes, Snapshots
  <2>3. probe'[2][s1.account] = probe[2][s1.account]
    BY <1>6, <1>13, <2>1, <2>2
  <2> QED BY <2>1, <2>3 DEF Replacing
<1> QED
  BY <1>9, <1>10, <1>11, <1>12, <1>14, <1>14a, <1>15

\* The arithmetic of a new park: what is left of it is a cycle, and the
\* vendor said drained within the probe's time.
LEMMA ParkArithmetic ==
  ASSUME NEW instant \in Nat, NEW c \in Nat, NEW d \in Nat, NEW reset \in Nat, NEW left \in Nat,
         NEW since \in Nat, left + since <= instant, instant <= since + d
  PROVE  LET until == instant + IF reset < c THEN reset ELSE c
         IN  until \in Nat /\ left + until <= instant + c + d
  OBVIOUS

LEMMA ParkStep ==
  ASSUME PollInv, NEW t \in Trackers, NEW a \in Subscribed, parkIfExhausted(t, a) PROVE PollInv'
<1> USE DEF PollInv
<1>1. NoProbe \in Probes /\ NoProbe.at = "idle"
  BY DEF NoProbe, Probes, Verdicts
<1>2. probe[t][a] \in Probes /\ probe[t][a].at = "stored" /\ probe' = [probe EXCEPT ![t][a] = NoProbe]
  BY DEF parkIfExhausted, PollTypes
<1>3. /\ probe' \in [Trackers -> [Subscribed -> Probes]] /\ probe'[t][a] = NoProbe
      /\ \A u \in Trackers, b \in Subscribed : (u # t \/ b # a) => probe'[u][b] = probe[u][b]
  BY <1>1, <1>2 DEF PollTypes
<1>4. UNCHANGED <<pollNow, vendor, spare, key, reloadStage, ticker, due, snaps, inherited>>
  BY DEF parkIfExhausted
<1>5. park' \in [Subscribed -> Nat] /\ ParksEnd'
  <2>1. CASE probe[t][a].saw = "drained"
    <3>1. PICK reset \in {1, Cycle, 2 * Cycle + Timeout} : park' = Parked(a, ParkUntil(reset))
      BY <2>1 DEF parkIfExhausted
    <3>2. reset \in Nat
      BY PollAssumption
    <3>3. spare[a] + probe[t][a].since <= pollNow /\ pollNow <= probe[t][a].since + Timeout
      BY <1>2, <2>1 DEF Recent, Punctual
    <3>4. ParkUntil(reset) \in Nat /\ spare[a] + ParkUntil(reset) <= pollNow + Cycle + Timeout
      <4>1. spare[a] \in Nat /\ probe[t][a].since \in Nat /\ pollNow \in Nat
        BY <1>2 DEF PollTypes, Probes
      <4> QED BY <3>2, <3>3, <4>1, PollAssumption, ParkArithmetic DEF ParkUntil
    <3>5. \A b \in Subscribed : park'[b] = IF b = a /\ ParkUntil(reset) > park[a]
                                           THEN ParkUntil(reset) ELSE park[b]
      BY <3>1 DEF Parked, PollTypes
    <3>6. park' \in [Subscribed -> Nat]
      BY <3>1, <3>4 DEF Parked, PollTypes
    <3>7. ParksEnd'
      BY <1>4, <3>4, <3>5 DEF ParksEnd
    <3> QED BY <3>6, <3>7
  <2>2. CASE probe[t][a].saw # "drained"
    BY <1>4, <2>2 DEF parkIfExhausted, ParksEnd, PollTypes
  <2> QED BY <2>1, <2>2
<1>6. PollTypes'
  BY <1>3, <1>4, <1>5 DEF PollTypes
<1>7. Recent'
  BY <1>1, <1>3, <1>4 DEF Recent
<1>8. Punctual'
  <2>1. \A u \in Trackers : Running(u)' = Running(u)
    BY <1>4 DEF Running
  <2> QED BY <1>1, <1>3, <1>4, <2>1 DEF Punctual
<1>9. Single' /\ FirstPoll'
  <2>1. 2 \in Trackers
    BY DEF Trackers
  <2> QED BY <1>1, <1>3, <1>4, <2>1 DEF Single, FirstPoll
<1>10. Replacing'
  <2>1. \A s \in snaps[2] : s.account \in Subscribed /\ 2 \in Trackers
    BY DEF PollTypes, Trackers, Snapshots
  <2> QED BY <1>1, <1>2, <1>3, <1>4, <2>1 DEF Replacing
<1> QED
  BY <1>5, <1>6, <1>7, <1>8, <1>9, <1>10

\* The second tracker starts: it has no ticker yet.
LEMMA BuildStep == ASSUME PollInv, BuildTracker PROVE PollInv'
<1> USE DEF PollInv
<1>1. /\ reloadStage = "none" /\ reloadStage' = "built"
      /\ UNCHANGED <<pollNow, vendor, spare, key, park, ticker, due, probe, snaps, inherited>>
  BY DEF BuildTracker
<1>2. PollTypes'
  BY <1>1 DEF PollTypes
<1>3. Recent' /\ ParksEnd' /\ Single' /\ FirstPoll'
  BY <1>1 DEF Recent, ParksEnd, Single, FirstPoll
<1>4. Punctual'
  BY <1>1 DEF Punctual, FirstPoll, Running, Trackers
<1>5. Replacing'
  BY <1>1 DEF Replacing
<1> QED
  BY <1>2, <1>3, <1>4, <1>5

\* Whatever comes twice now has a probe under way or the next one due within
\* a cycle.
LEMMA InheritStep == ASSUME PollInv, InheritSnaps PROVE PollInv'
<1> USE DEF PollInv
<1>1. /\ reloadStage = "built" /\ reloadStage' = "inherited" /\ inherited' = pollNow
      /\ snaps' = [snaps EXCEPT ![2] = snaps[1] \cup @]
      /\ UNCHANGED <<pollNow, vendor, spare, key, park, ticker, due, probe>>
  BY DEF InheritSnaps
<1>2. 1 \in Trackers /\ 2 \in Trackers
  BY DEF Trackers
<1>3. snaps'[1] = snaps[1] /\ snaps'[2] = snaps[1] \cup snaps[2]
      /\ snaps' \in [Trackers -> SUBSET Snapshots]
  BY <1>1, <1>2 DEF PollTypes
<1>4. PollTypes'
  BY <1>1, <1>3 DEF PollTypes
<1>5. Recent' /\ ParksEnd' /\ Single'
  BY <1>1, <1>3 DEF Recent, ParksEnd, Single
<1>6. Punctual'
  BY <1>1 DEF Punctual, Running
<1>7. Replacing'
  <2>1. \A s \in snaps'[2] : s.account \in Subscribed
    BY <1>2, <1>3 DEF PollTypes, Snapshots
  <2>2. ticker[2] = "runs" => due[2] <= pollNow + Cycle + Timeout
    BY <1>1, <1>2, PollAssumption DEF Punctual, Running, PollTypes
  <2>3. \A b \in Subscribed : probe[2][b].at # "idle" => probe[2][b].since <= pollNow + Cycle + Timeout
    BY <1>2, PollAssumption DEF Punctual, PollTypes, Probes
  <2> QED BY <1>1, <2>1, <2>2, <2>3 DEF Replacing
<1>8. FirstPoll'
  BY <1>1, <1>2, PollAssumption DEF FirstPoll, Punctual, PollTypes
<1> QED
  BY <1>4, <1>5, <1>6, <1>7, <1>8

LEMMA StoreStateStep == ASSUME PollInv, StoreState PROVE PollInv'
<1> USE DEF PollInv
<1>1. /\ reloadStage = "inherited" /\ reloadStage' = "done" /\ park' = [a \in Subscribed |-> 0]
      /\ UNCHANGED <<pollNow, vendor, spare, key, ticker, due, probe, snaps, inherited>>
  BY DEF StoreState
<1>2. PollTypes'
  BY <1>1 DEF PollTypes
<1>3. Recent' /\ ParksEnd' /\ Single' /\ FirstPoll'
  BY <1>1 DEF Recent, ParksEnd, Single, FirstPoll, PollTypes
<1>4. Punctual'
  BY <1>1 DEF Punctual, Running
<1>5. Replacing'
  BY <1>1 DEF Replacing
<1> QED
  BY <1>2, <1>3, <1>4, <1>5

LEMMA VendorStep ==
  ASSUME PollInv, NEW a \in Subscribed, Rotate(a) \/ VendorTurns(a) PROVE PollInv'
<1> USE DEF PollInv
<1>1. /\ vendor' \in [Subscribed -> {"spendable", "drained"}] /\ key' \in [Subscribed -> Nat]
      /\ spare' \in [Subscribed -> Nat] /\ \A b \in Subscribed : spare'[b] <= spare[b]
      /\ \A b \in Subscribed : vendor'[b] = "drained" => spare'[b] = 0
  <2>1. CASE Rotate(a)
    BY <2>1 DEF Rotate, PollTypes, Recent
  <2>2. CASE VendorTurns(a)
    BY <2>2 DEF VendorTurns, PollTypes, Recent
  <2> QED BY <2>1, <2>2
<1>2. UNCHANGED <<pollNow, park, reloadStage, ticker, due, probe, snaps, inherited>>
  BY DEF Rotate, VendorTurns
<1>3. PollTypes'
  BY <1>1, <1>2 DEF PollTypes
<1>4. Recent'
  BY <1>1, <1>2 DEF Recent, PollTypes, Probes
<1>5. ParksEnd'
  BY <1>1, <1>2, PollAssumption DEF ParksEnd, PollTypes
<1>6. Punctual' /\ FirstPoll' /\ Single' /\ Replacing'
  BY <1>2 DEF Punctual, FirstPoll, Running, Single, Replacing
<1> QED
  BY <1>3, <1>4, <1>5, <1>6

\* Time takes from a park what it may add to the vendor's spendable time.
LEMMA PollTickStep == ASSUME PollInv, PollTick PROVE PollInv'
<1> USE DEF PollInv
<1>1. pollNow' = pollNow + 1 /\ UNCHANGED <<vendor, key, park, reloadStage, ticker, due, probe, snaps, inherited>>
  BY DEF PollTick
<1>2. /\ spare' \in [Subscribed -> Nat]
      /\ \A a \in Subscribed : spare'[a] <= spare[a] + 1 /\ (vendor[a] = "drained" => spare'[a] = 0)
  <2>1. Long \in Nat
    BY PollAssumption DEF Long
  <2> QED BY <2>1 DEF PollTick, PollTypes
<1>3. PollTypes'
  BY <1>1, <1>2 DEF PollTypes
<1>4. Recent'
  BY <1>1, <1>2 DEF Recent, PollTypes, Probes
<1>5. ParksEnd'
  BY <1>1, <1>2, PollAssumption DEF ParksEnd, PollTypes
<1>6. Punctual'
  <2>1. \A t \in Trackers, a \in Subscribed : probe[t][a].at # "idle" => pollNow < probe[t][a].since + Timeout
    BY DEF PollTick
  <2>2. \A t \in Trackers : (Running(t) /\ ticker[t] = "runs") => ~(pollNow >= due[t])
    BY DEF PollTick, Due
  <2>3. \A t \in Trackers : Running(t)' = Running(t)
    BY <1>1 DEF Running
  <2> QED BY <1>1, <2>1, <2>2, <2>3, PollAssumption DEF Punctual, PollTypes, Probes
<1>7. FirstPoll'
  <2> SUFFICES ASSUME reloadStage \in {"inherited", "done"}, ticker[2] # "runs"
               PROVE  pollNow + 1 <= inherited + Timeout /\ ticker[2] # "none"
    BY <1>1 DEF FirstPoll
  <2>1. 2 \in Trackers /\ Running(2)
    BY DEF Running, Trackers
  <2>2. ticker[2] = "waits" /\ ~Quiescent(2)
    BY <2>1 DEF PollTick, Due, PollTypes
  <2>3. PICK a \in Subscribed : probe[2][a].at # "idle"
    BY <2>2 DEF Quiescent
  <2>4. pollNow < probe[2][a].since + Timeout /\ probe[2][a].since <= inherited
    BY <2>1, <2>3 DEF PollTick, FirstPoll
  <2>5. probe[2][a].since \in Nat /\ pollNow \in Nat /\ inherited \in Nat
    BY <2>1 DEF PollTypes, Probes
  <2> QED BY <2>2, <2>4, <2>5, PollAssumption
<1>8. Single' /\ Replacing'
  BY <1>1 DEF Single, Replacing
<1> QED
  BY <1>3, <1>4, <1>5, <1>6, <1>7, <1>8

LEMMA StepPoll == PollInv /\ [PollNext]_pollVars => PollInv'
<1> SUFFICES ASSUME PollInv, [PollNext]_pollVars PROVE PollInv'
  OBVIOUS
<1>1. ASSUME NEW t \in Trackers, Poll(t) \/ NewTicker(t) PROVE PollInv'
  BY <1>1, PollStep, NewTickerStep
<1>2. ASSUME NEW t \in Trackers, NEW a \in Subscribed,
             Answered(t, a) \/ StoreSnap(t, a) \/ parkIfExhausted(t, a)
      PROVE  PollInv'
  BY <1>2, AnsweredStep, StoreSnapStep, ParkStep
<1>3. ASSUME BuildTracker \/ InheritSnaps \/ StoreState \/ PollTick PROVE PollInv'
  BY <1>3, BuildStep, InheritStep, StoreStateStep, PollTickStep
<1>4. ASSUME NEW a \in Subscribed, Rotate(a) \/ VendorTurns(a) PROVE PollInv'
  BY <1>4, VendorStep
<1>5. CASE UNCHANGED pollVars
  BY <1>5 DEF pollVars, PollInv, PollTypes, Recent, Punctual, FirstPoll, Running, ParksEnd, Single,
             Replacing
<1> QED
  BY <1>1, <1>2, <1>3, <1>4, <1>5 DEF PollNext

(* For any accounts, cycle and timeout: an account is parked only while    *)
(* its vendor says drained, or said so within a cycle and a probe's        *)
(* timeout, and an inherited snapshot of a rotated credential is gone a    *)
(* cycle and two timeouts after the Inherit, whatever poll it fell into    *)
(* (loop, poll, parkIfExhausted, Inherit).                                 *)
THEOREM PollsAreHonest == PollSpec => []PollHonest
<1>1. ASSUME PollInv PROVE SelfHeals
  BY <1>1, PollAssumption DEF PollInv, ParksEnd, PollTypes, SelfHeals
<1>2. ASSUME PollInv PROVE OneSnapshot
  <2> USE <1>2 DEF PollInv
  <2> SUFFICES ASSUME NEW t \in Trackers, NEW s1 \in snaps[t], NEW s2 \in snaps[t],
                      s1.account = s2.account, s1 # s2
               PROVE  t = 2 /\ pollNow <= inherited + Cycle + 2 * Timeout
    BY DEF OneSnapshot
  <2>1. t = 2
    BY DEF Single, Trackers
  <2>2. s1.account \in Subscribed /\ 2 \in Trackers
    BY <2>1 DEF PollTypes, Snapshots, Trackers
  <2>3. CASE probe[2][s1.account].at \in {"sent", "answered"}
    BY <2>1, <2>2, <2>3, PollAssumption DEF Replacing, Punctual, PollTypes, Probes
  <2>4. CASE probe[2][s1.account].at \notin {"sent", "answered"}
    <3>1. reloadStage \in {"inherited", "done"} /\ Running(2)
      BY <2>1 DEF Replacing, Running
    <3>2. CASE ticker[2] = "runs"
      <4>1. due[2] <= inherited + Cycle + Timeout
        BY <2>1, <2>4, <3>2 DEF Replacing
      <4> QED BY <2>1, <2>2, <3>1, <3>2, <4>1, PollAssumption DEF Punctual, PollTypes
    <3>3. CASE ticker[2] # "runs"
      BY <2>1, <3>1, <3>3, PollAssumption DEF FirstPoll, PollTypes
    <3> QED BY <3>2, <3>3
  <2> QED BY <2>1, <2>3, <2>4
<1>3. PollInv => PollHonest
  BY <1>1, <1>2 DEF PollHonest
<1> QED
  BY <1>3, InitPoll, StepPoll, PTL DEF PollSpec
=============================================================================
