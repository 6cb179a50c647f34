------------------------------ MODULE ConfigEdit ------------------------------
(***************************************************************************)
(* The live configuration and its file (admin_config.go, admin_keys.go,    *)
(* admin_config_edit.go, admin_sections.go, admin_password.go,             *)
(* config/adminpw.go, main.go): admin edits, each a read, a splice, a      *)
(* validated atomic write and a reload, all of them under cfgMu but the    *)
(* section edits; the SIGHUP reload, which does not take the lock either;  *)
(* an operator with a text editor; the password and its mirror in the data *)
(* directory; and crashes at any point.                                    *)
(*                                                                         *)
(* The file is one provider's url and key, everything else an edit may     *)
(* touch (alias), and the admin password.  A value is the editor that      *)
(* wrote it.                                                               *)
(***************************************************************************)
EXTENDS Naturals

CONSTANTS
  Editors,   \* admin requests
  Kinds,     \* the requests made: provider, keyrow, section, pin,
             \* password, reload
  MaxHand,   \* bound: edits made by hand
  MaxHup,    \* bound: SIGHUPs
  MaxCrash,  \* bound: crashes
  Hand, Old, None

Fields == {"url", "key", "alias", "pw"}
Values == Editors \cup {Hand, Old, None}

\* No request goes by the name of "nothing".
EditAssumption == None \notin Editors

VARIABLES
  file,      \* the fields of the file
  loads,     \* the file parses and validates
  mirror,    \* the password stored in the data directory
  writable,  \* the file can be written
  up,        \* the process serves
  live,      \* the configuration requests run under
  curCfg,    \* the one the update service reads
  cfgMu,     \* the editor holding the lock
  ed,        \* each request: where it stands, what it does, what it has read
  hup,       \* the signal loop: where it stands, what it loaded
  n,         \* hand edits, SIGHUPs and crashes so far
  last,      \* history: the last value meant for each field
  undone,    \* history: fields whose last value an unlocked change took back
  unseen,    \* history: a hand edit no reload has followed
  crossed,   \* history: two reloads overlapped
  rowLost,   \* history: a key edit changed something else of its row
  pw         \* history: the last password acknowledged

vars == <<file, loads, mirror, writable, up, live, curCfg, cfgMu, ed, hup, n,
          last, undone, unseen, crossed, rowLost, pw>>
hist == <<last, undone, unseen, crossed, rowLost, pw>>

\* stale: fields changed since the request read the file.
Idle == [at |-> "idle", kind |-> None, snap |-> None, base |-> None, stale |-> {}]
Quiet == [at |-> "idle", cfg |-> None]

\* The file parses and every part of it validates.
Validate == loads

\* An explicit password outranks the stored one.
UseStoredAdminPassword(explicit) == IF explicit # None THEN explicit ELSE mirror

\* What the file configures.
Load == [file EXCEPT !["pw"] = UseStoredAdminPassword(@)]

Init ==
  /\ file \in {[f \in Fields |-> Old], [[f \in Fields |-> Old] EXCEPT !["pw"] = None]}
  /\ loads = TRUE /\ mirror = Old
  /\ writable \in BOOLEAN
  /\ up = TRUE /\ live = Load /\ curCfg = Load
  /\ cfgMu = None
  /\ ed = [e \in Editors |-> Idle]
  /\ hup = Quiet
  /\ n = [hand |-> 0, hup |-> 0, crash |-> 0]
  /\ last = file /\ undone = {}
  /\ unseen = FALSE /\ crossed = FALSE /\ rowLost = FALSE
  /\ pw = live["pw"]

-----------------------------------------------------------------------------
\* One admin request.

\* The fields a request means to write.
Meant(e) ==
  CASE ed[e].kind = "provider" -> {"url"}
    [] ed[e].kind = "keyrow" -> {"key"}
    [] ed[e].kind \in {"section", "pin"} -> {"alias"}
    [] ed[e].kind = "password" -> {"pw"}
    [] OTHER -> {}

\* What it writes.  A key edit re-renders the whole provider row from the
\* configuration it saw before it took the lock (applyKeyOps), a pinned model
\* list from the live one (pinModels).
Splice(e) ==
  [f \in Fields |->
     IF f \in Meant(e) THEN e
     ELSE IF ed[e].kind \in {"keyrow", "pin"} /\ f \in {"url", "key"} THEN ed[e].snap[f]
     ELSE ed[e].base[f]]

Row(cfg) == [f \in {"url", "key"} |-> cfg[f]]

\* handleAdminKeys looks the row up before it takes the lock.
Snapshot(kind) == IF kind = "keyrow" THEN Row(live) ELSE None

\* The request arrives; handleAdminPassword has compared the current password.
Ask(e, kind) ==
  /\ up /\ ed[e].at = "idle"
  /\ ed' = [ed EXCEPT ![e] = [Idle EXCEPT !.at = "ask", !.kind = kind, !.snap = Snapshot(kind)]]
  /\ UNCHANGED <<file, loads, mirror, writable, up, live, curCfg, cfgMu, hup, n, hist>>

\* A plausible bug: the lock is not taken.
Mut_Enter_Unlocked(e) ==
  /\ up /\ ed[e].at = "ask"
  /\ UNCHANGED cfgMu
  /\ ed' = [ed EXCEPT ![e].at = "read", ![e].base = file,
                       ![e].snap = IF ed[e].kind = "pin" THEN Row(live) ELSE @]
  /\ UNCHANGED <<file, loads, mirror, writable, up, live, curCfg, hup, n, last, undone, unseen, crossed, rowLost, pw>>

\* handleAdminSectionsPut alone edits the file without cfgMu.
Locks(e) == ed[e].kind # "section"

\* cfgMu is taken and the file read.
Enter(e) ==
  /\ up /\ ed[e].at = "ask"
  /\ IF Locks(e) THEN cfgMu = None /\ cfgMu' = e ELSE UNCHANGED cfgMu
  /\ ed' = [ed EXCEPT ![e].at = "read", ![e].base = file,
                       ![e].snap = IF ed[e].kind = "pin" THEN Row(live) ELSE @]
  /\ UNCHANGED <<file, loads, mirror, writable, up, live, curCfg, hup, n, last, undone, unseen, crossed, rowLost, pw>>

Done(e) ==
  /\ ed' = [ed EXCEPT ![e] = [Idle EXCEPT !.at = "done"]]
  /\ cfgMu' = IF cfgMu = e THEN None ELSE cfgMu

\* The edit is rejected: by its own checks, or because the result does not
\* load.  Nothing changes.
Reject(e) ==
  /\ up /\ ed[e].at = "read"
  /\ Done(e)
  /\ UNCHANGED <<file, loads, mirror, writable, up, live, curCfg, hup, n, hist>>

\* The file cannot be written: every edit but a password change fails.
WriteFails(e) ==
  /\ up /\ ed[e].at = "read" /\ ~writable /\ ed[e].kind \notin {"password", "reload"}
  /\ Done(e)
  /\ UNCHANGED <<file, loads, mirror, writable, up, live, curCfg, hup, n, hist>>

\* writeConfigAtomically: the validated temp file is renamed over the file,
\* whatever was written there since the read.
Rename(e) ==
  /\ up /\ ed[e].at = "read" /\ ed[e].kind # "reload"
  /\ writable /\ Validate
  /\ file' = Splice(e)
  /\ ed' = [o \in Editors |->
              CASE o = e -> [ed[e] EXCEPT !.at = "wrote"]
                [] o # e /\ ed[o].at = "read" /\ ~(Locks(e) /\ Locks(o)) -> [ed[o] EXCEPT !.stale = @ \cup Meant(e)]
                [] OTHER -> ed[o]]
  /\ last' = [f \in Fields |-> IF f \in Meant(e) THEN e ELSE last[f]]
  /\ LET reverted == {f \in Fields \ Meant(e) : file'[f] # ed[e].base[f]}
     IN /\ undone' = (undone \ Meant(e)) \cup (ed[e].stale \ Meant(e)) \cup reverted
        /\ rowLost' = (rowLost \/ (ed[e].kind = "keyrow" /\ reverted # {}))
  /\ UNCHANGED <<loads, mirror, writable, up, live, curCfg, cfgMu, hup, n, unseen, crossed, pw>>

\* The file is loaded again.
LoadFile(e) ==
  /\ up /\ Validate
  /\ ed[e].at = "wrote" \/ (ed[e].at = "read" /\ ed[e].kind = "reload")
  /\ ed' = [ed EXCEPT ![e].at = "loaded", ![e].snap = Load]
  /\ unseen' = FALSE
  /\ crossed' = (hup.at # "idle" \/ \E o \in Editors : ed[o].at = "loaded")
  /\ UNCHANGED <<file, loads, mirror, writable, up, live, curCfg, cfgMu, hup, n, last, undone, rowLost, pw>>

\* A plausible bug: the edited lines become live, the file is not read back.
Mut_Reload_KeepsLive(e) ==
  /\ up /\ ed[e].at = "loaded"
  /\ live' = [live EXCEPT !["pw"] = ed[e].snap["pw"]]
  /\ curCfg' = live'
  /\ IF ed[e].kind = "password"
     THEN ed' = [ed EXCEPT ![e].at = "live"] /\ UNCHANGED cfgMu
     ELSE Done(e)
  /\ UNCHANGED <<file, loads, mirror, writable, up, hup, n, last, undone, unseen, crossed, rowLost, pw>>

\* What was loaded is swapped in; the reload hook hands it to the update
\* service.  A bad file is refused (see Reject).
Reload(e) ==
  /\ up /\ ed[e].at = "loaded"
  /\ live' = ed[e].snap /\ curCfg' = ed[e].snap
  /\ IF ed[e].kind = "password"
     THEN ed' = [ed EXCEPT ![e].at = "live"] /\ UNCHANGED cfgMu
     ELSE Done(e)
  /\ UNCHANGED <<file, loads, mirror, writable, up, hup, n, last, undone, unseen, crossed, rowLost, pw>>

\* A password change that could not reach the file is swapped in over the
\* live configuration.
SwapPassword(e) ==
  /\ up /\ ed[e].at = "read" /\ ed[e].kind = "password" /\ ~writable
  /\ live' = [live EXCEPT !["pw"] = e] /\ curCfg' = live'
  /\ ed' = [ed EXCEPT ![e].at = "live"]
  /\ crossed' = (crossed \/ hup.at # "idle")
  /\ UNCHANGED <<file, loads, mirror, writable, up, cfgMu, hup, n, last, undone, unseen, rowLost, pw>>

\* A plausible bug: the mirror is written before the file is tried, or not at all.
Mut_Mirror_Never(e) ==
  /\ up /\ ed[e].at = "live"
  /\ Done(e) /\ pw' = e
  /\ UNCHANGED <<file, loads, mirror, writable, up, live, curCfg, hup, n, last, undone, unseen, crossed, rowLost>>

\* The mirror follows the effective password; the sessions end and the
\* request is answered.
Mirror(e) ==
  /\ up /\ ed[e].at = "live"
  /\ mirror' = e
  /\ Done(e) /\ pw' = e
  /\ UNCHANGED <<file, loads, writable, up, live, curCfg, hup, n, last, undone, unseen, crossed, rowLost>>

-----------------------------------------------------------------------------
\* The rest of the world.

\* An editor outside the process changes one field, or leaves a file that
\* does not load until it is mended.
HandEdit ==
  /\ n.hand < MaxHand /\ writable
  /\ n' = [n EXCEPT !.hand = @ + 1]
  /\ \E f \in {"url", "alias"}, good \in BOOLEAN :
       /\ file' = [file EXCEPT ![f] = Hand] /\ loads' = good
       /\ last' = [last EXCEPT ![f] = Hand]
       /\ undone' = undone \ {f}
       /\ ed' = [o \in Editors |-> IF ed[o].at = "read" THEN [ed[o] EXCEPT !.stale = @ \cup {f}] ELSE ed[o]]
  /\ unseen' = TRUE
  /\ UNCHANGED <<mirror, writable, up, live, curCfg, cfgMu, hup, crossed, rowLost, pw>>

Mend ==
  /\ ~loads /\ loads' = TRUE
  /\ UNCHANGED <<file, mirror, writable, up, live, curCfg, cfgMu, ed, hup, n, hist>>

Editing == \E e \in Editors : ed[e].at \in {"read", "wrote", "loaded", "live"}

\* SIGHUP: load (a bad file is refused), reload, store, with no lock.
HupLoad ==
  /\ up /\ hup.at = "idle" /\ n.hup < MaxHup
  /\ n' = [n EXCEPT !.hup = @ + 1]
  /\ hup' = IF Validate THEN [at |-> "loaded", cfg |-> Load] ELSE Quiet
  /\ unseen' = (unseen /\ ~loads)
  /\ crossed' = (crossed \/ Editing)
  /\ UNCHANGED <<file, loads, mirror, writable, up, live, curCfg, cfgMu, ed, last, undone, rowLost, pw>>

HupReload ==
  /\ up /\ hup.at = "loaded"
  /\ live' = hup.cfg /\ curCfg' = hup.cfg
  /\ hup' = [hup EXCEPT !.at = "reloaded"]
  /\ crossed' = (crossed \/ Editing)
  /\ UNCHANGED <<file, loads, mirror, writable, up, cfgMu, ed, n, last, undone, unseen, rowLost, pw>>

HupStore ==
  /\ up /\ hup.at = "reloaded"
  /\ curCfg' = hup.cfg
  /\ hup' = Quiet
  /\ UNCHANGED <<file, loads, mirror, writable, up, live, cfgMu, ed, n, hist>>

\* The process dies between any two steps; the temp file it leaves is not
\* the configuration.
Crash ==
  /\ up /\ n.crash < MaxCrash
  /\ n' = [n EXCEPT !.crash = @ + 1]
  /\ up' = FALSE /\ cfgMu' = None
  /\ ed' = [e \in Editors |-> IF ed[e].at = "idle" THEN Idle ELSE [Idle EXCEPT !.at = "done"]]
  /\ hup' = Quiet
  /\ UNCHANGED <<file, loads, mirror, writable, live, curCfg, hist>>

\* runGateway: a file that does not load is fatal.
Boot ==
  /\ ~up /\ Validate
  /\ up' = TRUE /\ live' = Load /\ curCfg' = Load
  /\ unseen' = FALSE /\ crossed' = FALSE
  /\ UNCHANGED <<file, loads, mirror, writable, cfgMu, ed, hup, n, last, undone, rowLost, pw>>

Next ==
  \/ \E e \in Editors :
       \/ \E kind \in Kinds : Ask(e, kind)
       \/ Enter(e) \/ Reject(e) \/ WriteFails(e) \/ Rename(e) \/ LoadFile(e) \/ Reload(e) \/ SwapPassword(e) \/ Mirror(e)
  \/ HandEdit \/ Mend \/ HupLoad \/ HupReload \/ HupStore \/ Crash \/ Boot

Spec == Init /\ [][Next]_vars

-----------------------------------------------------------------------------
Configs == [Fields -> Values]
Rows == [{"url", "key"} -> Values]
Stations == {"idle", "ask", "read", "wrote", "loaded", "live", "done"}
Request == [at : Stations, kind : Kinds \cup {None}, snap : Rows \cup Configs \cup {None},
            base : Configs \cup {None}, stale : SUBSET Fields]

TypeOK ==
  /\ {file, live, curCfg, last} \subseteq Configs
  /\ {loads, writable, up, unseen, crossed, rowLost} \subseteq BOOLEAN
  /\ mirror \in Values /\ pw \in Values
  /\ cfgMu \in Editors \cup {None} /\ undone \subseteq Fields
  /\ ed \in [Editors -> Request]
  /\ hup \in [at : {"idle", "loaded", "reloaded"}, cfg : Configs \cup {None}]

\* Every edit that reached the file stays in it until someone means to change
\* that field: admin edits never lose each other's work, whatever they
\* interleave with and wherever the process dies.  An edit by hand or of a
\* section inside another edit, and the row a key edit re-renders, are the
\* exceptions the code's missing locks and early snapshot leave.
EditsKept == \A f \in Fields \ undone : file[f] = last[f]

\* At rest, what serves is what the file says, so that a restart changes
\* nothing: after every edit, accepted, refused or failed, and after every
\* reload that did not overlap an edit.  (A password held only by the mirror
\* beside an explicit key is the case PasswordSurvives is about.)
LiveIsFile ==
  up /\ ~Editing /\ hup.at = "idle" /\ ~unseen /\ ~crossed =>
    /\ \A f \in Fields \ {"pw"} : live[f] = Load[f]
    /\ curCfg = live
    /\ live["pw"] = Load["pw"] \/ "pw" \in undone \/ (~writable /\ file["pw"] # None)

\* The last password acknowledged is the one a restart adopts, as long as the
\* file is writable or holds no key of its own, and no section edit overlapped.
Crossing == \E e \in Editors : ed[e].kind = "password" /\ ed[e].at \in {"wrote", "loaded", "live"}
PasswordKept ==
  ~Crossing /\ "pw" \notin undone /\ (writable \/ file["pw"] = None) => Load["pw"] \in {pw, last["pw"]}

\* "the mirror below carries the change across restarts": once a change is
\* acknowledged, no restart brings the old password back.
PasswordSurvives == pw # Old => Load["pw"] # Old

\* "cfgMu serializes admin config mutations so concurrent PATCH/reload
\* read-modify-write cycles on the TOML file stay atomic": with no edit by
\* hand, every field holds what was last meant for it.
EditsSerial == n.hand = 0 => \A f \in Fields : file[f] = last[f]

\* "reach one provider ACCOUNT's upstream key without rewriting the rest of
\* the provider": a key edit changes nothing else of the row.
KeyEditKeepsRow == ~rowLost

(* An acknowledged change is in the file and in force, now and after a     *)
(* restart.                                                                *)
EditsHold == TypeOK /\ EditsKept /\ LiveIsFile /\ PasswordKept
=============================================================================
