------------------------------ MODULE SelfUpdate ------------------------------
(***************************************************************************)
(* The self-update (internal/update, cmd/onegw): download, smoke run, the  *)
(* swap on disk, the handoff over SO_REUSEPORT, the rollback, the drain of *)
(* the old process, and the command that drives it.                        *)
(*                                                                         *)
(* A process is a pid; it accepts connections from "up" to its SIGTERM.    *)
(* The new build is good, dies at start, or comes up deaf: it serves but   *)
(* never answers the probe with the password it is given.                  *)
(***************************************************************************)
EXTENDS Naturals, FiniteSets

CONSTANTS
  Pids,        \* processes, started in turn
  MaxRequests, \* bound: requests in flight in one process
  MaxKills,    \* bound: processes killed from outside
  Qualities,   \* what the new build may be
  Absent

ASSUME UpdateAssumption ==
  /\ Pids \subseteq Nat /\ 1 \in Pids
  /\ Qualities \subseteq {"good", "dies", "deaf"}
  /\ Absent \notin Pids /\ Absent \notin {"v1", "v2"}

VARIABLES
  quality,
  exec, backup, fresh,  \* the binary, <path>.old, .onegw.new
  proc,                 \* each process: its state and build
  run,                  \* the update each process runs: where it stands, its child
  inflight,             \* requests in flight in each process
  owner,                \* the pid in owner.json
  cli,                  \* `onegw update`: where it stands, the pid it watches
  kills,
  torn,                 \* history: an update stopped between its renames
  raced,                \* history: the command staged a binary beside a running update
  dropped               \* history: a request a drained process did not finish

updateVars ==
  <<quality, exec, backup, fresh, proc, run, inflight, owner, cli, kills, torn, raced, dropped>>
disk == <<exec, backup, fresh>>
hist == <<kills, torn, raced>>

New == "v2"
NoRun == [at |-> "idle", child |-> Absent]

UpdateInit ==
  /\ quality \in Qualities
  /\ exec = "v1" /\ backup = Absent /\ fresh = Absent
  /\ proc = [p \in Pids |->
       IF p = 1 THEN [st |-> "up", v |-> "v1"] ELSE [st |-> "none", v |-> Absent]]
  /\ run = [p \in Pids |-> NoRun]
  /\ inflight = [p \in Pids |-> 0]
  /\ owner = 1
  /\ cli = [at |-> "idle", pid |-> Absent]
  /\ kills = 0 /\ torn = FALSE /\ raced = FALSE /\ dropped = FALSE

Alive(p) == proc[p].st \in {"starting", "up", "draining"}
Up == {p \in Pids : proc[p].st = "up"}
Unused == {p \in Pids : proc[p].st = "none"}
NextPid == CHOOSE p \in Unused : \A q \in Unused : p <= q
At(p, at) == Alive(p) /\ run[p].at = at
Moves(p, at) == run' = [run EXCEPT ![p].at = at]
\* The run is over; ApplyAsync clears its mark and keeps the reason.
Over(p) == run' = [run EXCEPT ![p] = NoRun]

-----------------------------------------------------------------------------
\* One update, in the process it will replace (Run under ApplyAsync).

\* POST /admin/update or the automatic check: one update at a time, and only
\* when the release is newer.
Apply(p) ==
  /\ proc[p] = [st |-> "up", v |-> "v1"]
  /\ run[p].at = "idle"
  /\ Moves(p, "get")
  /\ UNCHANGED <<quality, disk, proc, inflight, owner, cli, hist, dropped>>

\* The download is verified and run once with `version`.
Download(p) ==
  /\ At(p, "get")
  /\ fresh' = New /\ Moves(p, "swap")
  /\ UNCHANGED <<quality, exec, backup, proc, inflight, owner, cli, hist, dropped>>

\* No release, no asset, a checksum mismatch, a failed smoke run: nothing has moved.
DownloadFails(p) ==
  /\ At(p, "get")
  /\ fresh' = Absent /\ Over(p)
  /\ UNCHANGED <<quality, exec, backup, proc, inflight, owner, cli, hist, dropped>>

\* swap, first rename: the serving build becomes the backup.
MoveAside(p) ==
  /\ At(p, "swap")
  /\ IF exec = Absent
     THEN fresh' = Absent /\ Over(p) /\ UNCHANGED <<exec, backup>>
     ELSE exec' = Absent /\ backup' = exec /\ UNCHANGED fresh /\ Moves(p, "aside")
  /\ UNCHANGED <<quality, proc, inflight, owner, cli, hist, dropped>>

\* swap, second rename; a new build that has gone puts the old one back.
Install(p) ==
  /\ At(p, "aside")
  /\ IF fresh = Absent
     THEN exec' = backup /\ backup' = Absent /\ Over(p) /\ UNCHANGED fresh
     ELSE exec' = fresh /\ fresh' = Absent /\ UNCHANGED backup /\ Moves(p, "spawn")
  /\ UNCHANGED <<quality, proc, inflight, owner, cli, hist, dropped>>

Spawn(p) ==
  /\ At(p, "spawn") /\ exec # Absent /\ Unused # {}
  /\ proc' = [proc EXCEPT ![NextPid] = [st |-> "starting", v |-> exec]]
  /\ run' = [run EXCEPT ![p] = [at |-> "wait", child |-> NextPid]]
  /\ UNCHANGED <<quality, disk, inflight, owner, cli, hist, dropped>>

\* The new build does not start: the backup goes back at once.
SpawnFails(p) ==
  /\ At(p, "spawn")
  /\ exec' = backup /\ backup' = Absent /\ Over(p)
  /\ UNCHANGED <<quality, fresh, proc, inflight, owner, cli, hist, dropped>>

\* A plausible bug: any answer at all proves the new process.
Mut_Proven_Any(p) ==
  /\ At(p, "wait") /\ Moves(p, "proven")
  /\ UNCHANGED <<quality, disk, proc, inflight, owner, cli, hist, dropped>>

\* waitServing: an authenticated answer names the child's pid.
Proven(p) ==
  /\ At(p, "wait")
  /\ proc[run[p].child].st = "up"
  /\ proc[run[p].child].v = New => quality # "deaf"
  /\ Moves(p, "proven")
  /\ UNCHANGED <<quality, disk, proc, inflight, owner, cli, hist, dropped>>

\* A plausible bug: only a dead child ends the wait, a silent one never does.
Mut_GiveUp_NoTimeout(p) ==
  /\ At(p, "wait") /\ proc[run[p].child].st = "dead"
  /\ Moves(p, "killed")
  /\ UNCHANGED <<quality, disk, proc, inflight, owner, cli, hist, dropped>>

\* A plausible bug: the child that never took over is left running.
Mut_GiveUp_NoKill(p) ==
  /\ At(p, "wait") /\ Moves(p, "killed")
  /\ UNCHANGED <<quality, disk, proc, inflight, owner, cli, hist, dropped>>

\* The child died, or the takeover timed out: it is killed with whatever the
\* shared port gave it.
GiveUp(p) ==
  /\ At(p, "wait")
  /\ proc' = [proc EXCEPT ![run[p].child].st = "dead"]
  /\ inflight' = [inflight EXCEPT ![run[p].child] = 0]
  /\ Moves(p, "killed")
  /\ UNCHANGED <<quality, disk, owner, cli, hist, dropped>>

\* A plausible bug: the bad build is moved away and the backup left where it is.
Mut_PutBack_Forgets(p) ==
  /\ At(p, "killed")
  /\ exec' = Absent /\ Over(p)
  /\ UNCHANGED <<quality, backup, fresh, proc, inflight, owner, cli, hist, dropped>>

\* The rollback: the build is renamed to .bad and the backup put back.
PutBack(p) ==
  /\ At(p, "killed")
  /\ exec' = IF backup # Absent THEN backup ELSE Absent
  /\ backup' = Absent /\ Over(p)
  /\ UNCHANGED <<quality, fresh, proc, inflight, owner, cli, hist, dropped>>

\* SIGTERM to the old process, this one.
Signal(p) ==
  /\ At(p, "proven")
  /\ proc' = [proc EXCEPT ![p].st = "draining"] /\ Over(p)
  /\ UNCHANGED <<quality, disk, inflight, owner, cli, hist, dropped>>

-----------------------------------------------------------------------------
\* Processes.

\* runGateway: owner.json is stamped before the port is bound.
Stamp(p) ==
  /\ proc[p].st = "starting" /\ owner # p
  /\ proc[p].v = New => quality # "dies"
  /\ owner' = p
  /\ UNCHANGED <<quality, disk, proc, run, inflight, cli, hist, dropped>>
BindPort(p) ==
  /\ proc[p].st = "starting" /\ owner = p
  /\ proc' = [proc EXCEPT ![p].st = "up"]
  /\ UNCHANGED <<quality, disk, run, inflight, owner, cli, hist, dropped>>
DiesAtStart(p) ==
  /\ proc[p].st = "starting" /\ proc[p].v = New /\ quality = "dies"
  /\ proc' = [proc EXCEPT ![p].st = "dead"]
  /\ UNCHANGED <<quality, disk, run, inflight, owner, cli, hist, dropped>>

\* Requests, on whichever process the shared port picks.
Accept(p) ==
  /\ proc[p].st = "up" /\ inflight[p] < MaxRequests
  /\ inflight' = [inflight EXCEPT ![p] = @ + 1]
  /\ UNCHANGED <<quality, disk, proc, run, owner, cli, hist, dropped>>
FinishRequest(p) ==
  /\ Alive(p) /\ inflight[p] > 0
  /\ inflight' = [inflight EXCEPT ![p] = @ - 1]
  /\ UNCHANGED <<quality, disk, proc, run, owner, cli, hist, dropped>>

\* Shutdown makes Serve return, and main returns with it.
Exit(p) ==
  /\ proc[p].st = "draining"
  /\ proc' = [proc EXCEPT ![p].st = "dead"]
  /\ inflight' = [inflight EXCEPT ![p] = 0]
  /\ run' = [run EXCEPT ![p] = NoRun]
  /\ dropped' = (dropped \/ inflight[p] > 0)
  /\ UNCHANGED <<quality, disk, owner, cli, hist>>

\* A process is killed from outside, its update with it.
Kill(p) ==
  /\ Alive(p) /\ kills < MaxKills
  /\ kills' = kills + 1
  /\ proc' = [proc EXCEPT ![p].st = "dead"]
  /\ inflight' = [inflight EXCEPT ![p] = 0]
  /\ run' = [run EXCEPT ![p] = NoRun]
  /\ torn' = (torn \/ run[p].at \notin {"idle", "get", "swap"})
  /\ UNCHANGED <<quality, disk, owner, cli, raced, dropped>>

\* Started again, with nobody on the port.
StartAgain ==
  /\ \A p \in Pids : ~Alive(p)
  /\ exec # Absent /\ Unused # {}
  /\ proc' = [proc EXCEPT ![NextPid] = [st |-> "starting", v |-> exec]]
  /\ UNCHANGED <<quality, disk, run, inflight, owner, cli, hist, dropped>>

-----------------------------------------------------------------------------
\* `onegw update`: a live owner applies the update itself; without one the
\* binary is staged in place.
Command ==
  /\ cli.at = "idle"
  /\ IF Alive(owner)
     THEN \E p \in Up :
            /\ cli' = [at |-> "watch", pid |-> owner]
            /\ IF proc[p].v = "v1" /\ run[p].at = "idle" THEN Moves(p, "get") ELSE UNCHANGED run
            /\ UNCHANGED fresh
     ELSE cli' = [at |-> "stage", pid |-> Absent] /\ fresh' = New /\ UNCHANGED run
  /\ UNCHANGED <<quality, exec, backup, proc, inflight, owner, hist, dropped>>

Stage ==
  /\ cli.at = "stage"
  /\ exec # Absent /\ fresh # Absent
  /\ backup' = exec /\ exec' = fresh /\ fresh' = Absent
  /\ cli' = [cli EXCEPT !.at = "done"]
  /\ raced' = (raced \/ \E p \in Pids : run[p].at # "idle")
  /\ UNCHANGED <<quality, proc, run, inflight, owner, kills, torn, dropped>>
StageFails ==
  /\ cli.at = "stage" /\ (exec = Absent \/ fresh = Absent)
  /\ cli' = [cli EXCEPT !.at = "done"]
  /\ raced' = (raced \/ \E p \in Pids : run[p].at # "idle")
  /\ UNCHANGED <<quality, disk, proc, run, inflight, owner, kills, torn, dropped>>

\* watchHandoff: another pid answers, the old one tells why it did not, or time is up.
Watched ==
  /\ cli.at = "watch"
  /\ cli' = [cli EXCEPT !.at = "done"]
  /\ UNCHANGED <<quality, disk, proc, run, inflight, owner, hist, dropped>>

RunStep(p) ==
  \/ Download(p) \/ DownloadFails(p) \/ MoveAside(p) \/ Install(p) \/ Spawn(p) \/ SpawnFails(p)
  \/ Proven(p) \/ GiveUp(p) \/ PutBack(p) \/ Signal(p)

UpdateNext ==
  \/ \E p \in Pids :
       \/ Apply(p) \/ RunStep(p)
       \/ Stamp(p) \/ BindPort(p) \/ DiesAtStart(p)
       \/ Accept(p) \/ FinishRequest(p) \/ Exit(p) \/ Kill(p)
  \/ StartAgain \/ Command \/ Stage \/ StageFails \/ Watched

\* Downloads and probes have timeouts and the disk answers, so a run takes its
\* steps; a process told to go goes.
UpdateFairness == \A p \in Pids : WF_updateVars(RunStep(p)) /\ WF_updateVars(Exit(p))

UpdateSpec == UpdateInit /\ [][UpdateNext]_updateVars /\ UpdateFairness

-----------------------------------------------------------------------------
\* Zero downtime: as long as nothing is killed from outside, some process
\* accepts connections at every moment of an update, taken over or rolled back.
PortHeld == kills = 0 => Up # {}

\* At rest one gateway serves, not two that split the traffic.
OneGateway == (\A p \in Pids : run[p].at = "idle") /\ ~torn => Cardinality(Up) <= 1

\* At rest a restart finds a binary, and one that has not failed its handoff
\* (unless the command staged it unproven).
Restartable ==
  (\A p \in Pids : run[p].at = "idle") /\ cli.at # "stage" /\ ~torn /\ ~raced =>
    /\ exec # Absent
    /\ exec = New => quality = "good" \/ cli.at = "done"

\* Every update ends: taken over, rolled back, or gone with its process.
Updating == \E p \in Pids : run[p].at # "idle"
UpdateEnds == Updating ~> ~Updating

\* "SIGTERM/SIGINT drain in-flight requests and exit".
Drained == ~dropped

\* What an update promises, taken over or rolled back: the port is served
\* throughout, and afterwards by one gateway that a restart would find.
Seamless == PortHeld /\ OneGateway /\ Restartable
=============================================================================
