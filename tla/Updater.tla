------------------------------- MODULE Updater -------------------------------
(***************************************************************************)
(* The refresh of a deployed project's infrastructure: update.sh (the      *)
(* public launcher, the owner of the private source snapshot and the       *)
(* supervisor of the coordinator), scripts/update_coordinator.sh (the      *)
(* visible shell, the detached guardian of the lock, the body's group      *)
(* leader and the refresh itself, called main here) and the launch         *)
(* barrier of deploy_assets/launch.sh.                                     *)
(*                                                                         *)
(* A process is a place in its program; "none" is before its start, "ok"  *)
(* and "failed" (killed too) are after its end.  A pipe is what has        *)
(* been written to it (sent); it reads end of file once nobody who could   *)
(* still write is alive.  The project lock is the flock of the project     *)
(* directory: launcher, supervisor, shell and guardian share one open file *)
(* description of it; clean-up takes a lock of its own.                    *)
(***************************************************************************)
EXTENDS Naturals, FiniteSets

CONSTANTS
    Updates,        \* runs of update.sh on one project, all of one template
    Sessions,       \* launch.sh sessions
    MaxFaults,      \* bound: kills, interrupts and power losses together
    Breakable       \* bound: the controls a session may break

\* What the coordinator validates before it touches anything.
Controls == {"manifest", "state", "registry", "inventory", "receipts", "ownership"}

ASSUME UpdaterAssumption == MaxFaults \in Nat /\ Breakable \subseteq Controls

VARIABLES
    at,             \* at[u][p]: where process p of update u is
    sent,           \* sent[u]: the messages written to the pipes of u
    snapshot,       \* snapshot[u]: the private copy of the template in /tmp
    workspaces,     \* updates whose assembly workspace is in the project
    sessions,       \* sessions that run, each with LOCK_SH
    project,        \* the project on disk
    faults          \* faults so far

vars == <<at, sent, snapshot, workspaces, sessions, project, faults>>

Ended == {"ok", "failed"}

Places == [
  launcher   |-> {"none", "locked", "naming", "copying", "spawning", "handing",
                  "waiting", "closing"} \cup Ended,
  owner      |-> {"none", "creating", "guarding", "acking", "handed", "removing"} \cup Ended,
  supervisor |-> {"none", "starting", "reporting", "watching", "cleaning",
                  "abandoning"} \cup Ended,
  shell      |-> {"none", "starting", "forking", "arming", "waiting", "draining"} \cup Ended,
  guardian   |-> {"none", "listening", "leaving", "guarding", "killing", "draining"} \cup Ended,
  body       |-> {"none", "forked", "waiting", "running", "reporting", "ending"} \cup Ended,
  main       |-> {"none", "checking", "assembling", "verifying", "marking", "replacing",
                  "sweeping", "merging", "reopening", "recording", "syncing", "unmarking",
                  "tidying", "refusing"} \cup Ended]

Processes == DOMAIN Places

Messages == {"handoff", "ack", "spawned", "dotenv", "pid", "armed", "complete", "drained"}

TypeOK ==
  /\ \A u \in Updates : DOMAIN at[u] = Processes /\ \A p \in Processes : at[u][p] \in Places[p]
  /\ \A u \in Updates :
       /\ at[u].supervisor # "none" => at[u].owner # "none"
       /\ at[u].guardian # "none" => at[u].shell # "none"
       /\ at[u].main # "none" => at[u].body # "none"
  /\ sent \in [Updates -> SUBSET Messages]
  /\ snapshot \in [Updates -> {"absent", "present", "left"}]
  /\ workspaces \subseteq Updates
  /\ sessions \subseteq Sessions
  /\ project \in [infra : {"old", "mixed", "new"}, synced : BOOLEAN,
                  manifest : {"old", "new"}, marker : BOOLEAN,
                  recorded : BOOLEAN, flaw : Controls \cup {"none"},
                  paper : {"open", "audited", "stale"}]
  /\ faults \in 0..MaxFaults

Init ==
  /\ at = [u \in Updates |-> [p \in Processes |-> "none"]]
  /\ sent = [u \in Updates |-> {}]
  /\ snapshot = [u \in Updates |-> "absent"]
  /\ workspaces = {}
  /\ sessions = {}
  /\ project = [infra |-> "old", synced |-> TRUE, manifest |-> "old", marker |-> FALSE,
                recorded |-> FALSE, flaw |-> "none", paper |-> "open"]
  /\ faults = 0

Alive(u, p) == at[u][p] \notin Ended \cup {"none"}
Over(u, p) == at[u][p] \in Ended

Move(u, p, place) == at' = [at EXCEPT ![u][p] = place]
MoveBoth(u, p, place, q, other) == at' = [at EXCEPT ![u][p] = place, ![u][q] = other]
\* The places of u once those of the processes ps that live are killed.
Killed(u, ps) ==
  [p \in Processes |-> IF p \in ps /\ Alive(u, p) THEN "failed" ELSE at[u][p]]
Send(u, m) == sent' = [sent EXCEPT ![u] = @ \cup {m}]

\* The processes that hold the shared open file description of the project.
HoldsLock(u, p) ==
  \/ p = "launcher" /\ at[u][p] \in {"locked", "naming", "copying", "spawning", "handing"}
  \/ p = "supervisor" /\ at[u][p] \in {"starting", "reporting"}
  \/ p \in {"shell", "guardian"} /\ Alive(u, p)

Locked(u) == \E p \in Processes : HoldsLock(u, p)
LockFree == sessions = {} /\ \A u \in Updates : ~Locked(u)

\* The launcher's write end of the liveness pipe is closed.
LauncherGone(u) == Over(u, "launcher") \/ at[u].launcher = "closing"

-----------------------------------------------------------------------------
(* update.sh: the public launcher *)

\* A launcher that finds the lock taken (LOCK_NB) exits and has done nothing.
Begin(u) ==
  /\ at[u].launcher = "none"
  /\ LockFree
  /\ Move(u, "launcher", "locked")
  /\ UNCHANGED <<sent, snapshot, workspaces, sessions, project, faults>>

StartOwner(u) ==
  /\ at[u].launcher = "locked"
  /\ MoveBoth(u, "launcher", "naming", "owner", "creating")
  /\ UNCHANGED <<sent, snapshot, workspaces, sessions, project, faults>>

\* The owner writes the snapshot's name once, before it guards it.
ReadName(u) ==
  /\ at[u].launcher = "naming"
  /\ at[u].owner # "creating"
  /\ Move(u, "launcher", IF snapshot[u] = "present" THEN "copying" ELSE "failed")
  /\ UNCHANGED <<sent, snapshot, workspaces, sessions, project, faults>>

\* The copy either carries the attested digest or ends the launcher.
CopySource(u) ==
  /\ at[u].launcher = "copying"
  /\ \/ MoveBoth(u, "launcher", "spawning", "supervisor", "starting")
     \/ Move(u, "launcher", "failed")
  /\ UNCHANGED <<sent, snapshot, workspaces, sessions, project, faults>>

\* Writing the hand-off to an owner that is gone raises.
HandOff(u) ==
  /\ at[u].launcher = "spawning"
  /\ \/ /\ "spawned" \in sent[u] /\ Alive(u, "owner")
        /\ Move(u, "launcher", "handing")
        /\ Send(u, "handoff")
     \/ /\ IF "spawned" \in sent[u] THEN ~Alive(u, "owner") ELSE Over(u, "supervisor")
        /\ Move(u, "launcher", "failed")
        /\ UNCHANGED sent
  /\ UNCHANGED <<snapshot, workspaces, sessions, project, faults>>

\* From here on the launcher holds no lock, and the operator's environment
\* has been written to its pipe.
HandedOff(u) ==
  /\ at[u].launcher = "handing"
  /\ \/ /\ "ack" \in sent[u]
        /\ Move(u, "launcher", "waiting")
        /\ Send(u, "dotenv")
     \/ /\ "ack" \notin sent[u] /\ Over(u, "owner")
        /\ Move(u, "launcher", "failed")
        /\ UNCHANGED sent
  /\ UNCHANGED <<snapshot, workspaces, sessions, project, faults>>

CloseLiveness(u) ==
  /\ at[u].launcher = "waiting"
  /\ Over(u, "supervisor")
  /\ Move(u, "launcher", "closing")
  /\ UNCHANGED <<sent, snapshot, workspaces, sessions, project, faults>>

\* The status is the supervisor's, unless the owner failed.
Return(u) ==
  /\ at[u].launcher = "closing"
  /\ Over(u, "owner")
  /\ Move(u, "launcher", IF at[u].owner = "ok" /\ at[u].supervisor = "ok"
                           THEN "ok" ELSE "failed")
  /\ UNCHANGED <<sent, snapshot, workspaces, sessions, project, faults>>

Launcher(u) ==
  \/ StartOwner(u) \/ ReadName(u) \/ CopySource(u) \/ HandOff(u) \/ HandedOff(u)
  \/ CloseLiveness(u) \/ Return(u)

-----------------------------------------------------------------------------
(* update.sh: the owner of the snapshot *)

CreateSnapshot(u) ==
  /\ at[u].owner = "creating"
  /\ snapshot' = [snapshot EXCEPT ![u] = "present"]
  /\ Move(u, "owner", IF LauncherGone(u) THEN "removing" ELSE "guarding")
  /\ UNCHANGED <<sent, workspaces, sessions, project, faults>>

\* The hand-off is read before the end of the launcher's pipe.
GuardSnapshot(u) ==
  /\ at[u].owner = "guarding"
  /\ \/ "handoff" \in sent[u] /\ Move(u, "owner", "acking")
     \/ "handoff" \notin sent[u] /\ LauncherGone(u) /\ Move(u, "owner", "removing")
  /\ UNCHANGED <<sent, snapshot, workspaces, sessions, project, faults>>

\* Mutant: the owner ends with the hand-off.
AcknowledgeAndEnd(u) ==
  /\ at[u].owner = "acking"
  /\ \/ ~LauncherGone(u) /\ Move(u, "owner", "ok") /\ Send(u, "ack")
     \/ LauncherGone(u) /\ Move(u, "owner", "failed") /\ UNCHANGED sent
  /\ UNCHANGED <<snapshot, workspaces, sessions, project, faults>>

\* An acknowledgement nobody reads ends the owner: the snapshot is the
\* supervisor's by now.
Acknowledge(u) ==
  /\ at[u].owner = "acking"
  /\ \/ ~LauncherGone(u) /\ Move(u, "owner", "handed") /\ Send(u, "ack")
     \/ LauncherGone(u) /\ Move(u, "owner", "failed") /\ UNCHANGED sent
  /\ UNCHANGED <<snapshot, workspaces, sessions, project, faults>>

BackUp(u) ==
  /\ at[u].owner = "handed"
  /\ Over(u, "supervisor")
  /\ Move(u, "owner", "removing")
  /\ UNCHANGED <<sent, snapshot, workspaces, sessions, project, faults>>

\* remove_private_tree, under LOCK_EX on a description of its own.
Removed(u) == snapshot' = [snapshot EXCEPT ![u] = "absent"]

OwnerRemoves(u) ==
  /\ at[u].owner = "removing"
  /\ LockFree
  /\ Removed(u)
  /\ Move(u, "owner", "ok")
  /\ UNCHANGED <<sent, workspaces, sessions, project, faults>>

Owner(u) == CreateSnapshot(u) \/ GuardSnapshot(u) \/ Acknowledge(u) \/ BackUp(u)

-----------------------------------------------------------------------------
(* update.sh: the supervisor of the coordinator *)

StartShell(u) ==
  /\ at[u].supervisor = "starting"
  /\ MoveBoth(u, "supervisor", "reporting", "shell", "starting")
  /\ UNCHANGED <<sent, snapshot, workspaces, sessions, project, faults>>

\* stop_child: SIGTERM ends the shell at once, whatever it waits for.
Stopped(u) == IF Over(u, "shell") THEN at[u].shell ELSE "failed"

\* The report wakes the launcher; then the supervisor closes its lock.
ReportSpawn(u) ==
  /\ at[u].supervisor = "reporting"
  /\ \/ /\ ~LauncherGone(u)
        /\ Move(u, "supervisor", "watching")
        /\ Send(u, "spawned")
     \/ /\ LauncherGone(u)
        /\ MoveBoth(u, "supervisor", "abandoning", "shell", Stopped(u))
        /\ UNCHANGED sent
  /\ UNCHANGED <<snapshot, workspaces, sessions, project, faults>>

WatchChild(u) ==
  /\ at[u].supervisor = "watching"
  /\ \/ /\ Over(u, "shell")
        /\ Move(u, "supervisor", IF at[u].shell = "ok" THEN "cleaning" ELSE "abandoning")
     \/ /\ Alive(u, "shell") /\ LauncherGone(u)
        /\ MoveBoth(u, "supervisor", "abandoning", "shell", Stopped(u))
  /\ UNCHANGED <<sent, snapshot, workspaces, sessions, project, faults>>

\* Mutant: the supervisor removes the snapshot when its child has ended,
\* without the lock that shows that every writer has.
SupervisorRemovesAtOnce(u) ==
  /\ at[u].supervisor \in {"cleaning", "abandoning"}
  /\ Removed(u)
  /\ Move(u, "supervisor", IF at[u].supervisor = "cleaning" THEN "ok" ELSE "failed")
  /\ UNCHANGED <<sent, workspaces, sessions, project, faults>>

SupervisorRemoves(u) ==
  /\ at[u].supervisor \in {"cleaning", "abandoning"}
  /\ LockFree
  /\ Removed(u)
  /\ Move(u, "supervisor", IF at[u].supervisor = "cleaning" THEN "ok" ELSE "failed")
  /\ UNCHANGED <<sent, workspaces, sessions, project, faults>>

Supervisor(u) == StartShell(u) \/ ReportSpawn(u) \/ WatchChild(u)

-----------------------------------------------------------------------------
(* update_coordinator.sh: the visible shell *)

StartGuardian(u) ==
  /\ at[u].shell = "starting"
  /\ MoveBoth(u, "shell", "forking", "guardian", "listening")
  /\ UNCHANGED <<sent, snapshot, workspaces, sessions, project, faults>>

ForkBody(u) ==
  /\ at[u].shell = "forking"
  /\ MoveBoth(u, "shell", "arming", "body", "forked")
  /\ UNCHANGED <<sent, snapshot, workspaces, sessions, project, faults>>

\* Mutant: the shell waits for "armed" without noticing the guardian's end.
AwaitArmedForever(u) ==
  /\ at[u].shell = "arming"
  /\ "armed" \in sent[u]
  /\ Move(u, "shell", "waiting")
  /\ UNCHANGED <<sent, snapshot, workspaces, sessions, project, faults>>

\* A guardian that ends without "armed": the shell kills the body's group.
AwaitArmed(u) ==
  /\ at[u].shell = "arming"
  /\ \/ "armed" \in sent[u] /\ Move(u, "shell", "waiting")
     \/ /\ "armed" \notin sent[u] /\ Over(u, "guardian")
        /\ at' = [at EXCEPT ![u] = Killed(u, {"shell", "body", "main"})]
  /\ UNCHANGED <<sent, snapshot, workspaces, sessions, project, faults>>

AwaitBody(u) ==
  /\ at[u].shell = "waiting"
  /\ Over(u, "body")
  /\ Move(u, "shell", "draining")
  /\ UNCHANGED <<sent, snapshot, workspaces, sessions, project, faults>>

\* Mutant: the status that wait returned is lost.
LostStatus(u) == IF Over(u, "body") THEN "ok" ELSE "failed"

BodyStatus(u) == IF at[u].body = "ok" THEN "ok" ELSE "failed"

AwaitGuardian(u) ==
  /\ at[u].shell = "draining"
  /\ Over(u, "guardian")
  /\ Move(u, "shell", BodyStatus(u))
  /\ UNCHANGED <<sent, snapshot, workspaces, sessions, project, faults>>

Shell(u) ==
  StartGuardian(u) \/ ForkBody(u) \/ AwaitArmed(u) \/ AwaitBody(u) \/ AwaitGuardian(u)

-----------------------------------------------------------------------------
(* update_coordinator.sh: the guardian *)

\* Nobody is left who could write to the guardian: the shell closes its end
\* when it has read "armed".
Hushed(u) ==
  /\ ~Alive(u, "body")
  /\ at[u].shell \notin {"starting", "forking", "arming"}

\* The first read_control.  The process identity goes before the launcher's
\* end of file; USR1 starts the body unless the launcher has died.
Listen(u) ==
  /\ at[u].guardian = "listening"
  /\ \/ /\ "pid" \in sent[u] /\ ~Alive(u, "body")
        /\ Move(u, "guardian", "ok") /\ Send(u, "armed")
     \/ /\ "pid" \in sent[u] /\ Alive(u, "body") /\ ~LauncherGone(u)
        /\ MoveBoth(u, "guardian", "guarding", "body", "running")
        /\ Send(u, "armed")
     \/ /\ "pid" \in sent[u] /\ Alive(u, "body") /\ LauncherGone(u)
        /\ Move(u, "guardian", "killing") /\ UNCHANGED sent
     \/ /\ "pid" \notin sent[u] /\ (LauncherGone(u) \/ Hushed(u))
        /\ Move(u, "guardian", "leaving") /\ UNCHANGED sent
  /\ UNCHANGED <<snapshot, workspaces, sessions, project, faults>>

\* The interpreter of a guardian that has decided to exit still ends.
Leave(u) ==
  /\ at[u].guardian = "leaving"
  /\ Move(u, "guardian", "ok")
  /\ UNCHANGED <<sent, snapshot, workspaces, sessions, project, faults>>

\* The second read_control.
Guard(u) ==
  /\ at[u].guardian = "guarding"
  /\ \/ "complete" \in sent[u] /\ Move(u, "guardian", "draining")
     \/ /\ "complete" \notin sent[u] /\ (LauncherGone(u) \/ Hushed(u))
        /\ Move(u, "guardian", "killing")
  /\ UNCHANGED <<sent, snapshot, workspaces, sessions, project, faults>>

\* The other members of the group are ended, then the guardian itself.
Drain(u) ==
  /\ at[u].guardian = "draining"
  /\ at' = [at EXCEPT ![u] = [Killed(u, {"main"}) EXCEPT !.guardian = "ok"]]
  /\ Send(u, "drained")
  /\ UNCHANGED <<snapshot, workspaces, sessions, project, faults>>

\* SIGTERM lets the EXIT trap remove the workspace, SIGKILL does not.
KillGroup(u) ==
  /\ at[u].guardian = "killing"
  /\ Alive(u, "body") \/ Alive(u, "main")
  /\ at' = [at EXCEPT ![u] = Killed(u, {"body", "main"})]
  /\ \/ UNCHANGED workspaces
     \/ Alive(u, "main") /\ workspaces' = workspaces \ {u}
  /\ UNCHANGED <<sent, snapshot, sessions, project, faults>>

\* Mutant: the guardian waits for the leader of the group only.
LeaderGone(u) == ~Alive(u, "body")

GroupGone(u) == ~Alive(u, "body") /\ ~Alive(u, "main")

Release(u) ==
  /\ at[u].guardian = "killing"
  /\ GroupGone(u)
  /\ Move(u, "guardian", "ok")
  /\ UNCHANGED <<sent, snapshot, workspaces, sessions, project, faults>>

Guardian(u) == Listen(u) \/ Leave(u) \/ Guard(u) \/ Drain(u) \/ KillGroup(u) \/ Release(u)

-----------------------------------------------------------------------------
(* update_coordinator.sh: the leader of the body's process group *)

\* Writing to a guardian that is gone raises SIGPIPE.
PublishPid(u) ==
  /\ at[u].body = "forked"
  /\ \/ Alive(u, "guardian") /\ Move(u, "body", "waiting") /\ Send(u, "pid")
     \/ ~Alive(u, "guardian") /\ Move(u, "body", "failed") /\ UNCHANGED sent
  /\ UNCHANGED <<snapshot, workspaces, sessions, project, faults>>

RunMain(u) ==
  /\ at[u].body = "running"
  /\ \/ at[u].main = "none" /\ Move(u, "main", "checking")
     \/ Over(u, "main") /\ Move(u, "body", "reporting")
  /\ UNCHANGED <<sent, snapshot, workspaces, sessions, project, faults>>

ReportCompletion(u) ==
  /\ at[u].body = "reporting"
  /\ \/ Alive(u, "guardian") /\ Move(u, "body", "ending") /\ Send(u, "complete")
     \/ ~Alive(u, "guardian") /\ Move(u, "body", "failed") /\ UNCHANGED sent
  /\ UNCHANGED <<snapshot, workspaces, sessions, project, faults>>

AwaitDrained(u) ==
  /\ at[u].body = "ending"
  /\ \/ "drained" \in sent[u]
        /\ Move(u, "body", IF at[u].main = "ok" THEN "ok" ELSE "failed")
     \/ "drained" \notin sent[u] /\ Over(u, "guardian") /\ Move(u, "body", "failed")
  /\ UNCHANGED <<sent, snapshot, workspaces, sessions, project, faults>>

Body(u) == PublishPid(u) \/ RunMain(u) \/ ReportCompletion(u) \/ AwaitDrained(u)

-----------------------------------------------------------------------------
(* update_coordinator.sh: _update_main *)

\* The EXIT trap of _update_main on its way out.
Tidy(u) == workspaces' = workspaces \ {u}
Refuse(u) == Move(u, "main", "failed") /\ Tidy(u)

\* Read-only validation of the target before anything is assembled.
ManifestStands == project.flaw # "manifest"
StateStands == project.flaw # "state"

\* The registry must have exactly the keys that setup wrote; the first
\* lifecycle command of the pipeline that writes it adds one.
RegistryKeys ==
  {"kind", "registry_version", "active", "pending", "retired", "receipt_fingerprints"}
    \cup IF project.recorded THEN {"active_dataset_release_pairs"} ELSE {}
RegistryStands ==
  /\ project.flaw # "registry"
  /\ RegistryKeys = {"kind", "registry_version", "active", "pending", "retired",
                     "receipt_fingerprints"}

\* Workspaces of killed updates are swept before the checks.
Check(u) ==
  /\ at[u].main = "checking"
  /\ workspaces' = {}
  /\ Move(u, "main", IF ManifestStands /\ StateStands
                       THEN IF RegistryStands THEN "assembling"
                            ELSE IF project.flaw = "registry" THEN "failed" ELSE "refusing"
                       ELSE "failed")
  /\ UNCHANGED <<sent, snapshot, sessions, project, faults>>

RefuseRegistry(u) ==
  /\ at[u].main = "refusing"
  /\ Refuse(u)
  /\ UNCHANGED <<sent, snapshot, sessions, project, faults>>

\* setup.sh builds a fresh project in the workspace, or fails.
Assemble(u) ==
  /\ at[u].main = "assembling"
  /\ \/ workspaces' = workspaces \cup {u} /\ Move(u, "main", "verifying")
     \/ Refuse(u)
  /\ UNCHANGED <<sent, snapshot, sessions, project, faults>>

\* Validated with the fresh assembly at hand: the fields of the state, the
\* receipts of the registry, the recorded list of managed paths.
InventoryStands == project.flaw # "inventory"
ReceiptsStand == project.flaw # "receipts"
OwnershipStands == project.flaw # "ownership"

Verify(u) ==
  /\ at[u].main = "verifying"
  /\ \/ /\ InventoryStands /\ ReceiptsStand /\ OwnershipStands
        /\ Move(u, "main", "marking") /\ UNCHANGED workspaces
     \/ ~(InventoryStands /\ ReceiptsStand /\ OwnershipStands) /\ Refuse(u)
  /\ UNCHANGED <<sent, snapshot, sessions, project, faults>>

\* One step of main that writes the project.
Write(u, from, to, after) ==
  /\ at[u].main = from
  /\ project' = after
  /\ Move(u, "main", to)
  /\ UNCHANGED <<sent, snapshot, workspaces, sessions, faults>>

PublishMarker(u) ==
  Write(u, "marking", "replacing", [project EXCEPT !.marker = TRUE])
ReplaceInfrastructure(u) ==
  Write(u, "replacing", "sweeping", [project EXCEPT !.infra = "mixed", !.synced = FALSE])
SweepStale(u) ==
  Write(u, "sweeping", "merging", [project EXCEPT !.infra = "new"])

\* A transfer that the launcher never completed is refused as truncated.
MergeEnvironment(u) ==
  /\ at[u].main = "merging"
  /\ \/ "dotenv" \in sent[u] /\ Move(u, "main", "reopening") /\ UNCHANGED workspaces
     \/ "dotenv" \notin sent[u] /\ Over(u, "launcher") /\ Refuse(u)
  /\ UNCHANGED <<sent, snapshot, sessions, project, faults>>

ReopenPaper(u) ==
  Write(u, "reopening", "recording",
        [project EXCEPT !.paper = IF @ = "stale" THEN "open" ELSE @])
RecordManifest(u) ==
  Write(u, "recording", "syncing", [project EXCEPT !.manifest = "new"])
\* Mutant: the barrier before the marker disappears is missing.
SkipSync(u) == Write(u, "syncing", "unmarking", project)
Sync(u) ==
  Write(u, "syncing", "unmarking", [project EXCEPT !.synced = TRUE])
Unmark(u) ==
  Write(u, "unmarking", "tidying", [project EXCEPT !.marker = FALSE])

Finish(u) ==
  /\ at[u].main = "tidying"
  /\ Tidy(u)
  /\ Move(u, "main", "ok")
  /\ UNCHANGED <<sent, snapshot, sessions, project, faults>>

Main(u) ==
  \/ Check(u) \/ RefuseRegistry(u) \/ Assemble(u) \/ Verify(u) \/ PublishMarker(u)
  \/ ReplaceInfrastructure(u) \/ SweepStale(u) \/ MergeEnvironment(u) \/ ReopenPaper(u)
  \/ RecordManifest(u) \/ Sync(u) \/ Unmark(u) \/ Finish(u)

-----------------------------------------------------------------------------
(* launch.sh sessions, which take LOCK_SH and honour the marker *)

BarrierLifted == ~project.marker

StartSession(s) ==
  /\ s \notin sessions
  /\ \A u \in Updates : ~Locked(u)
  /\ BarrierLifted
  /\ sessions' = sessions \cup {s}
  /\ UNCHANGED <<at, sent, snapshot, workspaces, project, faults>>

EndSession(s) ==
  /\ s \in sessions
  /\ sessions' = sessions \ {s}
  /\ UNCHANGED <<at, sent, snapshot, workspaces, project, faults>>

\* What a session does to what the updater reads: it records a result,
\* completes the run with an audited paper, or breaks a control.  Bound: one
\* of these between two updates that succeed.
Pristine == ~project.recorded /\ project.flaw = "none" /\ project.paper = "open"
WorkInSession ==
  /\ sessions # {}
  /\ Pristine
  /\ \/ project' = [project EXCEPT !.recorded = TRUE]
     \/ project' = [project EXCEPT !.paper = "audited"]
     \/ \E c \in Breakable : project' = [project EXCEPT !.flaw = c]
  /\ UNCHANGED <<at, sent, snapshot, workspaces, sessions, faults>>

\* A complete paper changes while nothing runs.
EditPaper ==
  /\ LockFree /\ project.paper = "audited"
  /\ project' = [project EXCEPT !.paper = "stale"]
  /\ UNCHANGED <<at, sent, snapshot, workspaces, sessions, faults>>

-----------------------------------------------------------------------------
(* Faults *)

Fault == faults < MaxFaults /\ faults' = faults + 1

\* SIGKILL or the OOM killer.
Kill(u, p) ==
  /\ Fault
  /\ Alive(u, p)
  /\ Move(u, p, "failed")
  /\ UNCHANGED <<sent, snapshot, workspaces, sessions, project>>

\* The error exits of the guardian: the members of the group cannot be listed,
\* or some of them outlive SIGKILL by 5 s (a call the kernel does not break
\* off).  The lock goes with it, and "drained" is not sent.  The third exit, a
\* body without a group of its own, needs a setpgid that fails twice: left out.
GiveUp(u) ==
  /\ Fault
  /\ \/ at[u].guardian = "draining"
     \/ at[u].guardian = "killing" /\ ~GroupGone(u)
  /\ Move(u, "guardian", "failed")
  /\ UNCHANGED <<sent, snapshot, workspaces, sessions, project>>

OwnerInterrupted(place) ==
  CASE place \in {"creating", "acking", "handed", "removing"} -> "failed"
    [] place = "guarding" -> "removing"
    [] OTHER -> place
SupervisorInterrupted(place) ==
  CASE place = "starting" -> "failed"
    [] place \in {"reporting", "watching", "cleaning"} -> "abandoning"
    [] OTHER -> place

\* ^C reaches the foreground group: the guardian has left the session and
\* the body has a group of its own.
Interrupt(u) ==
  /\ Fault
  /\ Alive(u, "launcher")
  /\ at' = [at EXCEPT ![u] = [Killed(u, {"launcher", "shell"}) EXCEPT
       !.owner = OwnerInterrupted(at[u].owner),
       !.supervisor = SupervisorInterrupted(at[u].supervisor)]]
  /\ UNCHANGED <<sent, snapshot, workspaces, sessions, project>>

\* The machine stops: what was not forced to disk may be of either age.
PowerLoss ==
  /\ Fault
  /\ at' = [u \in Updates |-> Killed(u, Processes)]
  /\ snapshot' = [u \in Updates |-> IF snapshot[u] = "present" THEN "left" ELSE snapshot[u]]
  /\ sessions' = {}
  /\ IF project.synced THEN UNCHANGED project
     ELSE \E i \in {"old", "mixed", "new"} : project' = [project EXCEPT !.infra = i]
  /\ UNCHANGED <<sent, workspaces>>

Next ==
  \/ \E u \in Updates :
       \/ Begin(u) \/ Launcher(u) \/ Owner(u) \/ OwnerRemoves(u) \/ Supervisor(u)
       \/ SupervisorRemoves(u) \/ Shell(u) \/ Guardian(u) \/ Body(u) \/ Main(u)
       \/ Interrupt(u) \/ GiveUp(u) \/ \E p \in Processes : Kill(u, p)
  \/ \E s \in Sessions : StartSession(s) \/ EndSession(s)
  \/ WorkInSession \/ EditPaper \/ PowerLoss

Spec == Init /\ [][Next]_vars

\* Every process that can take a step takes it; sessions end; a removal that
\* is possible again and again, between sessions and updates, happens.
FairSpec ==
  /\ Spec
  /\ \A u \in Updates :
       /\ WF_vars(Launcher(u)) /\ WF_vars(Owner(u)) /\ WF_vars(Supervisor(u))
       /\ WF_vars(Shell(u)) /\ WF_vars(Guardian(u)) /\ WF_vars(Body(u)) /\ WF_vars(Main(u))
       /\ SF_vars(OwnerRemoves(u)) /\ SF_vars(SupervisorRemoves(u))
  /\ \A s \in Sessions : WF_vars(EndSession(s))

-----------------------------------------------------------------------------
(* Properties *)

Writing(u) ==
  at[u].main \in {"replacing", "sweeping", "merging", "reopening", "recording",
                  "syncing", "unmarking"}

\* No updater writer outlives the project lock, whoever is killed or
\* interrupted: while main may write, its own shell or guardian holds the
\* lock, no session runs and no other update writes.
NoWriterOutlivesLock ==
  \A u \in Updates : Writing(u) =>
    /\ Locked(u)
    /\ sessions = {}
    /\ \A v \in Updates \ {u} : ~Writing(v)

\* The refresh executes the coordinator and copies the template from the
\* private snapshot: nobody removes it while main runs.
SnapshotOutlivesMain ==
  \A u \in Updates : Alive(u, "main") => snapshot[u] = "present"

\* A session never runs on infrastructure of two ages: an update that was
\* killed, or lost to a power failure, leaves the marker that keeps sessions
\* out until an update succeeds.
SessionSeesWhole ==
  sessions # {} => project.infra # "mixed"

\* What update.sh reports: the shell ends well only with the refresh whole,
\* durable and unmarked and no complete paper left with stale evidence, and
\* the launcher ends well only when the shell did and the snapshot is gone.
SuccessMeansRefreshed ==
  [][\A u \in Updates :
       /\ at[u].shell # "ok" /\ at'[u].shell = "ok" =>
            /\ project.infra = "new" /\ project.manifest = "new"
            /\ project.synced /\ ~project.marker /\ project.paper # "stale"
            /\ u \notin workspaces
       /\ at[u].launcher # "ok" /\ at'[u].launcher = "ok" =>
            at[u].shell = "ok" /\ snapshot[u] = "absent"]_vars

\* The body died before it had written its identity: the guardian listens for
\* it, the shell keeps the guardian's pipe open and waits for "armed", and both
\* hold the lock until the operator interrupts the launcher.
Unannounced(u) ==
  /\ Over(u, "body") /\ "pid" \notin sent[u] /\ ~LauncherGone(u)
  /\ at[u].shell = "arming" /\ at[u].guardian = "listening"

\* Nobody is left who would remove the snapshot: the owner has died, and so has
\* its supervisor, or the launcher ended before it had started one.
Orphaned(u) ==
  /\ at[u].owner = "failed" /\ Over(u, "launcher")
  /\ at[u].supervisor \in {"none", "failed"}

\* The snapshot, which may be read by whoever reads /tmp, is removed in the
\* end: owner and supervisor hand it over so that neither a killed process nor
\* an interrupt leaves it behind, unless the owner dies while there is no
\* supervisor, or both of them do, and as long as the update does not hang.
SnapshotRemoved ==
  \A u \in Updates :
    snapshot[u] = "present" ~> (snapshot[u] # "present" \/ Orphaned(u) \/ Unannounced(u))

\* The project is not locked for ever: the guardian ends the body and then
\* itself when launcher, supervisor or shell are gone, and the shell ends when
\* the guardian has; only the death of an unannounced body is noticed by nobody.
LockReleased ==
  \A u \in Updates : Locked(u) ~> (~Locked(u) \/ Unannounced(u))

\* "Update requires the complete same-version registry": the registry that
\* the pipeline's own commands write is one.
RegistryAccepted ==
  \A u \in Updates : at[u].main # "refusing"

\* "the guardian retains the lock, terminates the body's private process
\* group, and waits for it to drain": the body's group leader ends.
BodyEnds ==
  \A u \in Updates : Alive(u, "body") ~> ~Alive(u, "body")
=============================================================================
