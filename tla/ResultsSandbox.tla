---------------------------- MODULE ResultsSandbox ----------------------------
(* One trusted execution of results_pipeline.py (command_run): the runner     *)
(* records its declared sources, stages them in a fresh directory of the      *)
(* host's temporary tree, has a supervisor run the command there, compares,   *)
(* publishes, and takes the directory away.  Three processes share two        *)
(* pipes: the supervisor watches the runner's end of the first, the guardian  *)
(* the second, whose write end the supervisor has inherited too.  Beside them *)
(* an editor writes the sources in place or renames new files over them.      *)
(* What the transaction does with the published files is the subject of       *)
(* ResultsTransaction.                                                        *)
EXTENDS Naturals, FiniteSets

CONSTANTS
    Files,          \* declared sources that are regular files
    Trees,          \* declared sources that are directories
    Contents,       \* what a source or the runtime may hold
    Events          \* bound: writes, renames, upgrades, kills and Control-Cs

Nothing == "nothing"
Parts == {"launcher", "venv", "manifests"}      \* of the runtime environment
Sandboxes == {"bwrap", "sandbox-exec"}          \* Linux, macOS
Processes == {"runner", "supervisor", "guardian"}

ASSUME SandboxAssumption ==
    Files \cap Trees = {} /\ Contents # {} /\ Nothing \notin Contents /\ Events \in Nat

VARIABLES
    runner,         \* where command_run is
    supervisor,     \* where the child forked by supervised_command is
    guardian,       \* where the child forked by workspace_cleanup_guard is
    command,        \* the sandboxed command
    verdict,        \* the supervisor's exit status
    workspace,      \* the results-workspace- directory exists
    marker,         \* the byte that tells the guardian there is nothing to do
    pipe,           \* the runner still holds the supervisor's pipe
    live,           \* the content at each source's path
    recorded,       \* the fingerprints taken before the run
    staged,         \* how a source got into the workspace, and what it holds
    lease,          \* the kernel's read lease on a bound source
    writer,         \* the write that waits for a lease
    flagged,        \* _SOURCE_LEASE_BROKEN
    runtime,        \* what each part of the runtime environment holds
    captured,       \* capture_execution_environment before the run
    used,           \* ghost: what the command may have read of each source
    ran,            \* ghost: the runtimes it ran in
    outcome,        \* the lifecycle transaction of this run
    edits,          \* writes, renames and upgrades so far
    sandbox,        \* what the command runs in
    struck,         \* the processes with a SIGINT to handle
    faults          \* what has struck so far: a Control-C, and who was killed

processes == <<runner, supervisor, guardian, command, verdict, workspace, marker, pipe>>
sources == <<live, recorded, staged, lease, writer, flagged, runtime, captured>>
setting == <<used, ran, outcome, edits, sandbox, struck, faults>>
vars == <<processes, sources, setting>>

Sources == Files \cup Trees
Before == CHOOSE c \in Contents : TRUE     \* contents are only compared over time
Gone == {"ended", "dead"}
Unstaged == [how |-> "no", holds |-> Nothing, same |-> TRUE]
Bound(s) == staged[s].how = "bound"

Init ==
    /\ runner = "record" /\ supervisor = "none" /\ guardian = "none"
    /\ command = "none" /\ verdict = "none" /\ workspace = FALSE
    /\ marker = FALSE /\ pipe = FALSE
    /\ live = [s \in Sources |-> Before] /\ runtime = [p \in Parts |-> Before]
    /\ recorded = [s \in Sources |-> Nothing] /\ captured = [p \in Parts |-> Nothing]
    /\ staged = [s \in Sources |-> Unstaged]
    /\ lease = [s \in Sources |-> "none"]
    /\ writer = [s \in Sources |-> Nothing]
    /\ flagged = FALSE
    /\ used = [s \in Sources |-> {}] /\ ran = [p \in Parts |-> {}]
    /\ outcome = "none"
    /\ edits = 0 /\ sandbox \in Sandboxes /\ struck = {} /\ faults = {}

-----------------------------------------------------------------------------
(* The runner before the command *)

RunnerAt(here, there) == runner = here /\ runner' = there

(* fingerprint() of each declared source. *)
Record(s) ==
    /\ runner = "record" /\ recorded[s] = Nothing
    /\ recorded' = [recorded EXCEPT ![s] = live[s]]
    /\ UNCHANGED <<processes, live, staged, lease, writer, flagged, runtime, captured, setting>>

(* capture_execution_environment reads one part after the other.              *)
Capture(part, next) ==
    /\ RunnerAt(part, next) /\ captured' = [captured EXCEPT ![part] = runtime[part]]
    /\ UNCHANGED <<supervisor, guardian, command, verdict, workspace, marker, pipe,
                   live, recorded, staged, lease, writer, flagged, runtime, setting>>

Recorded ==
    /\ \A s \in Sources : recorded[s] # Nothing
    /\ RunnerAt("record", "launcher")
    /\ UNCHANGED <<supervisor, guardian, command, verdict, workspace, marker, pipe,
                   sources, setting>>

CaptureLauncher == Capture("launcher", "venv")
CaptureVenv == Capture("venv", "manifests")
CaptureManifests == Capture("manifests", "make")

(* The directory is there before anyone watches over it. *)
MakeWorkspace ==
    /\ RunnerAt("make", "made") /\ workspace' = TRUE /\ flagged' = FALSE
    /\ UNCHANGED <<supervisor, guardian, command, verdict, marker, pipe, live, recorded,
                   staged, lease, writer, runtime, captured, setting>>

ForkGuardian ==
    /\ RunnerAt("made", "stage") /\ guardian' = "read"
    /\ UNCHANGED <<supervisor, command, verdict, workspace, marker, pipe, sources, setting>>

(* A regular file is pinned by descriptor and lease if bubblewrap can bind    *)
(* it; a directory, and a file whose lease is refused (a writer has it open,  *)
(* the filesystem has none), is copied.                                       *)
CopyOf(s) == [how |-> "copied", holds |-> live[s], same |-> TRUE]
PinOf(s) == [how |-> "bound", holds |-> live[s], same |-> TRUE]

Stage(s) ==
    /\ runner = "stage" /\ staged[s].how = "no"
    /\ \/ staged' = [staged EXCEPT ![s] = CopyOf(s)] /\ UNCHANGED lease
       \/ /\ s \in Files /\ sandbox = "bwrap" /\ staged' = [staged EXCEPT ![s] = PinOf(s)]
          /\ lease' = [lease EXCEPT ![s] = "held"]
    /\ UNCHANGED <<processes, live, recorded, writer, flagged, runtime, captured, setting>>

(* Each pinned descriptor must still be the file at its path.                 *)
PathsKept == \A s \in Sources : staged[s].same

(* execute(): validate, then fork the supervisor.                             *)
Launch ==
    /\ \A s \in Sources : staged[s].how # "no"
    /\ IF PathsKept
       THEN RunnerAt("stage", "wait") /\ supervisor' = "start" /\ pipe' = TRUE
       ELSE RunnerAt("stage", "wipe") /\ UNCHANGED <<supervisor, pipe>>
    /\ UNCHANGED <<guardian, command, verdict, workspace, marker, sources, setting>>

-----------------------------------------------------------------------------
(* The supervisor and the command *)

StartCommand ==
    /\ supervisor = "start" /\ supervisor' = "watch" /\ command' = "running"
    /\ used' = [s \in Sources |-> {staged[s].holds}] /\ ran' = [p \in Parts |-> {runtime[p]}]
    /\ UNCHANGED <<runner, guardian, verdict, workspace, marker, pipe, sources,
                   outcome, edits, sandbox, struck, faults>>

CommandEnds ==
    /\ command = "running" /\ command' \in {"good", "bad"}
    /\ UNCHANGED <<runner, supervisor, guardian, verdict, workspace, marker, pipe, sources, setting>>

Report ==
    /\ supervisor = "watch" /\ command \in {"good", "bad"}
    /\ supervisor' = "done" /\ verdict' = command
    /\ UNCHANGED <<runner, guardian, command, workspace, marker, pipe, sources, setting>>

(* Mutant of KillCommand: the launcher dies, its process group lives on. *)
KillsLauncherOnly ==
    /\ supervisor = "watch" /\ ~pipe /\ supervisor' = "wipe"
    /\ UNCHANGED <<runner, guardian, command, verdict, workspace, marker, pipe, sources, setting>>

(* The runner's end of the pipe is closed: kill the command's process group,  *)
(* then take the workspace away.                                              *)
KillCommand ==
    /\ supervisor = "watch" /\ ~pipe
    /\ command' = IF command = "running" THEN "killed" ELSE command
    /\ supervisor' = "wipe"
    /\ UNCHANGED <<runner, guardian, verdict, workspace, marker, pipe, sources, setting>>

-----------------------------------------------------------------------------
(* remove_abandoned_workspace, by whichever process calls it.  It is not one  *)
(* step: another remover, or a command that still writes, makes it raise.     *)

Disturbed(others) == command = "running" \/ "wiping" \in others

WipeEnds(others, done, raised) ==
    \/ workspace /\ workspace' = FALSE /\ done
    \/ (~workspace \/ Disturbed(others)) /\ raised /\ UNCHANGED workspace

SupervisorWipes ==
    /\ \/ /\ supervisor = "wipe"
          /\ supervisor' = IF workspace THEN "wiping" ELSE "done"
          /\ UNCHANGED workspace
       \/ supervisor = "wiping"
          /\ WipeEnds({runner, guardian}, supervisor' = "done", supervisor' = "done")
    /\ verdict' = "stopped"
    /\ UNCHANGED <<runner, guardian, command, marker, pipe, sources, setting>>

(* The guardian reads the marker, or end of file when every holder of the     *)
(* write end, the inheriting supervisor among them, has gone.                 *)
GuardianReads ==
    /\ guardian = "read"
    /\ \/ marker /\ guardian' = "done"
       \/ ~marker /\ runner \in {"join"} \cup Gone
          /\ supervisor \in {"none", "done", "dead"} /\ guardian' = "wipe"
    /\ UNCHANGED <<runner, supervisor, command, verdict, workspace, marker, pipe, sources, setting>>

GuardianWipes ==
    /\ \/ /\ guardian = "wipe"
          /\ guardian' = IF workspace THEN "wiping" ELSE "done"
          /\ UNCHANGED workspace
       \/ guardian = "wiping"
          /\ WipeEnds({runner, supervisor}, guardian' = "done", guardian' = "wipe")
    /\ UNCHANGED <<runner, supervisor, command, verdict, marker, pipe, sources, setting>>

-----------------------------------------------------------------------------
(* The runner after the command *)

(* The wait polls the lease flag; closing the pipe has the command killed.    *)
NoticeBrokenLease ==
    /\ runner = "wait" /\ pipe /\ flagged /\ \E s \in Sources : Bound(s)
    /\ pipe' = FALSE
    /\ UNCHANGED <<runner, supervisor, guardian, command, verdict, workspace, marker,
                   sources, setting>>

WaitEnds ==
    /\ supervisor \in {"done", "dead"} /\ RunnerAt("wait", "check") /\ pipe' = FALSE
    /\ UNCHANGED <<supervisor, guardian, command, verdict, workspace, marker, sources, setting>>

(* Mutant of LeasesIntact: only what still waits counts as a broken lease. *)
NobodyWaits == \A s \in Sources : Bound(s) => lease[s] # "breaking"

LeasesIntact == ~flagged /\ \A s \in Sources : Bound(s) => lease[s] = "held"

(* A gate of the runner: on to the next step, or an exception that unwinds.   *)
Gate(here, holds, there) ==
    /\ runner = here /\ runner' = IF holds THEN there ELSE "wipe"
    /\ UNCHANGED <<supervisor, guardian, command, verdict, workspace, marker, pipe, sources>>

CheckRun == Gate("check", LeasesIntact /\ verdict = "good", "same launcher") /\ UNCHANGED setting

(* The second capture; a part that differs fails the comparison of the two.   *)
Recapture(here, part, there) == Gate(here, runtime[part] = captured[part], there) /\ UNCHANGED setting

CheckRuntime ==
    \/ Recapture("same launcher", "launcher", "same venv")
    \/ Recapture("same venv", "venv", "same manifests")
    \/ Recapture("same manifests", "manifests", "compare")

(* compare_isolated_sources: what was bound is compared at its live path,     *)
(* what was copied in the workspace.                                          *)
CompareSources ==
    /\ Gate("compare",
            \A s \in Sources :
               recorded[s] = IF Bound(s) THEN live[s] ELSE staged[s].holds,
            "precommit")
    /\ UNCHANGED setting

Precommit == Gate("precommit", recorded = live, "publish") /\ UNCHANGED setting

Publish ==
    /\ Gate("publish", TRUE, "settle") /\ outcome' = "prepared"
    /\ UNCHANGED <<used, ran, edits, sandbox, struck, faults>>

Settle ==
    /\ Gate("settle", LeasesIntact, "commit")
    /\ outcome' = IF LeasesIntact THEN outcome ELSE "none"
    /\ UNCHANGED <<used, ran, edits, sandbox, struck, faults>>

Commit ==
    /\ Gate("commit", FALSE, "commit") /\ outcome' = "committed"
    /\ UNCHANGED <<used, ran, edits, sandbox, struck, faults>>

RunnerWipes ==
    /\ \/ /\ runner = "wipe"
          /\ runner' = IF workspace THEN "wiping" ELSE "unlease"
          /\ UNCHANGED workspace
       \/ runner = "wiping"
          /\ WipeEnds({supervisor, guardian}, runner' = "unlease", runner' = "unlease")
    /\ UNCHANGED <<supervisor, guardian, command, verdict, marker, pipe, sources, setting>>

(* What waits for a lease happens when the lease goes.                        *)
LeasesGo ==
    /\ live' = [s \in Sources |-> IF writer[s] # Nothing THEN writer[s] ELSE live[s]]
    /\ writer' = [s \in Sources |-> Nothing]
    /\ lease' = [s \in Sources |-> "none"]
    /\ flagged' = FALSE
    /\ UNCHANGED <<recorded, staged, runtime, captured, setting>>

ReleaseLeases ==
    /\ RunnerAt("unlease", "mark") /\ LeasesGo
    /\ UNCHANGED <<supervisor, guardian, command, verdict, workspace, marker, pipe>>

(* Mutant of Mark: the marker says that the context closed, not how. *)
MarksAlways ==
    /\ RunnerAt("mark", "join") /\ marker' = TRUE
    /\ UNCHANGED <<supervisor, guardian, command, verdict, workspace, pipe, sources, setting>>

(* The end of workspace_cleanup_guard: the marker only if nothing is left.    *)
Mark ==
    /\ RunnerAt("mark", "join") /\ marker' = ~workspace
    /\ UNCHANGED <<supervisor, guardian, command, verdict, workspace, pipe, sources, setting>>

Join ==
    /\ guardian \in {"done", "dead"} /\ RunnerAt("join", "ended")
    /\ UNCHANGED <<supervisor, guardian, command, verdict, workspace, marker, pipe,
                   sources, setting>>

-----------------------------------------------------------------------------
(* The editor: what a write or a rename does to a source, its lease and what  *)
(* the command can read.                                                      *)

Lands(s, c) ==
    /\ live' = [live EXCEPT ![s] = c]
    /\ IF Bound(s) /\ staged[s].same
       THEN /\ staged' = [staged EXCEPT ![s].holds = c]
            /\ used' = IF command = "running" THEN [used EXCEPT ![s] = @ \cup {c}] ELSE used
       ELSE UNCHANGED <<staged, used>>

MoreMayHappen == edits + Cardinality(faults) < Events

(* Nothing looks at the sources once the runner unwinds.                      *)
Edit ==
    /\ runner \notin {"wipe", "wiping", "unlease", "mark", "join"} \cup Gone
    /\ MoreMayHappen /\ edits' = edits + 1

Tracked(s) == lease[s] \in {"held", "breaking"} /\ staged[s].same

WriteInPlace(s, c) ==
    /\ Edit
    /\ \/ ~Tracked(s) /\ Lands(s, c) /\ UNCHANGED <<lease, writer, flagged>>
       \/ /\ Tracked(s) /\ lease[s] = "held"
          /\ lease' = [lease EXCEPT ![s] = "breaking"]
          /\ writer' = [writer EXCEPT ![s] = c] /\ flagged' = TRUE
          /\ UNCHANGED <<live, staged, used>>
    /\ UNCHANGED <<processes, recorded, runtime, captured, ran, outcome, sandbox,
                   struck, faults>>

(* The kernel makes a writer wait no longer than its lease-break time.        *)
LeaseTimesOut(s) ==
    /\ lease[s] = "breaking" /\ lease' = [lease EXCEPT ![s] = "broken"]
    /\ Lands(s, writer[s]) /\ writer' = [writer EXCEPT ![s] = Nothing]
    /\ UNCHANGED <<processes, recorded, flagged, runtime, captured, ran, outcome, edits,
                   sandbox, struck, faults>>

(* A new file under the old name: no lease notices.                           *)
Replace(s, c) ==
    /\ Edit
    /\ writer[s] = Nothing
    /\ live' = [live EXCEPT ![s] = c]
    /\ staged' = [staged EXCEPT ![s].same = staged[s].how # "bound"]
    /\ UNCHANGED <<processes, recorded, lease, writer, flagged, runtime, captured,
                   used, ran, outcome, sandbox, struck, faults>>

(* An upgrade of a part is not undone during the run.                         *)
Upgrade(part, c) ==
    /\ Edit /\ runtime[part] = Before /\ runtime' = [runtime EXCEPT ![part] = c]
    /\ ran' = IF command = "running" THEN [ran EXCEPT ![part] = @ \cup {c}] ELSE ran
    /\ UNCHANGED <<processes, live, recorded, staged, lease, writer, flagged, captured,
                   used, outcome, sandbox, struck, faults>>

-----------------------------------------------------------------------------
(* Faults *)

Alive(p) ==
    \/ p = "runner" /\ runner \notin Gone
    \/ p = "supervisor" /\ supervisor \in {"start", "watch", "wipe", "wiping"}
    \/ p = "guardian" /\ guardian \in {"read", "wipe", "wiping"}

(* bubblewrap is started to die with the supervisor; sandbox-exec has nothing *)
(* like it, and the command has a session of its own.                         *)
CommandOrphaned ==
    command' = IF command = "running" /\ sandbox = "bwrap" THEN "killed" ELSE command

(* Control-C: the terminal signals the whole foreground group, which is every *)
(* process but the command; each handles it when it gets to it.               *)
Interrupt ==
    /\ "interrupt" \notin faults /\ MoreMayHappen
    /\ faults' = faults \cup {"interrupt"}
    /\ struck' = {p \in Processes : Alive(p)}
    /\ UNCHANGED <<processes, sources, used, ran, outcome, edits, sandbox>>

Handles(p) == p \in struck /\ Alive(p) /\ struck' = struck \ {p}

(* KeyboardInterrupt unwinds the runner, without a wait for its supervisor,   *)
(* through what is left of its finally clauses.                               *)
RunnerInterrupted ==
    /\ Handles("runner")
    /\ \/ runner \in {"record", "make", "made"} \cup Parts
          /\ runner' = "ended" /\ UNCHANGED outcome
       \/ runner \in {"stage", "wait", "check", "same launcher", "same venv", "same manifests",
                      "compare", "precommit", "publish", "settle", "commit"}
          /\ runner' = "wipe" /\ outcome' = "none"
       \/ runner \in {"wipe", "wiping"} /\ runner' = "unlease" /\ UNCHANGED outcome
       \/ runner = "unlease" /\ runner' = "mark" /\ UNCHANGED outcome
       \/ runner \in {"mark", "join"} /\ runner' = "ended" /\ UNCHANGED outcome
    /\ pipe' = FALSE
    /\ UNCHANGED <<supervisor, guardian, command, verdict, workspace, marker, sources,
                   used, ran, edits, sandbox, faults>>

(* The supervisor exits with 253, and kills nobody.                           *)
SupervisorInterrupted ==
    /\ Handles("supervisor") /\ supervisor' = "done" /\ verdict' = "stopped" /\ CommandOrphaned
    /\ UNCHANGED <<runner, guardian, workspace, marker, pipe, sources,
                   used, ran, outcome, edits, sandbox, faults>>

(* The guardian retries a read that is interrupted, but not one that raises   *)
(* KeyboardInterrupt: it exits, whatever is left of the workspace.            *)
GuardianInterrupted ==
    /\ Handles("guardian") /\ guardian' = "done"
    /\ UNCHANGED <<runner, supervisor, command, verdict, workspace, marker, pipe, sources,
                   used, ran, outcome, edits, sandbox, faults>>

(* SIGKILL, of any process at any moment.                                     *)
Kill(p) ==
    /\ Alive(p) /\ MoreMayHappen /\ faults' = faults \cup {p}
    /\ \/ /\ p = "runner" /\ runner' = "dead" /\ pipe' = FALSE
          /\ live' = [s \in Sources |-> IF writer[s] # Nothing THEN writer[s] ELSE live[s]]
          /\ writer' = [s \in Sources |-> Nothing]
          /\ lease' = [s \in Sources |-> "none"] /\ flagged' = FALSE
          /\ UNCHANGED <<supervisor, guardian, command, verdict>>
       \/ /\ p = "supervisor" /\ supervisor' = "dead" /\ verdict' = "stopped" /\ CommandOrphaned
          /\ UNCHANGED <<runner, guardian, pipe, live, writer, lease, flagged>>
       \/ /\ p = "guardian" /\ guardian' = "dead"
          /\ UNCHANGED <<runner, supervisor, command, verdict, pipe, live, writer, lease, flagged>>
    /\ UNCHANGED <<workspace, marker, recorded, staged, runtime, captured,
                   used, ran, outcome, edits, sandbox, struck>>

-----------------------------------------------------------------------------
RunnerStep ==
    \/ \E s \in Sources : Record(s) \/ Stage(s)
    \/ Recorded \/ CaptureLauncher \/ CaptureVenv \/ CaptureManifests \/ MakeWorkspace \/ ForkGuardian \/ Launch
    \/ NoticeBrokenLease \/ WaitEnds \/ CheckRun \/ CheckRuntime \/ CompareSources
    \/ Precommit \/ Publish \/ Settle \/ Commit
    \/ RunnerWipes \/ ReleaseLeases \/ Mark \/ Join \/ RunnerInterrupted

SupervisorStep ==
    StartCommand \/ Report \/ KillCommand \/ SupervisorWipes \/ SupervisorInterrupted

GuardianStep == GuardianReads \/ GuardianWipes \/ GuardianInterrupted

Outside ==
    \/ CommandEnds
    \/ \E s \in Sources, c \in Contents : WriteInPlace(s, c) \/ Replace(s, c)
    \/ \E s \in Sources : LeaseTimesOut(s)
    \/ \E part \in Parts, c \in Contents : Upgrade(part, c)
    \/ Interrupt
    \/ \E p \in Processes : Kill(p)

Next == RunnerStep \/ SupervisorStep \/ GuardianStep \/ Outside

Spec == Init /\ [][Next]_vars

(* The operating system runs every process; it promises nothing of the        *)
(* command, the editor or the user.                                           *)
FairSpec == Spec /\ WF_vars(RunnerStep) /\ WF_vars(SupervisorStep) /\ WF_vars(GuardianStep)

-----------------------------------------------------------------------------
(* Properties *)

Wipes == {"wipe", "wiping"}

RunnerPlaces ==
    {"record", "make", "made", "stage", "wait", "check", "same launcher", "same venv",
     "same manifests", "compare", "precommit", "publish", "settle", "commit",
     "unlease", "mark", "join"} \cup {"launcher", "venv", "manifests"} \cup Wipes \cup Gone

(* Places, verdicts, sources and leases are what the three processes, the     *)
(* command and the editor make them; only files are pinned.                   *)
TypeOK ==
    /\ runner \in RunnerPlaces
    /\ supervisor \in {"none", "start", "watch", "done", "dead"} \cup Wipes
    /\ guardian \in {"none", "read", "done", "dead"} \cup Wipes
    /\ command \in {"none", "running", "good", "bad", "killed"}
    /\ verdict \in {"none", "good", "bad", "stopped"}
    /\ {workspace, marker, pipe, flagged} \subseteq BOOLEAN
    /\ live \in [Sources -> Contents]
    /\ recorded \in [Sources -> Contents \cup {Nothing}]
    /\ writer \in [Sources -> Contents \cup {Nothing}]
    /\ staged \in [Sources -> [how : {"no", "copied", "bound"},
                              holds : Contents \cup {Nothing}, same : BOOLEAN]]
    /\ lease \in [Sources -> {"none", "held", "breaking", "broken"}]
    /\ \A s \in Trees : staged[s].how # "bound" /\ lease[s] = "none"
    /\ runtime \in [Parts -> Contents]
    /\ captured \in [Parts -> Contents \cup {Nothing}]
    /\ used \in [Sources -> SUBSET (Contents \cup {Nothing})]
    /\ ran \in [Parts -> SUBSET Contents]
    /\ outcome \in {"none", "prepared", "committed"}
    /\ edits \in Nat
    /\ sandbox \in Sandboxes /\ struck \subseteq Processes
    /\ faults \subseteq {"interrupt"} \cup Processes

(* The receipt of a committed run names exactly what its command could read:  *)
(* the recorded bytes of every source, in the captured runtime, whatever was  *)
(* written to the sources meanwhile, and unless a new file took the name of a *)
(* pinned one (compare_isolated_sources, require_source_leases_intact,        *)
(* require_stable_environment).                                               *)
RecordedMeansUsed ==
    outcome = "committed" =>
        /\ \A part \in Parts : ran[part] = {captured[part]}
        /\ \A s \in Sources : staged[s].same => used[s] = {recorded[s]}

(* Pinning a file by descriptor keeps what a copy kept, "without weakening    *)
(* the declared-source boundary": a run that commits used what it recorded.   *)
BoundaryKept ==
    outcome = "committed" => \A s \in Sources : used[s] = {recorded[s]}

Struck(p) == p \in faults \/ "interrupt" \in faults

(* What the model lets go wrong: a command that nobody can kill any more, and *)
(* a workspace whose guardian is gone when the runner, too, was struck, or    *)
(* could not remove what such a command still writes.                         *)
Outlived == sandbox = "sandbox-exec" /\ Struck("supervisor")
Unwatched == Struck("guardian") /\ (Struck("runner") \/ Outlived)

(* Once the guardian is there, a workspace that still exists is somebody's to *)
(* remove, the runner's or a guardian's that has not read the marker, unless  *)
(* two processes were struck: by one kill each, or by one Control-C           *)
(* (workspace_cleanup_guard, remove_abandoned_workspace).                     *)
WorkspaceOwned ==
    workspace /\ guardian # "none" /\ ~Unwatched
        => runner \notin Gone \/ guardian \notin {"done", "dead"}

(* However the runner ends, its command stops, unless a supervisor that was   *)
(* struck leaves it behind in macOS's sandbox, and its workspace goes, unless *)
(* that command still writes there or two processes were struck.              *)
LeavesNothing ==
    runner \in Gone /\ guardian # "none"
        ~> /\ command # "running" \/ Outlived
           /\ ~workspace \/ Unwatched \/ Outlived
=============================================================================
