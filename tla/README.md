# Verification of zeropaper's run-time core

zeropaper drives language-model agents through a research pipeline.  Its agents and
prompts have no semantics to check; the programs around them do.  This directory holds
TLA+ models of those programs, the TLC configurations that check them, and proofs checked
by TLAPS.  All paths below are relative to `src/`; `EMP/` stands for
`deploy_assets/extensions/empirical/utils/`.

## 1. Inventory

| Part | Source | State it keeps | Operations | What is hard | What makes it correct | Module |
|---|---|---|---|---|---|---|
| WRDS daemon, login and session | `EMP/wrds_server.py` | retry-latch file, `auth_failed`, one database session, one lock and its owner | start, login, query, health check, recovery, approved restart, stop | threads queueing on one lock; kills and power losses between the marker, the login and its outcome; storage errors; restarts by others | WRDS counts no more failed logins than one plus the approved ones; nothing but an operator gets past a refused login; every command is answered | `WrdsDaemon` |
| WRDS daemon, start race | same file, `EMP/start_services.sh` | marker file, TCP port, guard in the cache directory of earlier releases, Unix socket, process table | acquire, scan, guard, bind, serve, clean up, stop | several starters, network namespaces, servers of earlier releases that are started under an upgrade, stale files of dead processes | at most one process of any release logs in; nobody removes the socket of a live one | `WrdsSingleton` |
| WRDS watchdog | `EMP/wrds_watchdog.py` | its own marker, launcher registrations, repair memory | probe, decide, restart, register, idle exit | idle exit against registration; two watchdogs; the repair cap | a working server is not stopped; repairs end | `WrdsWatchdog` |
| WRDS client, bridge, relay | `EMP/wrds_client.py`, `EMP/wrds_query_bridge.py`, `templates/utils/wrds_srt_service.py` | wait budgets, capability token, relay slots | query, wait, heal, unblock, relay, cut off | retries of what was already done; a latch that comes while one waits; slots at their limit | a statement is repeated only after a lost endpoint or one recovery of its session; every call ends; slots come back | `WrdsClient` |
| Results pipeline, transaction | `deploy_assets/templates/utils/results_pipeline/results_pipeline.py` | evidence files, receipts, registry, journal, backups, project lock | run, render, activate, retire, their pairs, recover | a kill between any two writes; an error in a rollback or a clean-up; files of other programs | evidence is published as a whole or not at all; what is left behind is recovered | `ResultsTransaction` |
| Results pipeline, registry and audits | same file, `analysis_contract.py` | registry lists (pending, active, retired), receipts, audit inputs and reports | run, render, activate, retire, their pairs; prepare, audit, bind, verify | long legal sequences of pairs and supersessions; audits that take hours | an active receipt is whole and current; what the paper binds was audited | `ResultsRegistry`, `PaperEvidence` |
| Results pipeline, isolated run | same file | workspace, pinned sources and leases, three processes and two pipes | record, stage, launch, compare, commit, clean up | sources edited and put back during the run; any process killed | the receipt names what the command read; nothing is left behind without a cause the module names | `ResultsSandbox` |
| Updater | `update.sh`, `scripts/update_coordinator.sh` | source snapshot, project lock, marker, manifest | snapshot, hand over, supervise, refresh, recover | who cleans up when any of seven processes dies | the snapshot is removed, and never while it is in use; no writer outlives the lock; no session runs on half a refresh | `Updater` |
| Input manifest of the headline replicator | `EMP/empirical_input_manifest.py` | candidates, results, manifests | finalize-pass, check-all | files edited during a verifier's run; publications during a check | a PASS names what a verifier ran on, or what was put back after it; a clean verdict is about one state | `VerifierManifest` |
| Data access utilities | `EMP/*_utils.py` and others | cache directories | download, read | two processes and one temporary name; responses that end early; kills | no partial file is taken for whole without a cause the module names | `DataCache` |
| Project launcher | `deploy_assets/launch.sh` | process groups, watcher, status file | turn, watch, halt, resume | death of any of three processes between two steps | no process of a turn is left behind | - |
| OpenCode driver helper | `templates/utils/opencode_driver.py` | session tree of an external server | poll, abort | the tree changes while it is walked | a busy tree is not taken for an idle one | - |
| Setup, assembly, construction guards, LLM client, agent bodies | `setup.sh`, `deploy_assets/scripts/`, ... | none over time | generate, validate | - | out of scope, see section 9 | - |

The parts meet like this.  A launcher registers with the watchdog and asks
`start_services.sh` for a daemon.  The daemon is one per host; agents reach it over a Unix
socket, or through the bridge when their sandbox refuses them sockets, by means of the
client library.  Whoever starts a daemon goes through the same latch file, so the watchdog,
the launcher and the operator meet in that file and in the marker and nowhere else.  Results
commands are processes of their own, one at a time under a lock on the project; they meet
the launcher in the journal, whose existence keeps a launch from starting.  The manifest
checker reads what they publish under the shared side of that lock.  An update holds the
exclusive lock of the project directory, of which every session holds the shared side, and
leaves a marker that keeps sessions out while the infrastructure is of two ages.

`PROJECT.json` lists the hazards one by one, at the line where they bite.

## 2. Modules

| Module | Role |
|---|---|
| `WrdsLogin` | abstract: the promise about the WRDS account (armed, attempts, approvals) |
| `WrdsDaemon` | the daemon's threads, latch, session, lock; refines `WrdsLogin` |
| `WrdsDaemonProofs` | its inductive invariant and theorems |
| `WrdsSingleton` | several starters, the marker, scans, port, guard, sockets, clean-up, servers of an earlier release |
| `WrdsSingletonProofs` | its inductive invariant and theorems |
| `WrdsWatchdog` | the watchdog's loop: probe, decision, repair, beside servers, launchers, operators |
| `WrdsWatchdogProofs` | its inductive invariant and theorems |
| `WrdsClient` | the client library and the bridge, before a daemon of which only answers are kept |
| `ResultsPublication` | abstract: evidence published in single steps |
| `ResultsTransaction` | journal, backups, publication, rollback, recovery; refines `ResultsPublication` |
| `ResultsTransactionProofs` | its inductive invariant and theorems, and the proof that it implements `ResultsPublication` |
| `ResultsRegistry` | which receipts may be run, rendered, activated, retired, alone and in pairs |
| `PaperEvidence` | extends it: the paper gate with two auditors |
| `ResultsRegistryProofs` | lemmas on `Closure`; the inductive invariants and theorems of both |
| `ResultsSandbox` | one isolated run: three processes, pinned sources, clean-up |
| `ResultsSandboxProofs` | its inductive invariant and theorems |
| `Updater` | one update after another: seven processes each, a lock, a marker, sessions |
| `UpdaterProofs` | its inductive invariants and theorems |
| `VerifierManifest` | finalize-pass and check-all beside the pipeline and the agents |
| `DataCache` | what the download helpers leave at a cache's name |
| `EmpiricalProofs` | the inductive invariants and theorems of `VerifierManifest`, `DataCache` and `WrdsClient` |
| `MC...` | instances for TLC, one `.cfg` per run |

Every command of the results pipeline is one step in `ResultsRegistry`, `PaperEvidence` and
`VerifierManifest` (there, two for a publication); that it may be taken for one is what
`ResultsTransaction` shows, of which `PublicationAtomic` is the precise statement.
`WrdsClient` likewise takes from the other WRDS modules only what a client can see: a
server that starts, serves, logs in, has latched, is wedged or gone.

### WrdsDaemon

`pc` places each handler thread in `run`, `healthcheck` or `_recover`, and the
main thread in `main`; an action stands for the code between two points where another
thread, a kill or a failure can be seen.  `latch` is `AUTH_BLOCK_FILE` as processes see it
and `disk` as a power loss leaves it: the code replaces the file by rename and syncs the
directory afterwards, and each of its failures (`PersistFails`, `ClearFails`,
`BeginFails`) leaves one of the two behind.  `conn` is the session: up, poisoned (an
aborted transaction), broken, closed.  `late` and `ownerDeadline` replace clocks: a
deadline may pass at any step at which the code can notice.  `attempts` and `approvals`
count what WRDS and the operator know; they are the model's own and reset when a login is
verified.

A health check that fails after a rollback leads to a new session whatever was wrong: the
code does not tell a dead session from a live one that answered too late, and the model
lets both happen (`Broken`, `Rebuild`).  `failedOn` (the model's own) remembers which
handler's own request failed on the present session.  `handle_client` serves no unblock: the
operator's command stops the daemon and starts another with a flag (`Start`, `Approved`);
the client's side of it is in `WrdsClient`.

Which daemon process runs is left to `WrdsSingleton`; here there is at most one at a time
and a new one may start after every stop, kill or power loss (`Start`, by anybody, with
or without the operator's flag).

### WrdsSingleton

Each starter of this release walks through `_acquire_instance_lock` (link, compare,
remove a stale marker, retry up to `MaxRounds`), the process scan, the TCP port of its own
network namespace, the latch check, `_write_compat_guard` (link its record into the cache
directory of earlier releases, or lock the record it finds there), the second scan,
`_verify_compat_guard`, the Unix socket (bind, probe, clean a stale one), login, and in
reverse order through `cleanup`.  A comparison and the removal it leads to are separate
steps wherever they are separate system calls, for the marker (`SameMarker`, `UnlinkStale`)
as for the socket (`CompareSocket`, `CleanSocket`; `SweepSocket`, `UnlinkSocket`).

A released deployment (`Legacy`) runs its own client and server: it looks at the cache
directory for a latch, spawns, binds the port of its namespace and logs in, each a step of
its own, so that it can be paused in between while an upgrade goes on; it can also be
upgraded, after which it is what this release is.  `cache` is the record in its directory,
`locked` the directory's mode 0500, `latch` this release's own latch.  `settled` (the
model's own) holds the released servers whose login ended well or was approved.  `Other` is
a process that the scan overlooks and that sits on the socket path.

### WrdsWatchdog

`at` is the place in `run()`.  A round looks at the launchers (`Look`), probes (`Probe`),
decides and publishes (`Decide`) and repairs (`RefuseEdited` ... `StartTimesOut`) or sleeps.
`memory` is `run()`'s dictionary, with ages in ticks instead of times: `unhealthy` and
`saturated` count from the start of a clock (`Off` when it does not run), `rest` from the
last repair.  `failedEpoch` and the launches are numbered in the order of registration.

The host is what can change between any two steps of a round: a daemon (starting, logging
in, serving, at its cap, wedged, latched), an older server with or without a launcher, the
latch, launchers whose project needs WRDS or not, edited files, the veto.  `Answers` lists
what a probe may find of each, in the order in which `probe()` looks.  `start_services.sh`
is what it does to the host: start a server, join one that logs in, skip WRDS because the
newest project has no credentials in its `.env`, or fail.  Success is what it is for the
code, return code 0 (`StartSucceeds`), whether or not a server runs then.  `alive` and
`served` are the model's own; they record what the past rounds have really seen, for the
properties to compare with what `memory` believes.

### ResultsTransaction

One command holds the project lock at a time; `pc` is its place.  A file's content is the
attempt that wrote it.  The registry and the receipts it fingerprints are one record of
the content they name at every path; `Intact` is what `load_registry` and
`verify_receipt` establish.  `journal` and `dir`/`backup` are the two things recovery
reads.  Every write in the code is synced before the next one begins, so a power loss is
a kill.  `Outside` is a program that writes a file without the lock.  Staged temporary
files (named at random, invisible to the registry) and the isolated workspace are left
out: the run they serve either delivers all outputs (`Computed`) or nothing
(`ComputeFails`).

`Files` and `Registered` map the detailed state to the abstract one: while the journal
says *prepared*, the evidence is what a rollback would restore, so the linearization
point of a publication is the journal's change to *committed*.

### ResultsRegistry and PaperEvidence

A receipt is what lifecycle rules look at: its role (plain, analysis, dataset release), the
analysis a release is bound to, what it supersedes, what it cites as operands, whether its
exhibits are rendered, the version of the rights inventory and the data sources of a
release.  Bytes are not modelled: `stale` holds receipts with an edited source, `damaged`
those with a lost exhibit.  `accepted` is what Gate 2 accepts: the version of the inventory
and the sources it opens, or `manual`, the deployment without a Gate 2, where a release is
compared with the digest in its own plan and nothing else (`RightsStand`).  `Sound`,
`SoundEnough` and `ActiveSound` are `verify_receipt` and the excuses `command_run` grants to
what is about to be replaced; `Loads` is the part of `load_registry` that relates entries.
Handed-on operands are followed link by link (`Heirs`, `Cited`), as functions over the
number of receipts.

In `PaperEvidence` an audit input is a copy of what it freezes, and its digest is that copy.
An auditor opens an input and closes with a report later; `seen` records what was in place
at both moments, for `BoundWasAudited` to compare with what `verify-paper` passes.

### ResultsSandbox

`runner`, `supervisor` and `guardian` are program counters; `pipe` and `marker` stand for
the two pipes.  A Control-C reaches all three, which share the foreground group, and each
handles it where it stands (`struck`): the runner unwinds and cleans up, supervisor and
guardian were forked with the default handler and leave through their `os._exit` without
doing so.  `sandbox` is what the command runs in: bubblewrap ends it with the supervisor
(`--die-with-parent`), macOS's sandbox-exec does not.  A source is pinned by descriptor
(`Files`, under a read lease) or copied (`Trees`).  An editor writes in place, which a lease
delays and reports, or renames a new file over the name, which no lease notices.  `used` and
`ran` record what the command may have read.

### Updater

Seven processes per update; their places are in `Places`.  A kill may strike any of them
anywhere, the owner before it has a supervisor and the body before it has written its
identity included; the guardian may also give up (`GiveUp`: the group cannot be listed, or
outlives SIGKILL for 5 s).  A pipe is the set of messages
written to it and reads end of file when nobody is left who could write.  The lock is a file
description shared by launcher, supervisor, shell and guardian.  `project` is what a session
or the next update finds on disk: infrastructure (old, mixed, new), manifest, marker, whether
it is synced, the paper's status, and the controls the coordinator validates before it
touches anything.  The rendering and replacement of single files are one step per phase, a
power loss leaves *mixed* whatever was not yet synced.

### WrdsClient

`at[p]` is the function a process is in and the point there; `line` is the progress of a
relayed request, `flight` that of its statement at the daemon: it is *broken* when the
session failed under it, and then the daemon runs it once more (`Execute` again) or reports
it (`Unexecuted`).  `Approved` is the login that another operator approves and starts, at
any moment; `stood` remembers, for the property, whether one did since the answer.  Which
answers a request may get from the daemon of the moment is `HelloAnswers`, `PingAnswers` and
`CommandAnswers`; deadlines may pass at any step at which the code can notice. `lingering`
and `waiting` are relay threads that outlive their client.

### VerifierManifest and DataCache

Agents write any of `Contents` at any moment, so that an edit may also be undone, and a
script can appear; `Replicated` bounds the analyses a verifier works on.  `finalize-pass`
reads code, headline and script before and after the run of the verifier, each in a step,
and compares the two; `saw` records every manifest its verifier could see, `undone` the
parts that were changed and put back meanwhile.  `check-all` reads the registry, lists the
directory and compares one result after the other under the shared lock; `rewritten` are the
results that a finalizer, which takes no lock, replaced during it.

`DataCache` has one machine for nine helpers; `Trait` says what sets them apart: the name of
the temporary file (shared, the process's own, none), whether it is removed first or on
failure, whether the response is streamed, what would notice that it ended early (its parser,
the length if one was announced, nothing), what a caller gets of an incomplete file, and
which cached files are fetched again.  A file is an inode with two chunks, so that two writers
of one name, a rename under a writer and a file cut short are different contents; a chunk
holds the item, nothing yet, the end of a cut response (`EndsUnnoticed`), a page in place of
the data, or what an earlier release left.  A table that cannot be written is cached as a CSV
instead, which is read back without a guard (`Fallback`).  `raced` and `stopped` are the
model's own: whether two processes wrote at the same time, and the files whose writer was
stopped.

Every module states a type invariant.  Section 6 proves all but that of `PaperEvidence`, which
holds on its instance of section 3.  They are not among the properties of the runs, which ask
for what could really go wrong.

## 3. Runs

| Run | Question | Instance |
|---|---|---|
| `daemon` | all safety properties of the daemon, the refinement of `WrdsLogin`, one login per lost session, and every command and ping is answered | 2 handlers, 2 approvals |
| `singleton_safety` | at most one daemon of any release; its socket is kept | 2 starters, 1 released deployment, 2 namespaces, 2 rounds |
| `watchdog_repair` | only silent servers are stopped; no client waits for a repair for ever while the newest launcher stays and has credentials | limits of 1 to 4 ticks, cap 2, 2 launches, 1 fault |
| `client` | a statement runs again only after a lost endpoint or one recovery of its session; no wait sleeps over a latch; unblock stops nothing that works, another operator's start excepted; calls end, slots come back | 1 client, 1 operator and others who approve at any moment, every budget 1, 1 query slot |
| `results_safety` | atomic publication, undoable transactions, recovery ends | 3 paths, 2 attempts, 2 faults |
| `registry` | no stranded operand, one pending attempt, pairs travel together, no release passes the audit without its rights where there is a Gate 2 | 4 receipts, 1 data source, 1 edit, autonomous and manual |
| `paper` | what verify-paper passes was confirmed by both auditors; bind-paper accepts nothing that verify-paper refuses | 2 receipts, 1 attempt, 2 contents of the paper |
| `sandbox` | a committed run used what it recorded; command and workspace end however the runner ends, but for `Outlived` and `Unwatched` | both sandboxes, 1 pinned file, 1 copied tree, 2 contents, 2 events |
| `updater` | no writer outlives the lock, the snapshot outlives the refresh, no session on mixed infrastructure, success means whole and durable | 2 updates, 1 session, 1 fault |
| `updater_live` | the snapshot is removed, the lock is released, but for `Orphaned` and `Unannounced` | 1 update, 1 session, 2 faults |
| `manifest` | a finalized PASS names what a verifier ran on, or what was put back; a clean check covers every live analysis | 2 analyses, 1 of them replicated, 2 contents, 2 edits |
| `cache` | what it takes to leave a partial file, who is given a short table, whom an unreadable one fails | 2 processes, 9 helpers, 2 chunks |

All runs pass.  What the runs do *not* show, because the code does otherwise, is section 8.

## 4. Bounds

* `MaxApprovals`: `attempts <= approvals + 1` is the property, so both counters are bounded
  by it; two approvals give an approved login after a refused approved one.
* Two handlers: one in its critical section and one that queues or pings; three
  threads with Main.  The proofs do not depend on the number.
* Two starters and a released deployment: two that race on a stale marker, with the upgrade
  of the third under them.  `MaxRounds` is the code's own loop bound; two rounds are one
  retry.  The proofs hold for any number of each.
* The watchdog's limits are a few ticks: `Wedge` is two, so that a clock that was not reset
  differs from one that was, and the saturation limit four.  A cap of two lets a repair
  fail, be counted and be tried again.  A fault is one of: a wedge, a death, a
  reconnect, a refused login, an older server, an edit, a veto, an unreadable latch, a changed
  `.env`, a stop or start that fails; launchers that come and go are not counted.
  `HealingEnds` needs the faults to end: a server that wedges after every repair is repaired
  again, which is what the watchdog is for.  Two launches are one that comes or goes beside
  another; while they keep doing so, or the newest one has no credentials, a promise may stand
  for ever (section 8), which the two premises of the property exclude.
* The client's budgets are one each, so that every limit is met and exceeded; `AuthSlots` is
  two, one more than the query slots, as in the code the pool of threads is the larger one.
  What the daemon, the bridge, the watchdog and other operators do is not bounded at all.
* Three paths, one of them a receipt; two attempts, so that one can supersede, rerender or
  meet the leftovers of the other; two faults: one that leaves a transaction behind and one
  during its rollback or clean-up.
* Four receipts: a pair and the pair that replaces it, or a chain of three with somebody who
  cites its first link.  `MaxNamed` (one) bounds what an attempt supersedes and cites, and
  `MaxEdits` (one) what agents do between commands: a source, an exhibit or the rights
  inventory changes once, anywhere in the sequence.  `Modes` has both kinds of deployment.
  The instance of `paper` has no data sources: there are no releases in it, whose rules
  `registry` covers.
* One audit attempt in `paper`: attempts have paths of their own and meet in nothing but the
  paper receipt, which the last bind replaces.
* Two updates: one that was killed and the next one, which recovers; three would only
  repeat this.  One fault is a kill of any process at any moment, an interrupt of the
  whole terminal, a guardian that gives up, or a power loss.  `updater_live` allows two, so
  that the process that takes over from a dead one may die too; what they leave behind
  for good is named in its properties (`Orphaned`, after the death of the owner while no
  supervisor stands in for it; `Unannounced`, after that of a body that has not written its
  identity).  `Breakable` names the controls that a session may break:
  one that the coordinator looks at after the assembly in `updater`, and one before it too in
  `updater_live`, whose single update is enough to refuse it.
* The two events of `sandbox` are any of: writes, renames, upgrades (a change and its
  undoing), a Control-C, a kill of any process.
* Two edits in `manifest` are a change and its undoing, or a change before and one during a
  verifier's run; two contents make the undoing possible.  A verifier works on one of the two
  analyses, and one finalize-pass runs at a time; that agents do not run two is assumed.
* Two chunks and two processes in `cache`: half a file, and two halves from different
  writers.  What a response does is not bounded.

## 5. Fairness

* `WrdsDaemon`: weak fairness of each handler that serves a command or a ping.  Every
  database call of those is bounded by a statement timeout, `connect_timeout` or a socket
  guard, and waiting for the lock by `LOCK_QUEUE_WAIT_SECONDS`.  The lock itself promises no
  order: it may be lost to others for ever, and the deadline of the queue is what answers.
  Operators and what starts a daemon are not fair.
* `WrdsWatchdog`: the watchdog runs on, a starting server reaches its login, a login ends.
  The last is an assumption about the outside: a reconnect has a `connect_timeout`, a first
  login deliberately none (`connect_wrds`), so that it ends when the Duo push expires.
* `WrdsClient`: every process with a call, and every relay thread, because each request,
  wait and connection in the code has a deadline; a bridge that has bound its port publishes
  its token.  What the daemon, the watchdog and the bridge's owner do is never fair.
* `ResultsTransaction`: the process that holds the lock runs on and commands keep being
  called.
* `ResultsSandbox`: runner, supervisor and guardian run on until they are killed.  The
  command, the editor and the user are not fair.
* `Updater`: every process runs on until it is killed; sessions end; and, with strong
  fairness, the removal of the snapshot happens if it is possible again and again (owner and
  supervisor try for as long as other processes of the project hold it up).

Environment actions (errors, kills, other programs) are never fair.

## 6. What is proved

Every invariant and every action property that a run checks is also proved, for every number
of handlers, starters, clients, launches, paths, receipts, updates, attempts, edits and (but
where it is said) faults:

* `WrdsDaemonProofs`: type correctness, `WriteAhead`, `FailureBudget`, `QuietMeansSettled`,
  `ClearedByVerification`, `OneLoginPerLoss`, and that the daemon implements `WrdsLogin`.
  None is inductive alone.  The invariant adds who can be where (a login place belongs to
  the lock's holder or to a starting main thread, never both) and, for each login place,
  what the latch and the account look like there: at *login* the marker is on disk and not
  yet charged, at *verify* it is charged once more than before, and so on.
  `OneLoginPerLoss` needs that nobody replaces the session of a handler that recovers,
  because that takes the lock (`Recovering`).
* `WrdsSingletonProofs`: type correctness, `OneDaemon`, `EndpointKept`.  Between starters of
  this release the argument is the process scan: a starter past its second scan saw nobody
  else alive, and everybody who starts later sees it (`OneHolder`: everything a starter
  holds from its first scan on is held by one).  Against a released server it is the scan
  for those that run, the port for those in the same namespace, and for those that were
  paused before they spawned the guard: from the second scan to the clean-up the released
  cache directory holds a locked record which makes their server refuse (`Upgraded`, with
  `PortOwned`, `GuardKept`, `NoLegacy`).
* `WrdsWatchdogProofs`: type correctness and `StopsOnlySilent`, for all limits and any number
  of launches.  The invariant says what the clocks in `memory` prove: the clock of the wedge
  is never ahead of the last answer, or nothing was served for twice as long; the clock of
  saturation is never ahead of the last served probe.  Between probe and decision a clock
  may be ahead (the answer is newer than the memory), and then the decision resets it.
* `ResultsTransactionProofs`: type correctness, `EvidenceWhole` and `Undoable`.  The
  invariant that carries them says what a rollback would restore is what the registry named
  when the transaction began (`Kept`), that up to the first published file nothing has
  changed (`AsBefore`), that a plan fits the registry it was made for (`Planned`), and how
  far the loops of publication and rollback have come (`Progress`, `Undone`).
  On that invariant rests the refinement, `PublicationAtomic`: a step is seen by a reader in
  four ways only, not at all, as somebody else's file that comes or goes (`OneFile`), as a
  retirement (`RetireStep`), or as the publication of one attempt (`CommitPublishes`).
* `ResultsRegistryProofs`, for any finite set of receipts, any data sources and bounds: type
  correctness, `OperandsAnchored`, `PendingAlone`, `PairsTravelTogether` and
  `ReleasesCleared` of the registry, `BoundWasAudited` and `BindingVerifies` of the paper
  gate.
  - `PairsTravelTogether` is inductive only beside what else the registry promises: what a
    published receipt names is published (`Related`), no release is newer than the accepted
    inventory, and one of its version uses open data only where there is a Gate 2 (`Counted`,
    `RightsRecorded`).  The commands that move two receipts at once are the ones that need
    `PendingAlone`.
  - `OperandsAnchored` is inductive beside the types, but it speaks of two reachability sets.
    `ClosureContains` and `ClosureLeast` say that the recursive search returns the least
    closed set; they are proved by induction over its rounds (`SetInduction`, from the
    library's `WFMin`, about a set of numbers and not a predicate), and the search ends
    because a round that is not closed yet adds a receipt.  A retirement then either hands
    everything on (`HeirsKept`) or leaves only what nobody cites (`HeirsLost`): an heir of the
    active receipts is an heir of those that leave or of those that stay (`HandedSplits`).
  - `BoundWasAudited`: an input is not prepared anew while an auditor works on it
    (`OpenedStands`), so that a PASS has seen one state at both ends, the one whose digest it
    carries (`PassSawOne`).  What the registry does in between does not enter the argument: it
    shows in the digest.  `BindingVerifies` supposes that `None` is no paper receipt.
* `ResultsSandboxProofs`: type correctness, `RecordedMeansUsed`, `WorkspaceOwned`.  An upgrade
  is not undone, so two captures that agree enclose a time in which the runtime stood
  (`OneRuntime`); a lease that still stands has let nobody write, so what a pinned file held
  when the command began is what it holds at the last gate (`Unwritten`, `OneContent`).
  `WorkspaceOwned` supposes that the guardian was not struck together with the runner, or, in
  macOS's sandbox, with the supervisor whose command goes on writing (`Unwatched`): `Cleanup`
  says who has taken the workspace away or has still to do so.  One Control-C strikes all
  three, and then nobody may be left.
* `UpdaterProofs`: type correctness without a condition; `NoWriterOutlivesLock`,
  `SnapshotOutlivesMain`, `SessionSeesWhole` and `SuccessMeansRefreshed` under the
  hypothesis `GuardianKilledAlone`, that a guardian which is dead, or has given up, while
  somebody of its group lives is the only fault so far.  Any number of faults of other kinds
  is allowed, and `OneFaultSafe` shows that one fault needs no hypothesis.  It cannot be
  dropped: an interrupt that ends the shell, and a kill of the guardian, leave a refresh
  that writes without a lock (TLC finds this with two faults).  The argument: the guardian
  leaves only when its group is gone, and without it the shell still waits under the lock
  while nothing else goes wrong (`Kept`, `Calm`); the lock is exclusive, so what the one
  writer has done stands (`Written`).
* `EmpiricalProofs`, in three parts:
  - the manifest: type correctness, `PassWasRun`, `CleanMeansVerified`.  A part that was not
    put back, and is what it was at the first reading, has been that for the whole run
    (`SawOne`, with `Latest` for how far the second reading goes), so that the verifier saw
    one value of it when both readings agree. What check-all has found stands until somebody
    edits (`RegistryStands`, `ComparedStands`) or a finalizer replaces the result, which the
    property excepts; a script that is there never goes away (`ScriptStays`).
  - the caches: type correctness, `RenamedIsWhole`, `ShortHasCause`, `UnreadableHasCause`, for
    any number of callers.  A call has a file open while it writes, and where nobody else
    wrote, the temporary name leads to that file and the file holds what the call has written
    (`OpenWhileWriting`, `PartIsMine`, `OwnIsMine`, `Filled`); in any case a chunk that is
    missing at the cache's or the temporary name has a writer that has yet to write it, or had
    one that was stopped (`Explained`).
  - the client: type correctness with the bound on the relay's slots, `ReplayBounded`,
    `LatchEndsWait`, `UnblockStopsLatched`, for any number of clients and operators.  A
    statement that may still be sent or executed has been executed at most twice for each time
    it was re-sent, and once more if its session broke under it (`Budgeted`, with `Linked` for
    what is under way where); a latch that stood through a poll is the one on disk
    (`StoodBlocked`, `ServerLatch`).  Whoever is about to stop the server was told that it has
    latched, and the latch stands as long as no other operator approves a login (`StopInv`).

The assumptions are the named ASSUMEs of the modules (disjointness of names, bounds that
are natural numbers, limits that are not zero), which TLC evaluates too.

## 7. What is only model-checked

* Liveness, which the prover does not cover: `EveryRequestAnswered`, `EveryTransactionEnds`,
  `HealingEnds`, `CallsEnd`, `SlotsReturned`, `LeavesNothing`, `SnapshotRemoved`,
  `LockReleased`.
* The type invariant of `PaperEvidence`.
* What goes beyond the hypotheses named in section 6: updates with a guardian killed beside
  another fault.
* Whether the hypotheses, guards and fault bounds of the models can be met at all: the runs
  reach every action, a proof says nothing of that.

## 8. Where the code and its words disagree

While the models were written, these statements of a comment, document or check of the
repository turned out not to hold of the code.  Each is kept as a definition of the module
that models the code, below the properties that do hold; no run of the project checks it.
Put it in the named configuration in place of its properties and TLC prints the shortest
behaviour that breaks it.

| Statement | What the repository says | What the code does | To reproduce |
|---|---|---|---|
| `PingSeesCommand` (`WrdsDaemon`) | `EMP/wrds_server.py:1573` "A running query proves the daemon and its serialized DB owner are live. Never queue a readiness probe behind it" | `run` takes the lock (1522) before it records itself as owner (1531) and clears the owner (1565) before it releases (1566): a ping in between answers that the lock has an unknown owner | daemon; `Spec`, `MaxApprovals = 0` |
| `DropLatchesAfterReconnect` (`WrdsDaemon`) | 1281, latched on "a known credential rejection or an ambiguous failed reconnect" | a session that drops while a statement is retried after a mere rollback latches too (1561): no reconnect was tried | same |
| `DaemonIsMarked` (`WrdsSingleton`) | 2609 "Filesystem creation, not loopback TCP, is the authoritative singleton" | identity and unlink of a stale marker are two calls (427, 430): two starters remove it one after the other and the second removes the first's. `OneDaemon` holds nevertheless | singleton |
| `RefusalNamesLegacy` (`WrdsSingleton`) | `EMP/start_services.sh:136` of exit 4, "an older WRDS daemon is still active" | the scan matches every `wrds_server.py` process: a starter that has not yet lost its race is taken for an older server, the winner leaves, and no daemon is started | singleton |
| `AttemptsHonoured` (`WrdsSingleton`) | `EMP/wrds_server.py:2601` "The only v5 path that leaves this terminal-looking cache record under mode 0500/0400 is a verified operator retry" | `_write_compat_guard` locks the directory over a released server's unresolved record; if the second scan then refuses, or the starter dies, before the record is copied, and the released server ends, the next start reads the locked record as settled (572) and logs in without an approval | singleton |
| `HealingEnds` without its first premise (`WrdsWatchdog`) | `EMP/wrds_watchdog.py:320` "Only operator action lifts the cap" | the launch epoch is the newest registration among the projects that need WRDS *now*; a launcher or project that comes and goes lifts the cap each time it comes back, and failing repairs go on | watchdog_repair; delete the conjunct about `Newest'` |
| `HealingEnds` without its second premise | 504 "only failures that never reached a login count toward the repair cap" | `run_start_services` strips the credentials of the environment (436-438); if `.env` has none either, `start_services.sh` skips WRDS and exits 0 (247-251), which resets the count (501-503): 'healing' is published for ever | watchdog_repair; delete the conjunct about `keyless` |
| `WaitsThroughRepair` (`WrdsClient`) | `templates/skill_bodies/empirical/wrds.md:34` "While the watchdog reports a repair, the client waits instead of failing" | a daemon in its login has bound its socket and accepts nobody: the handshake ends in a timeout, which is not among the errors that wait (`EMP/wrds_client.py:557`) | client; `ClientSpec` |
| `RecoversAlone` (`ResultsTransaction`) | `results_evidence.md:54` "a process kill during backup, commit, rollback, or cleanup either rolls back a prepared publication or finishes a recorded terminal cleanup" | an error or signal after the journal is in place, while it is still being prepared, removes the backups before the journal (`results_pipeline.py:4751`); killed in between, it leaves a prepared journal without backups, which every later command refuses | transaction; `Spec` |
| `OthersFilesKept` (`ResultsTransaction`) | `results_pipeline.py:4662` "publication target appeared during isolated run" | the file that this check protects is deleted by the rollback that the refusal starts (4802) | same |
| `HandoffsComplete` (`ResultsRegistry`) | `results_evidence.md:82` "paper audit fails closed until handoff completes" | only predecessors of what is active now are asked for: A, replaced by B, stays active unnoticed when B was replaced by D and has left | registry; `MaxEdits = 0` |
| `BoundaryKept` (`ResultsSandbox`) | `CHANGELOG.md:680`, pinning works "without weakening the declared-source boundary" | a pinned file is compared at its live path only: content that was replaced before the launch and renamed back before the comparison has been read by the command and is not in the receipt | sandbox; contents old and new |
| `RegistryAccepted` (`Updater`) | `results_evidence.md:82` "Update requires the complete same-version registry", `scripts/update_coordinator.sh:33` "Safe to re-run." | the coordinator compares the registry's keys with a list (1059) that lacks `active_dataset_release_pairs`, which the pipeline adds when it first writes the registry: a project with a recorded result is refused | updater; 1 update, no faults |
| `BodyEnds` (`Updater`) | 2024 "the guardian ... terminates the body's private process group, and waits for it to drain" | a guardian that sees the launcher's end before the body's identity leaves; a body that has just written its identity, and whose shell is terminated at that moment, polls for its start signal for ever. It holds no lock and writes nothing | updater_live |
| `PartialNeverCached` (`DataCache`) | `EMP/form_5500_utils.py`, "a partial download never gets cached" | two processes share the temporary name: one renames what the other has just begun | cache; `Sources = {"form5500"}` |

Exceptions that the properties of section 3 name are cases in which the code leaves behind
what a reader of it may not expect: after one Control-C during a run the workspace has
nobody who would remove it if the runner is then killed, because supervisor and guardian
leave through `os._exit` (`results_pipeline.py:2022`, 4496; `Unwatched`), and in macOS's
sandbox the command outlives them (`Outlived`); the snapshot stays after the death of its
owner while no supervisor stands in for it (`Orphaned`), and the lock after that of a body
that has not written its identity (`Unannounced`); a PASS may name code that was edited for
the run and put back after it (`undone`); a login which one operator has just approved is
stopped by the unblock of another (`Approved`, `EMP/wrds_client.py:897-917`); where there is
no Gate 2 a release is compared with the digest in its own plan only (`accepted.manual`); a
response that ends early without an announced length is cached, and a CSV that stands in for
a table raises at every later call if it was cut (`EndsUnnoticed`, `Fallback`).

Observations without a model of their own: `probe` (`EMP/wrds_watchdog.py`) looks at the
latch only if the hello is not answered, so that an older server which answers it is stopped
whatever the latch says (18, "the watchdog never acts while any latch or live login attempt
exists"); `derive_active_empirical_lineage` compares baselines over active receipts only;
`EMP/empirical_input_manifest.py:334` verifies the first eight headline rows;
`analysis_contract.py:408-424` numbers repeated column names in a way that a real column
`a#2` overwrites; `EMP/download_crsp_daily.py` keeps the file of the year that was current
when it was written as if it were complete.

## 9. What is not modelled

* Of the watchdog its marker file and the registration files: `WrdsWatchdog` has one
  watchdog, and a launch finds it running or starts it.
* The wire protocol between client and daemon, response budgets and the SQL safety check:
  one pass over one message.  `wrds_srt_service.py`, which forwards bytes inside a sandbox.
* The registry's memo of a verified load (`_REGISTRY_MEMO`): a cache keyed by the times of
  files, whose soundness depends on the resolution of a file system's clock.
* Validators of bundles, manuscripts, citations and headline numbers, `analysis_contract.py`,
  `construction_guard.py` and `spec_audit_scope.py`: sequential functions of their input.
* `launch.sh` beyond its barrier and `opencode_driver.py`: next in the plan.
* Setup and assembly scripts, the LLM client, agent bodies: generators that run once, single
  requests, and prose.

## 10. Plan

1. `TurnWatcher`: process groups of `run_turn` in `launch.sh`, halt and resume.
2. `WatchdogMarker`: the marker of the watchdog, registration and pruning of launchers,
   idle exit against registration.
3. `OpenCodeTree`: busy, idle and abort over a session tree that changes.
4. Proofs: every safety property of the runs is proved; what a new module adds.
