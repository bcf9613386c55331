------------------------- MODULE ResultsTransaction -------------------------
(***************************************************************************)
(* How results_pipeline.py publishes evidence (run, render, activate,      *)
(* retire): many files and the registry, under a journal that lets the     *)
(* next command undo what an interrupted one has left.                     *)
(*                                                                         *)
(* A command holds the project lock from its start to its end, so one      *)
(* command is modelled at a time; it may be killed at every step, and      *)
(* everything it has written stays.  Every write is synced before the      *)
(* next one (atomic_json, _copy_evidence_path, _remove_project_path), so a *)
(* power loss is a kill here.  The content of a file is the attempt that   *)
(* wrote it; the registry and the receipts it fingerprints are one record  *)
(* of the content they name at every path.  Lifecycle rules on what may be *)
(* activated or retired are left out.                                      *)
(***************************************************************************)
EXTENDS Naturals, FiniteSets

CONSTANTS
    Paths,      \* evidence paths under output/
    Receipts,   \* those of them that are result receipts
    Attempts,   \* names of lifecycle commands, each used at most once
    Absent,     \* no file at a path; a path the registry does not name
    Foreign,    \* a file that no attempt has written
    Partial,    \* a file that is being copied
    MaxFaults   \* bound: kills, and errors while a transaction is prepared

ASSUME PathAssumption == Receipts \subseteq Paths

ASSUME ContentAssumption ==
    /\ Attempts \cap {Absent, Foreign, Partial} = {}
    /\ Absent # Foreign /\ Absent # Partial /\ Foreign # Partial

ASSUME FaultAssumption == MaxFaults \in Nat

VARIABLES
    pc,        \* where the command that holds the lock is
    then,      \* where it goes on once the journal is cleared
    plan,      \* what it is about to publish
    todo,      \* paths its present loop still has to visit
    cur,       \* the path it is working on
    file,      \* what is at each path
    registry,  \* REGISTRY_PATH
    journal,   \* TRANSACTION_PATH
    dir,       \* TRANSACTION_BACKUP_PATH: the directory
    backup,    \* and the copies in it
    used,      \* attempts that have been started
    faults     \* faults so far

evidence == <<file, registry>>
saved == <<journal, dir, backup>>
memory == <<then, plan, todo, cur>>
count == <<used, faults>>
vars == <<pc, memory, evidence, saved, count>>

Content == Attempts \cup {Absent, Foreign, Partial}

Empty == [names |-> [p \in Paths |-> Absent], by |-> Absent]

NoJournal == [phase |-> "none", cleanup |-> {}, backups |-> {}, before |-> Empty]

NoPlan == [kind |-> "none", attempt |-> Absent, write |-> {},
           cleanup |-> {}, backups |-> {}, after |-> Empty]

(* The end of a command: the lock is released, what it knew is gone. *)
Exit == pc' = "idle" /\ then' = "idle" /\ plan' = NoPlan /\ todo' = {} /\ cur' = Absent

Init ==
    /\ pc = "idle" /\ then = "idle" /\ plan = NoPlan /\ todo = {} /\ cur = Absent
    /\ file = [p \in Paths |-> Absent]
    /\ registry = Empty
    /\ journal = NoJournal /\ dir = "absent"
    /\ backup = [p \in Paths |-> Absent]
    /\ used = {} /\ faults = 0

-----------------------------------------------------------------------------
(* recover_transaction(): what every command does first under the lock. *)

Begin ==
    /\ pc = "idle"
    /\ pc' = "recover"
    /\ UNCHANGED <<memory, evidence, saved, count>>

RecoverNothing ==
    /\ pc = "recover" /\ journal.phase = "none" /\ dir = "absent"
    /\ pc' = "command"
    /\ UNCHANGED <<memory, evidence, saved, count>>

(* "operator recovery required": nothing that could be undone is recorded. *)
RecoverRefused ==
    /\ pc = "recover"
    /\ \/ journal.phase = "none" /\ dir = "present"
       \/ journal.phase = "prepared" /\ dir = "absent"
    /\ Exit
    /\ UNCHANGED <<evidence, saved, count>>

(* Mutant: a prepared transaction is taken for a finished one. *)
RecoverAnyPhase ==
    /\ pc = "recover" /\ journal.phase # "none"
    /\ pc' = "clear" /\ then' = "command"
    /\ UNCHANGED <<plan, todo, cur, evidence, saved, count>>

(* Mutant: only the commit is known to recovery. *)
RecoverCommitted ==
    /\ pc = "recover" /\ journal.phase = "committed"
    /\ pc' = "clear" /\ then' = "command"
    /\ UNCHANGED <<plan, todo, cur, evidence, saved, count>>

RecoverTerminal ==
    /\ pc = "recover" /\ journal.phase \in {"preparing", "committed", "rolled_back"}
    /\ pc' = "clear" /\ then' = "command"
    /\ UNCHANGED <<plan, todo, cur, evidence, saved, count>>

(* rollback_lifecycle_transaction() *)
Rollback(next) ==
    /\ pc' = "undo" /\ then' = next /\ todo' = journal.cleanup
    /\ UNCHANGED <<plan, cur, evidence, saved, count>>

RecoverPrepared ==
    /\ pc = "recover" /\ journal.phase = "prepared" /\ dir = "present"
    /\ Rollback("command")

UndoOutput(p) ==
    /\ pc = "undo" /\ p \in todo
    /\ file' = [file EXCEPT ![p] = Absent]
    /\ todo' = todo \ {p}
    /\ UNCHANGED <<pc, then, plan, cur, registry, saved, count>>

OutputsUndone ==
    /\ pc = "undo" /\ todo = {}
    /\ pc' = "restore" /\ todo' = journal.backups
    /\ UNCHANGED <<then, plan, cur, evidence, saved, count>>

RestoreMissing(p) ==
    /\ pc = "restore" /\ p \in todo /\ backup[p] = Absent
    /\ Exit
    /\ UNCHANGED <<evidence, saved, count>>

(* The damaged file is removed and the copy begins ... *)
RestoreStart(p) ==
    /\ pc = "restore" /\ p \in todo /\ backup[p] # Absent
    /\ file' = [file EXCEPT ![p] = Partial]
    /\ cur' = p
    /\ pc' = "copy"
    /\ UNCHANGED <<then, plan, todo, registry, saved, count>>

(* ... and ends. *)
RestoreEnd ==
    /\ pc = "copy"
    /\ file' = [file EXCEPT ![cur] = backup[cur]]
    /\ todo' = todo \ {cur}
    /\ pc' = "restore"
    /\ UNCHANGED <<then, plan, cur, registry, saved, count>>

RestoreRegistry ==
    /\ pc = "restore" /\ todo = {}
    /\ registry' = journal.before
    /\ pc' = "check"
    /\ UNCHANGED <<memory, file, saved, count>>

(* load_registry() accepts what was restored; then the end is recorded. *)
RolledBack ==
    /\ pc = "check"
    /\ \A r \in Receipts : registry.names[r] # Absent => file[r] = registry.names[r]
    /\ journal' = [journal EXCEPT !.phase = "rolled_back"]
    /\ pc' = "clear"
    /\ UNCHANGED <<memory, evidence, dir, backup, count>>

-----------------------------------------------------------------------------
(* _clear_transaction_files(): the backups first, then the journal. *)

DropBackup(p) ==
    /\ pc = "clear" /\ backup[p] # Absent
    /\ backup' = [backup EXCEPT ![p] = Absent]
    /\ UNCHANGED <<pc, memory, evidence, journal, dir, count>>

DropDirectory ==
    /\ pc = "clear" /\ dir = "present"
    /\ \A p \in Paths : backup[p] = Absent
    /\ dir' = "absent"
    /\ UNCHANGED <<pc, memory, evidence, journal, backup, count>>

DropJournal ==
    /\ pc = "clear" /\ dir = "absent"
    /\ journal' = NoJournal
    /\ IF then = "command" THEN pc' = then /\ UNCHANGED memory ELSE Exit
    /\ UNCHANGED <<evidence, dir, backup, count>>

-----------------------------------------------------------------------------
(* The commands *)

Named(p) == registry.names[p] # Absent

(* load_registry() and verify_receipt(): the evidence is what it was when  *)
(* it was recorded.                                                        *)
Intact == \A p \in Paths : Named(p) => file[p] = registry.names[p]

Take(kind, a, write, cleanup, backups, after) ==
    plan' = [kind |-> kind, attempt |-> a, write |-> write,
             cleanup |-> cleanup, backups |-> backups, after |-> after]

(* The registry after attempt a: it names its outputs, and no longer what  *)
(* it retires.                                                             *)
Record(a, outputs, retired) ==
    [names |-> [p \in Paths |-> IF p \in outputs THEN a
                               ELSE IF p \in retired THEN Absent
                               ELSE registry.names[p]],
     by |-> a]

OneReceipt(write) == Cardinality(write \cap Receipts) = 1

(* verify-all, inspect-registry and other commands that publish nothing. *)
Inspect ==
    /\ pc = "command"
    /\ Exit
    /\ UNCHANGED <<evidence, saved, count>>

(* run: none of its declared outputs exists yet. *)
StartRun(a, write) ==
    /\ pc = "command" /\ a \notin used
    /\ OneReceipt(write)
    /\ \A p \in write : file[p] = Absent /\ ~Named(p)
    /\ Intact
    /\ Take("run", a, write, write, {}, Record(a, write, {}))
    /\ used' = used \cup {a}
    /\ pc' = "compute"
    /\ UNCHANGED <<then, todo, cur, evidence, saved, faults>>

(* The isolated analysis succeeds, and nothing it relied on has changed. *)
Computed ==
    /\ pc = "compute" /\ Intact
    /\ pc' = "prepare"
    /\ UNCHANGED <<memory, evidence, saved, count>>

ComputeFails ==
    /\ pc = "compute"
    /\ Exit
    /\ UNCHANGED <<evidence, saved, count>>

(* render of a pending receipt: exhibits are made, or made again. *)
StartRender(a, write) ==
    LET new == {p \in write : file[p] = Absent} IN
    /\ pc = "command" /\ a \notin used
    /\ OneReceipt(write)
    /\ \A p \in write \cap Receipts : Named(p)
    /\ Intact
    /\ Take("render", a, write, new, write \ new, Record(a, write, {}))
    /\ used' = used \cup {a}
    /\ pc' = "prepare"
    /\ UNCHANGED <<then, todo, cur, evidence, saved, faults>>

(* render of an active receipt: the recorded bytes again, and no others. *)
StartRerender(write) ==
    LET exhibits == write \ Receipts IN
    /\ pc = "command"
    /\ OneReceipt(write)
    /\ \A p \in write : Named(p)
    /\ Intact
    /\ Take("rerender", Absent, exhibits, {}, write, registry)
    /\ pc' = "prepare"
    /\ UNCHANGED <<then, todo, cur, evidence, saved, count>>

(* activate, activate-pair and retire-pair: a transaction without files. *)
StartReregister(a, retired) ==
    /\ pc = "command" /\ a \notin used
    /\ retired \subseteq {p \in Paths : Named(p)}
    /\ Take("reregister", a, {}, {}, {}, Record(a, {}, retired))
    /\ used' = used \cup {a}
    /\ pc' = "prepare"
    /\ UNCHANGED <<then, todo, cur, evidence, saved, faults>>

(* retire: one atomic replacement of the registry, without a transaction. *)
Retire(a, retired) ==
    /\ pc = "command" /\ a \notin used
    /\ retired \subseteq {p \in Paths : Named(p)}
    /\ registry' = Record(a, {}, retired)
    /\ used' = used \cup {a}
    /\ Exit
    /\ UNCHANGED <<file, saved, faults>>

-----------------------------------------------------------------------------
(* prepare_lifecycle_transaction() *)

WriteJournal ==
    /\ pc = "prepare"
    /\ journal' = [phase |-> "preparing", cleanup |-> plan.cleanup,
                   backups |-> plan.backups, before |-> registry]
    /\ todo' = plan.backups
    /\ pc' = "mkdir"
    /\ UNCHANGED <<then, plan, cur, evidence, dir, backup, count>>

MakeDirectory ==
    /\ pc = "mkdir"
    /\ dir' = "present"
    /\ pc' = "backup"
    /\ UNCHANGED <<memory, evidence, journal, backup, count>>

CopyBackup(p) ==
    /\ pc = "backup" /\ p \in todo /\ file[p] # Absent
    /\ backup' = [backup EXCEPT ![p] = file[p]]
    /\ todo' = todo \ {p}
    /\ UNCHANGED <<pc, then, plan, cur, evidence, journal, dir, count>>

(* Mutant: prepared before every file has been copied. *)
SealEarly ==
    /\ pc = "backup"
    /\ journal' = [journal EXCEPT !.phase = "prepared"]
    /\ pc' = "sealed"
    /\ UNCHANGED <<memory, evidence, dir, backup, count>>

Seal ==
    /\ pc = "backup" /\ todo = {}
    /\ journal' = [journal EXCEPT !.phase = "prepared"]
    /\ pc' = "sealed"
    /\ UNCHANGED <<memory, evidence, dir, backup, count>>

(* An error or a signal before prepare_lifecycle_transaction has returned: *)
(* it clears the transaction, whatever the journal says by now.            *)
Abandon ==
    /\ pc \in {"mkdir", "backup", "sealed"}
    /\ faults < MaxFaults /\ faults' = faults + 1
    /\ pc' = "clear" /\ then' = "idle"
    /\ UNCHANGED <<plan, todo, cur, evidence, saved, used>>

Prepared ==
    /\ pc = "sealed"
    /\ todo' = plan.write
    /\ pc' = "publish"
    /\ UNCHANGED <<then, plan, cur, evidence, saved, count>>

-----------------------------------------------------------------------------
(* The publication, in the try block of the command *)

(* What the staged file of this path holds. *)
Staged(p) == IF plan.kind = "rerender" THEN registry.names[p] ELSE plan.attempt

(* A rendered exhibit is removed before the new one is put in its place; a *)
(* run's output is expected to be absent.                                  *)
Choose(p) ==
    /\ pc = "publish" /\ p \in todo \ Receipts
    /\ cur' = p
    /\ file' = IF plan.kind = "run" THEN file ELSE [file EXCEPT ![p] = Absent]
    /\ pc' = "target"
    /\ UNCHANGED <<then, plan, todo, registry, saved, count>>

(* publish_workspace_path(): the target is looked at ... *)
TargetFree ==
    /\ pc = "target" /\ file[cur] = Absent
    /\ pc' = "place"
    /\ UNCHANGED <<memory, evidence, saved, count>>

(* ("publication target appeared during isolated run") *)
TargetAppeared ==
    /\ pc = "target" /\ file[cur] # Absent
    /\ Rollback("idle")

(* ... and replaced, whatever is there by then. *)
Place ==
    /\ pc = "place"
    /\ file' = [file EXCEPT ![cur] = Staged(cur)]
    /\ todo' = todo \ {cur}
    /\ pc' = "publish"
    /\ UNCHANGED <<then, plan, cur, registry, saved, count>>

WriteReceipt(p) ==
    /\ pc = "publish" /\ todo = {p} /\ p \in Receipts
    /\ file' = [file EXCEPT ![p] = Staged(p)]
    /\ todo' = {}
    /\ UNCHANGED <<pc, then, plan, cur, registry, saved, count>>

WriteRegistry ==
    /\ pc = "publish" /\ todo = {}
    /\ registry' = plan.after
    /\ pc' = "published"
    /\ UNCHANGED <<memory, file, saved, count>>

(* Any error in the try block: a failed render, a broken source lease, a   *)
(* registry that does not validate, a signal.                              *)
PublicationFails ==
    /\ pc \in {"publish", "target", "place", "published"}
    /\ Rollback("idle")

(* Mutant: the transaction is cleared without being recorded as committed. *)
CommitUnrecorded ==
    /\ pc = "published" /\ journal.phase = "prepared"
    /\ pc' = "clear" /\ then' = "idle"
    /\ UNCHANGED <<plan, todo, cur, evidence, saved, count>>

(* commit_lifecycle_transaction() *)
Commit ==
    /\ pc = "published" /\ journal.phase = "prepared"
    /\ journal' = [journal EXCEPT !.phase = "committed"]
    /\ pc' = "clear" /\ then' = "idle"
    /\ UNCHANGED <<plan, todo, cur, evidence, dir, backup, count>>

-----------------------------------------------------------------------------
(* The environment *)

(* A kill, a power loss, or an error outside every handler (in a rollback, *)
(* a commit or a clean-up): the command is over.                           *)
Crash ==
    /\ pc # "idle"
    /\ faults < MaxFaults /\ faults' = faults + 1
    /\ Exit
    /\ UNCHANGED <<evidence, saved, used>>

(* Another program writes a file where there is none, outside the lock. *)
Outside(p) ==
    /\ p \notin Receipts /\ file[p] = Absent
    /\ file' = [file EXCEPT ![p] = Foreign]
    /\ UNCHANGED <<pc, memory, registry, saved, count>>

-----------------------------------------------------------------------------
Recovery ==
    \/ Begin \/ RecoverNothing \/ RecoverRefused \/ RecoverTerminal \/ RecoverPrepared
    \/ \E p \in Paths : UndoOutput(p) \/ RestoreMissing(p) \/ RestoreStart(p)
    \/ OutputsUndone \/ RestoreEnd \/ RestoreRegistry \/ RolledBack
    \/ \E p \in Paths : DropBackup(p)
    \/ DropDirectory \/ DropJournal

Command ==
    \/ Inspect \/ Computed \/ ComputeFails
    \/ \E a \in Attempts, S \in SUBSET Paths :
         StartRun(a, S) \/ StartRender(a, S) \/ StartReregister(a, S) \/ Retire(a, S)
    \/ \E S \in SUBSET Paths : StartRerender(S)

Transaction ==
    \/ WriteJournal \/ MakeDirectory \/ Seal \/ Prepared
    \/ \E p \in Paths : CopyBackup(p) \/ Choose(p) \/ WriteReceipt(p)
    \/ TargetFree \/ TargetAppeared \/ Place \/ WriteRegistry \/ Commit

Environment ==
    \/ Abandon \/ PublicationFails \/ Crash
    \/ \E p \in Paths : Outside(p)

Next == Recovery \/ Command \/ Transaction \/ Environment

Spec == Init /\ [][Next]_vars

(* The process that holds the lock runs on, and commands keep being called *)
(* (launch.sh refuses to start until one has recovered the project).       *)
FairSpec == Spec /\ WF_vars(Recovery \/ Command \/ Transaction)

-----------------------------------------------------------------------------
Places == {"idle", "recover", "undo", "restore", "copy", "check", "clear",
           "command", "compute", "prepare", "mkdir", "backup", "sealed",
           "publish", "target", "place", "published"}

Registry == [names : [Paths -> Attempts \cup {Absent}], by : Attempts \cup {Absent}]

Journal == [phase : {"none", "preparing", "prepared", "committed", "rolled_back"},
            cleanup : SUBSET Paths, backups : SUBSET Paths, before : Registry]

TypeOK ==
    /\ pc \in Places
    /\ then \in {"idle", "command"}
    /\ plan \in [kind : {"none", "run", "render", "rerender", "reregister"},
                 attempt : Attempts \cup {Absent}, write : SUBSET Paths,
                 cleanup : SUBSET Paths, backups : SUBSET Paths, after : Registry]
    /\ todo \subseteq Paths
    /\ cur \in Paths \cup {Absent}
    /\ file \in [Paths -> Content]
    /\ registry \in Registry
    /\ journal \in Journal
    /\ dir \in {"absent", "present"}
    /\ backup \in [Paths -> Content]
    /\ used \subseteq Attempts
    /\ faults \in Nat

(* Whatever happens to commands, as long as no transaction is unresolved   *)
(* every file the registry names is there as it was recorded: a reader     *)
(* never finds evidence of a failed attempt, or half of a good one         *)
(* (reject_unresolved_transaction, and launch.sh's refusal to start while  *)
(* the journal exists).                                                    *)
EvidenceWhole == journal.phase # "prepared" => Intact

(* A prepared transaction can be undone from what is on disk: its backups  *)
(* are complete, or neither the registry nor any file without a backup has *)
(* been touched yet (the order of steps in prepare, rollback and           *)
(* commit_lifecycle_transaction).                                          *)
BackedUp == dir = "present" /\ \A p \in journal.backups : backup[p] # Absent

Untouched ==
    /\ registry = journal.before
    /\ \A p \in journal.cleanup : file[p] \in {Absent, Foreign}
    /\ \A p \in journal.backups :
         backup[p] = Absent /\ Named(p) => file[p] = registry.names[p]

Undoable == journal.phase = "prepared" => BackedUp \/ Untouched

(* The transaction left behind can be recovered without an operator        *)
(* (results_evidence.md, "a process kill during backup, commit, rollback,  *)
(* or cleanup either rolls back a prepared publication or finishes a       *)
(* recorded terminal cleanup").                                            *)
Stuck ==
    \/ journal.phase = "none" /\ dir = "present"
    \/ journal.phase = "prepared" /\ ~BackedUp

RecoversAlone == pc = "recover" => ~Stuck

(* A file that no attempt has written is never replaced or removed         *)
(* (publish_workspace_path, "publication target appeared during isolated   *)
(* run").                                                                  *)
OthersFilesKept ==
    [][\A p \in Paths : file[p] = Foreign => file'[p] = Foreign]_vars

(* An unresolved transaction is resolved by the commands that follow,      *)
(* unless only an operator can.                                            *)
EveryTransactionEnds == journal.phase # "none" ~> journal.phase = "none" \/ Stuck

-----------------------------------------------------------------------------
(* The evidence as the next command will find it: while a transaction is   *)
(* prepared, as it was before.                                             *)
Restored(p) ==
    IF p \in journal.cleanup THEN (IF file[p] = Foreign THEN Foreign ELSE Absent)
    ELSE IF p \in journal.backups /\ backup[p] # Absent THEN backup[p]
    ELSE file[p]

Files == [p \in Paths |-> IF journal.phase = "prepared" THEN Restored(p) ELSE file[p]]

Registered == IF journal.phase = "prepared" THEN journal.before ELSE registry

Publication == INSTANCE ResultsPublication WITH
    files <- Files, names <- Registered.names, by <- Registered.by

PublicationAtomic == Publication!Spec
=============================================================================
