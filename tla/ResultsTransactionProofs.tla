---------------------- MODULE ResultsTransactionProofs ----------------------
(***************************************************************************)
(* Proofs about ResultsTransaction, for any paths, receipts, attempts and  *)
(* any number of faults.                                                   *)
(*                                                                         *)
(* The argument: whatever is on disk while the journal says "prepared",    *)
(* what a rollback would restore (Restored) is the evidence the registry   *)
(* named when the transaction began (Kept).  Preparation has that by       *)
(* copying, publication keeps it by touching nothing that has no backup,   *)
(* and a rollback makes it the truth before the phase is changed.  The     *)
(* remaining parts say how far each place of a command has come.           *)
(***************************************************************************)
EXTENDS ResultsTransaction, TLAPS

Publishing == {"publish", "target", "place"}

InTransaction == {"mkdir", "backup", "sealed", "published"} \cup Publishing

Before == journal.before

Unwritten(p) == file[p] \in {Absent, Foreign}

(* The phase each place goes with. *)
PhaseAt ==
    /\ pc \in {"command", "compute", "prepare"} => journal.phase = "none"
    /\ pc \in {"mkdir", "backup"} => journal.phase = "preparing"
    /\ pc \in {"sealed", "published", "undo", "restore", "copy", "check"} \cup Publishing
         => journal.phase = "prepared"

(* Copies are in the directory, and the directory goes before the journal. *)
DirAt ==
    /\ dir = "absent" => \A p \in Paths : backup[p] = Absent
    /\ journal.phase = "none" \/ pc = "mkdir" => dir = "absent"
    /\ pc \in {"backup", "sealed", "published"} \cup Publishing => dir = "present"

(* What a rollback would restore is what the registry named before. *)
Kept ==
    journal.phase = "prepared" =>
        /\ journal.cleanup \cap journal.backups = {}
        /\ \A p \in Paths : Before.names[p] # Absent =>
             p \notin journal.cleanup /\ Restored(p) = Before.names[p]

(* A file that is being copied can be copied again. *)
Whole ==
    \A p \in Paths :
        /\ backup[p] # Partial
        /\ file[p] = Partial =>
             /\ journal.phase = "prepared"
             /\ p \in journal.backups /\ backup[p] # Absent

(* Up to the first published file nothing has changed. *)
AsBefore ==
    pc \in {"mkdir", "backup", "sealed"} \/ (pc = "clear" /\ journal.phase = "prepared") =>
        /\ registry = Before /\ Intact
        /\ \A p \in journal.cleanup : Unwritten(p)
        /\ \A p \in journal.backups : backup[p] \in {Absent, file[p]}

(* The backups are complete before the transaction is prepared. *)
Copied ==
    /\ pc = "mkdir" => todo = journal.backups
    /\ pc = "backup" => \A p \in journal.backups \ todo : backup[p] # Absent
    /\ pc \in {"sealed", "published"} \cup Publishing => BackedUp

(* A plan that fits the registry b it was made for. *)
PlanFits(b) ==
    /\ plan.cleanup \cap plan.backups = {}
    /\ \A p \in plan.cleanup : b.names[p] = Absent
    /\ \/ /\ plan.kind \in {"run", "render"} /\ plan.attempt \in Attempts
          /\ plan.write = plan.cleanup \cup plan.backups
          /\ plan.after = [names |-> [p \in Paths |-> IF p \in plan.write
                                        THEN plan.attempt ELSE b.names[p]],
                           by |-> plan.attempt]
       \/ /\ plan.kind = "rerender" /\ plan.after = b
          /\ plan.cleanup = {} /\ plan.write \subseteq plan.backups
          /\ \A p \in plan.backups : b.names[p] # Absent
       \/ /\ plan.kind = "reregister" /\ plan.attempt \in Attempts
          /\ plan.write = {} /\ plan.cleanup = {} /\ plan.backups = {}
          /\ \E S \in SUBSET Paths :
               plan.after = [names |-> [p \in Paths |-> IF p \in S
                                          THEN Absent ELSE b.names[p]],
                             by |-> plan.attempt]

Planned ==
    /\ pc \in {"compute", "prepare"} =>
         PlanFits(registry) /\ \A p \in plan.cleanup : Unwritten(p)
    /\ pc \in InTransaction =>
         /\ PlanFits(Before)
         /\ plan.cleanup = journal.cleanup /\ plan.backups = journal.backups
    /\ pc \in Publishing => registry = Before

(* What has been published so far. *)
Progress ==
    pc \in Publishing \cup {"published"} =>
        /\ todo \subseteq plan.write
        /\ \A p \in Paths \ todo : plan.after.names[p] # Absent =>
             file[p] = plan.after.names[p]
        /\ pc \in {"target", "place"} => cur \in todo
        /\ pc = "published" => todo = {} /\ registry = plan.after

(* What has been undone so far. *)
Undone ==
    /\ pc = "undo" =>
         /\ todo \subseteq journal.cleanup
         /\ \A p \in journal.cleanup \ todo : Unwritten(p)
    /\ pc \in {"restore", "copy", "check"} =>
         \A p \in journal.cleanup : Unwritten(p)
    /\ pc \in {"restore", "copy"} =>
         /\ todo \subseteq journal.backups
         /\ \A p \in journal.backups \ todo : backup[p] # Absent => file[p] = backup[p]
    /\ pc = "copy" => cur \in todo /\ backup[cur] # Absent
    /\ pc = "check" =>
         /\ registry = Before
         /\ \A p \in journal.backups : backup[p] # Absent => file[p] = backup[p]

IInv ==
    /\ TypeOK
    /\ PhaseAt
    /\ DirAt
    /\ EvidenceWhole
    /\ Kept
    /\ Undoable
    /\ Whole
    /\ AsBefore
    /\ Copied
    /\ Planned
    /\ Progress
    /\ Undone

-----------------------------------------------------------------------------
(* The empty project has the invariant. *)
LEMMA InitInv == Init => IInv
<1>1. SUFFICES ASSUME Init PROVE IInv
  OBVIOUS
<1> USE <1>1 DEF Init
<1>2. TypeOK
  BY FaultAssumption, ContentAssumption
     DEF TypeOK, Places, Registry, Journal, Content, NoPlan, NoJournal, Empty
<1>3. EvidenceWhole /\ Undoable /\ Kept /\ Whole
  BY ContentAssumption
     DEF EvidenceWhole, Intact, Named, Undoable, Kept, Whole, NoJournal, Empty
<1>4. PhaseAt /\ DirAt /\ AsBefore /\ Copied /\ Planned /\ Progress /\ Undone
  BY DEF PhaseAt, DirAt, AsBefore, Copied, Planned, Progress, Undone,
         Publishing, InTransaction
<1>5. QED
  BY <1>2, <1>3, <1>4 DEF IInv

-----------------------------------------------------------------------------
(* Steps that leave the disk alone *)

(* What is said of the disk alone stays true. *)
LEMMA FrameInv ==
    ASSUME IInv, UNCHANGED <<evidence, saved>>
    PROVE  EvidenceWhole' /\ Kept' /\ Undoable' /\ Whole'
  BY DEF IInv, evidence, saved, EvidenceWhole, Intact, Named, Kept, Before,
         Restored, Undoable, BackedUp, Untouched, Whole

(* A command may end, and the next one begin, wherever the disk is. *)
LEMMA RestInv ==
    ASSUME IInv, TypeOK', UNCHANGED <<evidence, saved>>, pc' \in {"idle", "recover"}
    PROVE  IInv'
<1>1. EvidenceWhole' /\ Kept' /\ Undoable' /\ Whole'
  BY FrameInv
<1>2. /\ PhaseAt' /\ DirAt' /\ AsBefore' /\ Copied' /\ Planned'
      /\ Progress' /\ Undone'
  BY DEF IInv, evidence, saved, PhaseAt, DirAt, AsBefore, Copied, Planned,
         Progress, Undone, Publishing, InTransaction
<1>3. QED
  BY <1>1, <1>2 DEF IInv

LEMMA LeaveInv ==
    ASSUME IInv,
           \/ Begin \/ RecoverRefused \/ Inspect \/ ComputeFails \/ Crash
           \/ \E p \in Paths : RestoreMissing(p)
    PROVE  IInv'
<1>1. UNCHANGED <<evidence, saved>> /\ pc' \in {"idle", "recover"}
  BY DEF Begin, RecoverRefused, Inspect, ComputeFails, Crash, RestoreMissing,
         Exit, evidence, saved
<1>2. TypeOK'
  BY DEF IInv, TypeOK, Places, Registry, Begin, RecoverRefused, Inspect,
         ComputeFails, Crash, RestoreMissing, Exit, memory, evidence, saved,
         count, NoPlan, Empty
<1>3. QED
  BY <1>1, <1>2, RestInv

(* Recovery finds nothing, or a transaction that has come to an end. *)
LEMMA RecoverInv ==
    ASSUME IInv, RecoverNothing \/ RecoverTerminal
    PROVE  IInv'
<1>1. TypeOK'
  BY DEF IInv, TypeOK, Places, RecoverNothing, RecoverTerminal, memory,
         evidence, saved, count
<1>2. EvidenceWhole' /\ Kept' /\ Undoable' /\ Whole'
  BY FrameInv DEF RecoverNothing, RecoverTerminal
<1>3. /\ PhaseAt' /\ DirAt' /\ AsBefore' /\ Copied' /\ Planned'
      /\ Progress' /\ Undone'
  BY DEF IInv, PhaseAt, DirAt, AsBefore, Copied, Planned, Progress, Undone,
         Publishing, InTransaction, RecoverNothing, RecoverTerminal, evidence,
         saved
<1>4. QED
  BY <1>1, <1>2, <1>3 DEF IInv

(* A rollback begins with nothing undone. *)
LEMMA RollbackInv ==
    ASSUME IInv, RecoverPrepared \/ TargetAppeared \/ PublicationFails
    PROVE  IInv'
<1>1. /\ pc' = "undo" /\ then' \in {"idle", "command"}
      /\ todo' = journal.cleanup /\ journal.phase = "prepared"
      /\ UNCHANGED <<plan, cur, evidence, saved, count>>
  BY DEF IInv, PhaseAt, Publishing, RecoverPrepared, TargetAppeared,
         PublicationFails, Rollback
<1>2. TypeOK'
  BY <1>1 DEF IInv, TypeOK, Places, Journal, evidence, saved, count
<1>3. EvidenceWhole' /\ Kept' /\ Undoable' /\ Whole'
  BY <1>1, FrameInv
<1>4. /\ PhaseAt' /\ DirAt' /\ AsBefore' /\ Copied' /\ Planned'
      /\ Progress' /\ Undone'
  BY <1>1 DEF IInv, PhaseAt, DirAt, AsBefore, Copied, Planned, Progress,
              Undone, Publishing, InTransaction, evidence, saved
<1>5. QED
  BY <1>2, <1>3, <1>4 DEF IInv

-----------------------------------------------------------------------------
(* The rollback *)

(* An output of the transaction was not there before it. *)
LEMMA UndoInv ==
    ASSUME IInv, OutputsUndone \/ \E p \in Paths : UndoOutput(p)
    PROVE  IInv'
<1>1. CASE OutputsUndone
  <2>1. TypeOK'
    BY <1>1 DEF IInv, TypeOK, Places, Journal, OutputsUndone, evidence, saved,
                count
  <2>2. EvidenceWhole' /\ Kept' /\ Undoable' /\ Whole'
    BY <1>1, FrameInv DEF OutputsUndone
  <2>3. /\ PhaseAt' /\ DirAt' /\ AsBefore' /\ Copied' /\ Planned'
        /\ Progress' /\ Undone'
    BY <1>1 DEF IInv, PhaseAt, DirAt, AsBefore, Copied, Planned, Progress,
                Undone, Publishing, InTransaction, Unwritten, OutputsUndone,
                evidence, saved
  <2>4. QED
    BY <2>1, <2>2, <2>3 DEF IInv
<1>2. ASSUME NEW p \in Paths, UndoOutput(p) PROVE IInv'
  <2>1. /\ pc = "undo" /\ pc' = "undo" /\ p \in journal.cleanup
        /\ journal.phase = "prepared"
        /\ file' = [file EXCEPT ![p] = Absent] /\ todo' = todo \ {p}
        /\ UNCHANGED <<then, plan, cur, registry, saved, count>>
    BY <1>2 DEF IInv, PhaseAt, Undone, UndoOutput
  <2>2. TypeOK'
    BY <2>1 DEF IInv, TypeOK, Content, saved, count
  <2>3. EvidenceWhole' /\ Kept' /\ Whole'
    BY <2>1, ContentAssumption
       DEF IInv, TypeOK, EvidenceWhole, Kept, Whole, Before, Restored, saved
  <2>4. Undoable'
    BY <2>1
       DEF IInv, TypeOK, Kept, Undoable, BackedUp, Untouched, Named, saved
  <2>5. Undone'
    BY <2>1 DEF IInv, TypeOK, Undone, Unwritten, saved
  <2>6. PhaseAt' /\ DirAt' /\ AsBefore' /\ Copied' /\ Planned' /\ Progress'
    BY <2>1 DEF IInv, PhaseAt, DirAt, AsBefore, Copied, Planned, Progress,
                Publishing, InTransaction, saved
  <2>7. QED
    BY <2>2, <2>3, <2>4, <2>5, <2>6 DEF IInv
<1>3. QED
  BY <1>1, <1>2

(* A file is restored only from a copy that exists. *)
LEMMA RestoreInv ==
    ASSUME IInv, RestoreEnd \/ \E p \in Paths : RestoreStart(p)
    PROVE  IInv'
<1>1. PICK p \in Paths, c \in Content :
         /\ c \in {Partial, backup[p]}
         /\ p \in todo /\ p \in journal.backups /\ backup[p] # Absent
         /\ file' = [file EXCEPT ![p] = c]
         /\ journal.phase = "prepared"
         /\ pc \in {"restore", "copy"}
         /\ \/ pc' = "copy" /\ todo' = todo /\ cur' = p
            \/ pc' = "restore" /\ todo' = todo \ {p} /\ cur' = cur /\ c = backup[p]
         /\ UNCHANGED <<then, plan, registry, saved, count>>
  BY DEF IInv, TypeOK, Content, PhaseAt, Undone, RestoreStart, RestoreEnd
<1>2. TypeOK'
  BY <1>1 DEF IInv, TypeOK, Content, Places, saved, count
<1>3. EvidenceWhole' /\ Kept' /\ Whole'
  BY <1>1
     DEF IInv, TypeOK, EvidenceWhole, Kept, Whole, Before, Restored, saved
<1>4. Undoable'
  BY <1>1 DEF IInv, TypeOK, Kept, Undoable, BackedUp, Untouched, Named, saved
<1>5. Undone'
  BY <1>1 DEF IInv, TypeOK, Kept, Undone, Unwritten, saved
<1>6. PhaseAt' /\ DirAt' /\ AsBefore' /\ Copied' /\ Planned' /\ Progress'
  BY <1>1 DEF IInv, PhaseAt, DirAt, AsBefore, Copied, Planned, Progress,
              Publishing, InTransaction, saved
<1>7. QED
  BY <1>2, <1>3, <1>4, <1>5, <1>6 DEF IInv

(* When every file is restored the old registry is true again. *)
LEMMA RolledBackInv ==
    ASSUME IInv, RestoreRegistry \/ RolledBack
    PROVE  IInv'
<1>1. CASE RestoreRegistry
  <2>1. TypeOK' /\ PhaseAt' /\ DirAt' /\ EvidenceWhole'
    BY <1>1 DEF IInv, TypeOK, PhaseAt, DirAt, EvidenceWhole, Places, Registry,
                Journal, Publishing, RestoreRegistry, memory, saved, count
  <2>2. Kept' /\ Whole'
    BY <1>1 DEF IInv, Kept, Whole, Before, Restored, RestoreRegistry, saved
  <2>3. Undoable'
    BY <1>1
       DEF IInv, TypeOK, PhaseAt, Kept, Undone, Undoable, BackedUp, Untouched,
           Unwritten, Before, Restored, Named, RestoreRegistry, saved
  <2>4. Undone'
    BY <1>1
       DEF IInv, Undone, Before, Unwritten, RestoreRegistry, memory, saved
  <2>5. AsBefore' /\ Copied' /\ Planned' /\ Progress'
    BY <1>1 DEF AsBefore, Copied, Planned, Progress, Publishing,
                InTransaction, RestoreRegistry, saved
  <2>6. QED
    BY <2>1, <2>2, <2>3, <2>4, <2>5 DEF IInv
<1>2. CASE RolledBack
  <2>1. TypeOK' /\ PhaseAt' /\ DirAt'
    BY <1>2 DEF IInv, TypeOK, PhaseAt, DirAt, Places, Registry, Journal,
                Publishing, RolledBack, memory, evidence, count
  <2>2. EvidenceWhole' /\ Kept' /\ Undoable'
    BY <1>2
       DEF IInv, TypeOK, PhaseAt, EvidenceWhole, Kept, Undoable, Undone,
           Journal, Before, Restored, Intact, Named, RolledBack, evidence
  <2>3. Whole'
    BY <1>2, ContentAssumption
       DEF IInv, TypeOK, Whole, Undone, RolledBack, evidence
  <2>4. AsBefore' /\ Copied' /\ Planned' /\ Progress' /\ Undone'
    BY <1>2 DEF IInv, TypeOK, Journal, AsBefore, Copied, Planned, Progress,
                Undone, Publishing, InTransaction, RolledBack
  <2>5. QED
    BY <2>1, <2>2, <2>3, <2>4 DEF IInv
<1>3. QED
  BY <1>1, <1>2

-----------------------------------------------------------------------------
(* The clean-up *)

(* An abandoned transaction has changed nothing, so that its copies may go. *)
LEMMA DropBackupInv ==
    ASSUME IInv, NEW p \in Paths, DropBackup(p)
    PROVE  IInv'
<1>1. /\ pc = "clear" /\ backup' = [backup EXCEPT ![p] = Absent]
      /\ UNCHANGED <<pc, memory, evidence, journal, dir, count>>
  BY DEF DropBackup
<1>2. TypeOK' /\ PhaseAt' /\ DirAt' /\ EvidenceWhole'
  BY <1>1 DEF IInv, TypeOK, Content, PhaseAt, DirAt, EvidenceWhole, Intact,
              Named, memory, evidence, count
<1>3. ASSUME journal.phase = "prepared", NEW q \in Paths, Before.names[q] # Absent
      PROVE  q \notin journal.cleanup /\ Restored(q)' = Before.names[q]
  <2>1. q \notin journal.cleanup /\ file[q] = Before.names[q]
    BY <1>1, <1>3 DEF IInv, Kept, AsBefore, Intact, Named
  <2>2. backup'[q] \in {Absent, backup[q]}
    BY <1>1 DEF IInv, TypeOK
  <2>3. QED
    BY <1>1, <1>3, <2>1, <2>2 DEF IInv, AsBefore, Restored, evidence
<1>4. Kept'
  BY <1>1, <1>3 DEF IInv, Kept, Before
<1>5. Undoable'
  BY <1>1 DEF IInv, TypeOK, AsBefore, Undoable, BackedUp, Untouched, Unwritten,
              Intact, Named, Before, evidence
<1>6. Whole'
  BY <1>1, ContentAssumption DEF IInv, TypeOK, AsBefore, Whole, evidence
<1>7. AsBefore'
  BY <1>1
     DEF IInv, TypeOK, AsBefore, Before, Unwritten, Intact, Named, evidence
<1>8. Copied' /\ Planned' /\ Progress' /\ Undone'
  BY <1>1
     DEF Copied, Planned, Progress, Undone, Publishing, InTransaction, memory
<1>9. QED
  BY <1>2, <1>4, <1>5, <1>6, <1>7, <1>8 DEF IInv

(* When the copies are gone the journal may go, whatever its phase: an     *)
(* abandoned transaction has left the evidence as it was.                  *)
LEMMA ClearedInv ==
    ASSUME IInv, DropDirectory \/ DropJournal
    PROVE  IInv'
<1>1. CASE DropDirectory
  <2>1. TypeOK' /\ PhaseAt' /\ DirAt' /\ EvidenceWhole' /\ Kept' /\ Whole'
    BY <1>1 DEF IInv, TypeOK, PhaseAt, DirAt, EvidenceWhole, Kept, Whole,
                Before, Restored, Intact, Named, Publishing, DropDirectory,
                memory, evidence, count
  <2>2. Undoable' /\ AsBefore'
    BY <1>1 DEF IInv, TypeOK, Journal, AsBefore, Undoable, Untouched,
                Unwritten, Before, Intact, Named, DropDirectory, evidence
  <2>3. Copied' /\ Planned' /\ Progress' /\ Undone'
    BY <1>1 DEF Copied, Planned, Progress, Undone, Publishing, InTransaction,
                DropDirectory
  <2>4. QED
    BY <2>1, <2>2, <2>3 DEF IInv
<1>2. CASE DropJournal
  <2>1. /\ pc = "clear" /\ dir = "absent" /\ journal' = NoJournal
        /\ pc' \in {"idle", "command"}
        /\ UNCHANGED <<evidence, dir, backup, count>>
    BY <1>2 DEF IInv, TypeOK, DropJournal, Exit
  <2>2. TypeOK'
    BY <1>2 DEF IInv, TypeOK, Places, Journal, Registry, NoJournal, NoPlan,
                Empty, DropJournal, Exit, memory, evidence, count
  <2>3. EvidenceWhole'
    BY <2>1 DEF IInv, EvidenceWhole, AsBefore, Intact, Named, evidence
  <2>4. Whole'
    BY <2>1, ContentAssumption DEF IInv, DirAt, Whole, evidence
  <2>5. /\ PhaseAt' /\ DirAt' /\ Kept' /\ Undoable' /\ AsBefore' /\ Copied'
        /\ Planned' /\ Progress' /\ Undone'
    BY <2>1 DEF IInv, PhaseAt, DirAt, Kept, Undoable, AsBefore, Copied,
                Planned, Progress, Undone, Publishing, InTransaction,
                NoJournal
  <2>6. QED
    BY <2>2, <2>3, <2>4, <2>5 DEF IInv
<1>3. QED
  BY <1>1, <1>2

-----------------------------------------------------------------------------
(* The commands *)

(* A command that is about to publish has a plan that fits the registry. *)
LEMMA PlanInv ==
    ASSUME IInv, NEW S \in SUBSET Paths,
           \/ StartRerender(S)
           \/ \E a \in Attempts :
                StartRun(a, S) \/ StartRender(a, S) \/ StartReregister(a, S)
    PROVE  IInv'
<1>1. /\ pc = "command" /\ journal.phase = "none"
      /\ pc' \in {"compute", "prepare"}
      /\ UNCHANGED <<then, todo, cur, evidence, saved, faults>>
  BY DEF IInv, PhaseAt, StartRun, StartRender, StartRerender, StartReregister,
         count
<1>2. Intact
  BY <1>1 DEF IInv, EvidenceWhole
<1>3. TypeOK'
  BY DEF IInv, TypeOK, Places, Registry, StartRun, StartRender, StartRerender,
         StartReregister, Take, Record, evidence, saved, count
<1>4. PlanFits(registry)' /\ \A p \in plan'.cleanup : Unwritten(p)'
  <2>1. ASSUME NEW a \in Attempts, StartRun(a, S)
        PROVE  PlanFits(registry)' /\ \A p \in plan'.cleanup : Unwritten(p)'
    BY <2>1 DEF IInv, TypeOK, StartRun, Take, Record, Named, PlanFits,
                Unwritten, evidence
  <2>2. ASSUME NEW a \in Attempts, StartRender(a, S)
        PROVE  PlanFits(registry)' /\ \A p \in plan'.cleanup : Unwritten(p)'
    BY <1>2, <2>2 DEF IInv, TypeOK, StartRender, Take, Record, Intact, Named,
                      PlanFits, Unwritten, evidence
  <2>3. CASE StartRerender(S)
    BY <2>3 DEF IInv, TypeOK, StartRerender, Take, Named, PlanFits, Unwritten,
                evidence
  <2>4. ASSUME NEW a \in Attempts, StartReregister(a, S)
        PROVE  PlanFits(registry)' /\ \A p \in plan'.cleanup : Unwritten(p)'
    <3>1. /\ plan'.kind = "reregister" /\ plan'.attempt = a
          /\ plan'.write = {} /\ plan'.cleanup = {} /\ plan'.backups = {}
          /\ plan'.after = [names |-> [p \in Paths |-> IF p \in S THEN Absent
                                         ELSE registry.names[p]],
                            by |-> a]
          /\ registry' = registry
      BY <2>4 DEF StartReregister, Take, Record, evidence
    <3>2. QED
      BY <3>1 DEF PlanFits
  <2>5. QED
    BY <2>1, <2>2, <2>3, <2>4
<1>5. Planned'
  BY <1>1, <1>4 DEF Planned, Publishing, InTransaction
<1>6. EvidenceWhole' /\ Kept' /\ Undoable' /\ Whole'
  BY <1>1, FrameInv
<1>7. PhaseAt' /\ DirAt' /\ AsBefore' /\ Copied' /\ Progress' /\ Undone'
  BY <1>1 DEF IInv, PhaseAt, DirAt, AsBefore, Copied, Progress, Undone,
              Publishing, evidence, saved
<1>8. QED
  BY <1>3, <1>5, <1>6, <1>7 DEF IInv

LEMMA CommandInv ==
    ASSUME IInv,
           \/ Computed
           \/ \E a \in Attempts, S \in SUBSET Paths : Retire(a, S)
    PROVE  IInv'
<1>1. CASE Computed
  <2>1. TypeOK'
    BY <1>1 DEF IInv, TypeOK, Places, Computed, memory, evidence, saved, count
  <2>2. EvidenceWhole' /\ Kept' /\ Undoable' /\ Whole'
    BY <1>1, FrameInv DEF Computed
  <2>3. Planned'
    BY <1>1 DEF IInv, Planned, PlanFits, Unwritten, Publishing, InTransaction,
                Computed, memory, evidence
  <2>4. PhaseAt' /\ DirAt' /\ AsBefore' /\ Copied' /\ Progress' /\ Undone'
    BY <1>1 DEF IInv, PhaseAt, DirAt, AsBefore, Copied, Progress, Undone,
                Publishing, Computed, memory, evidence, saved
  <2>5. QED
    BY <2>1, <2>2, <2>3, <2>4 DEF IInv
<1>2. ASSUME NEW a \in Attempts, NEW S \in SUBSET Paths, Retire(a, S)
      PROVE  IInv'
  <2>1. /\ journal.phase = "none" /\ pc' = "idle"
        /\ registry' = Record(a, {}, S)
        /\ UNCHANGED <<file, saved>>
    BY <1>2 DEF IInv, PhaseAt, Retire, Exit
  <2>2. TypeOK'
    BY <1>2 DEF IInv, TypeOK, Places, Registry, Retire, Record, Exit, NoPlan,
                Empty, saved
  <2>3. EvidenceWhole'
    BY <2>1 DEF IInv, TypeOK, EvidenceWhole, Intact, Named, Record, saved
  <2>4. /\ PhaseAt' /\ DirAt' /\ Kept' /\ Undoable' /\ Whole' /\ AsBefore'
        /\ Copied' /\ Planned' /\ Progress' /\ Undone'
    BY <2>1 DEF IInv, PhaseAt, DirAt, Kept, Undoable, Whole, AsBefore, Copied,
                Planned, Progress, Undone, Publishing, InTransaction, saved
  <2>5. QED
    BY <2>2, <2>3, <2>4 DEF IInv
<1>3. QED
  BY <1>1, <1>2

-----------------------------------------------------------------------------
(* The preparation *)

(* The journal is written before anything else. *)
LEMMA WriteJournalInv ==
    ASSUME IInv, WriteJournal
    PROVE  IInv'
<1>1. /\ pc = "prepare" /\ pc' = "mkdir" /\ journal'.phase = "preparing"
      /\ journal'.cleanup = plan.cleanup /\ journal'.backups = plan.backups
      /\ journal'.before = registry /\ todo' = plan.backups
      /\ UNCHANGED <<then, plan, cur, evidence, dir, backup, count>>
  BY DEF WriteJournal
<1>2. journal.phase = "none" /\ dir = "absent" /\ Intact
  BY <1>1 DEF IInv, PhaseAt, DirAt, EvidenceWhole
<1>3. TypeOK'
  BY DEF IInv, TypeOK, Places, Journal, WriteJournal, evidence, count
<1>4. PhaseAt' /\ DirAt' /\ EvidenceWhole' /\ Kept' /\ Undoable' /\ Whole'
  BY <1>1, <1>2 DEF IInv, PhaseAt, DirAt, EvidenceWhole, Kept, Undoable,
                    Whole, Intact, Named, Publishing, evidence
<1>5. AsBefore'
  BY <1>1, <1>2 DEF IInv, TypeOK, DirAt, Planned, AsBefore, Before, Unwritten,
                    Intact, Named, evidence
<1>6. Copied' /\ Progress' /\ Undone'
  BY <1>1 DEF Copied, Progress, Undone, Publishing
<1>7. Planned'
  BY <1>1 DEF IInv, Planned, PlanFits, Before, Publishing, InTransaction
<1>8. QED
  BY <1>3, <1>4, <1>5, <1>6, <1>7 DEF IInv

(* Each file is copied as it is. *)
LEMMA CopyInv ==
    ASSUME IInv, MakeDirectory \/ \E p \in Paths : CopyBackup(p)
    PROVE  IInv'
<1>1. PICK b \in {backup} \cup {[backup EXCEPT ![p] = file[p]] : p \in Paths} :
         /\ pc \in {"mkdir", "backup"} /\ pc' = "backup"
         /\ journal.phase = "preparing"
         /\ dir' = "present" /\ backup' = b
         /\ \/ b = backup /\ todo' = todo
            \/ \E p \in todo : /\ file[p] # Absent /\ todo' = todo \ {p}
                              /\ b = [backup EXCEPT ![p] = file[p]]
         /\ UNCHANGED <<then, plan, cur, evidence, journal, count>>
  BY DEF IInv, PhaseAt, DirAt, MakeDirectory, CopyBackup, memory
<1>2. TypeOK'
  BY <1>1 DEF IInv, TypeOK, Places, evidence, count
<1>3. PhaseAt' /\ DirAt' /\ EvidenceWhole' /\ Kept' /\ Undoable'
  BY <1>1 DEF IInv, PhaseAt, DirAt, EvidenceWhole, Kept, Undoable, Intact,
              Named, Publishing, evidence
<1>4. Whole'
  BY <1>1 DEF IInv, TypeOK, Whole, evidence
<1>5. AsBefore'
  BY <1>1 DEF IInv, TypeOK, Journal, AsBefore, Before, Unwritten, Intact,
              Named, evidence
<1>6. Copied'
  BY <1>1 DEF IInv, TypeOK, Journal, Copied, Publishing, evidence
<1>7. Planned'
  BY <1>1 DEF IInv, Planned, PlanFits, Before, Publishing, InTransaction
<1>8. Progress' /\ Undone'
  BY <1>1 DEF Progress, Undone, Publishing
<1>9. QED
  BY <1>2, <1>3, <1>4, <1>5, <1>6, <1>7, <1>8 DEF IInv

(* With every copy made the transaction can be undone. *)
LEMMA SealInv ==
    ASSUME IInv, Seal
    PROVE  IInv'
<1>1. /\ pc = "backup" /\ pc' = "sealed" /\ todo = {}
      /\ journal.phase = "preparing"
      /\ journal' = [journal EXCEPT !.phase = "prepared"]
      /\ UNCHANGED <<memory, evidence, dir, backup, count>>
  BY DEF IInv, PhaseAt, Seal
<1>2. /\ registry = Before /\ Intact /\ dir = "present"
      /\ \A p \in journal.cleanup : Unwritten(p)
      /\ \A p \in journal.backups : backup[p] = file[p] /\ backup[p] # Absent
  BY <1>1 DEF IInv, AsBefore, Copied, DirAt
<1>3. TypeOK' /\ PhaseAt' /\ DirAt' /\ EvidenceWhole'
  BY <1>1, <1>2 DEF IInv, TypeOK, PhaseAt, DirAt, EvidenceWhole, Places,
                    Journal, Publishing, memory, evidence, count
<1>4. PlanFits(Before) /\ plan.cleanup = journal.cleanup
      /\ plan.backups = journal.backups
  BY <1>1 DEF IInv, Planned, InTransaction
<1>5. Kept'
  BY <1>1, <1>2, <1>4 DEF IInv, TypeOK, Journal, Kept, PlanFits, Before,
                          Restored, Intact, Named, evidence
<1>6. Undoable' /\ Copied'
  BY <1>1, <1>2
     DEF IInv, TypeOK, Journal, Undoable, Copied, BackedUp, Publishing
<1>7. Whole' /\ AsBefore'
  BY <1>1, <1>2 DEF IInv, TypeOK, Journal, Whole, AsBefore, Before, Unwritten,
                    Intact, Named, evidence
<1>8. Planned'
  BY <1>1, <1>4 DEF IInv, TypeOK, Journal, Planned, PlanFits, Before, Publishing,
                    InTransaction, memory, evidence
<1>9. Progress' /\ Undone'
  BY <1>1 DEF Progress, Undone, Publishing
<1>10. QED
  BY <1>3, <1>5, <1>6, <1>7, <1>8, <1>9 DEF IInv

(* A plan names what it backs up, and names nothing new but what it writes. *)
LEMMA PlanAfter ==
    ASSUME NEW b \in Registry, PlanFits(b)
    PROVE  /\ \A p \in Paths \ plan.write : plan.after.names[p] \in {b.names[p], Absent}
           /\ \A p \in plan.backups \cap Paths : plan.after.names[p] # Absent
<1>1. CASE plan.kind \in {"run", "render"}
  BY <1>1, ContentAssumption DEF PlanFits
<1>2. CASE plan.kind = "rerender"
  BY <1>2 DEF PlanFits
<1>3. CASE plan.kind = "reregister"
  <2>1. plan.backups = {}
    BY <1>3 DEF PlanFits
  <2>2. PICK S \in SUBSET Paths :
          plan.after = [names |-> [p \in Paths |-> IF p \in S
                                     THEN Absent ELSE b.names[p]],
                        by |-> plan.attempt]
    <3>1. plan.kind \notin {"run", "render"} /\ plan.kind # "rerender"
      BY <1>3
    <3>2. QED
      BY <3>1, Zenon DEF PlanFits
  <2>3. QED
    BY <2>1, <2>2
<1>4. QED
  BY <1>1, <1>2, <1>3 DEF PlanFits

(* A transaction that is given up before it has published, and one that is *)
(* about to publish.                                                       *)
LEMMA PreparedInv ==
    ASSUME IInv, Abandon \/ Prepared
    PROVE  IInv'
<1>1. TypeOK'
  BY FaultAssumption DEF IInv, TypeOK, Places, Abandon, Prepared, evidence,
                         saved, count
<1>2. EvidenceWhole' /\ Kept' /\ Undoable' /\ Whole'
  BY FrameInv DEF Abandon, Prepared
<1>3. CASE Abandon
  <2>1. AsBefore'
    BY <1>3 DEF IInv, AsBefore, Before, Unwritten, Intact, Named, Abandon,
                evidence, saved
  <2>2. PhaseAt' /\ DirAt' /\ Copied' /\ Planned' /\ Progress' /\ Undone'
    BY <1>3 DEF IInv, PhaseAt, DirAt, Copied, Planned, Progress, Undone,
                Publishing, InTransaction, Abandon, saved
  <2>3. QED
    BY <1>1, <1>2, <2>1, <2>2 DEF IInv
<1>4. CASE Prepared
  <2>1. /\ pc = "sealed" /\ pc' = "publish" /\ todo' = plan.write
        /\ UNCHANGED <<then, plan, cur, evidence, saved, count>>
    BY <1>4 DEF Prepared
  <2>2. registry = Before /\ Intact /\ PlanFits(Before) /\ Before \in Registry
    BY <2>1 DEF IInv, TypeOK, Journal, AsBefore, Planned, InTransaction, Before
  <2>3. ASSUME NEW p \in Paths \ plan.write, plan.after.names[p] # Absent
        PROVE  file[p] = plan.after.names[p]
    <3>1. plan.after.names[p] \in {Before.names[p], Absent}
      BY <2>2, <2>3, PlanAfter
    <3>2. QED
      BY <2>2, <2>3, <3>1 DEF Intact, Named
  <2>4. Progress'
    BY <2>1, <2>3 DEF Progress, Publishing, evidence
  <2>5. Planned'
    BY <2>1, <2>2
       DEF IInv, Planned, PlanFits, Before, Publishing, InTransaction,
           evidence, saved
  <2>6. PhaseAt' /\ DirAt' /\ AsBefore' /\ Copied' /\ Undone'
    BY <2>1 DEF IInv, PhaseAt, DirAt, AsBefore, Copied, BackedUp, Undone,
                Publishing, evidence, saved
  <2>7. QED
    BY <1>1, <1>2, <2>4, <2>5, <2>6 DEF IInv
<1>5. QED
  BY <1>3, <1>4

-----------------------------------------------------------------------------
(* The publication *)

(* A published path belongs to the plan, and the plan is covered by the    *)
(* journal; what it should hold is what the new registry names.            *)
LEMMA PlanCovers ==
    ASSUME IInv, pc \in Publishing, NEW p \in todo
    PROVE  /\ p \in Paths
           /\ p \in journal.cleanup \cup journal.backups
           /\ p \in journal.backups => backup[p] # Absent
           /\ Staged(p) = plan.after.names[p] /\ Staged(p) \in Attempts
<1>1. /\ p \in plan.write /\ PlanFits(Before) /\ registry = Before
      /\ plan.cleanup = journal.cleanup /\ plan.backups = journal.backups
  BY DEF IInv, Progress, Planned, InTransaction
<1>2. p \in Paths
  BY DEF IInv, TypeOK
<1>3. p \in journal.cleanup \cup journal.backups
  BY <1>1 DEF PlanFits
<1>4. p \in journal.backups => backup[p] # Absent
  BY DEF IInv, Copied, BackedUp
<1>5. Staged(p) = plan.after.names[p] /\ Staged(p) # Absent
  BY <1>1, <1>2, ContentAssumption DEF PlanFits, Staged
<1>6. plan.after.names[p] \in Attempts \cup {Absent}
  BY <1>2 DEF IInv, TypeOK, Registry
<1>7. QED
  BY <1>2, <1>3, <1>4, <1>5, <1>6

(* A file of the plan changes: it is covered. *)
LEMMA PublishFileInv ==
    ASSUME IInv, Place \/ \E p \in Paths : Choose(p) \/ WriteReceipt(p)
    PROVE  IInv'
<1>1. PICK p \in todo :
         /\ pc \in Publishing /\ pc' \in {"publish", "target"}
         /\ \/ pc' = "target" /\ todo' = todo /\ cur' = p
               /\ file' \in {file, [file EXCEPT ![p] = Absent]}
            \/ pc' = "publish" /\ todo' = todo \ {p} /\ cur' = cur
               /\ file' = [file EXCEPT ![p] = Staged(p)]
         /\ UNCHANGED <<then, plan, registry, saved, count>>
  BY DEF IInv, Progress, Publishing, Place, Choose, WriteReceipt
<1>2. /\ p \in Paths /\ p \in journal.cleanup \cup journal.backups
      /\ p \in journal.backups => backup[p] # Absent
      /\ Staged(p) = plan.after.names[p] /\ Staged(p) \in Attempts
  BY <1>1, PlanCovers
<1>3. /\ journal.phase = "prepared" /\ BackedUp
      /\ \A q \in Paths \ {p} : file'[q] = file[q]
      /\ file'[p] \in {file[p], Absent, Staged(p)}
  BY <1>1, <1>2 DEF IInv, TypeOK, PhaseAt, Copied
<1>4. TypeOK'
  BY <1>1, <1>2 DEF IInv, TypeOK, Content, Places, saved, count
<1>5. PhaseAt' /\ DirAt' /\ AsBefore' /\ Copied' /\ Undone'
  BY <1>1, <1>3 DEF IInv, PhaseAt, DirAt, AsBefore, Copied, BackedUp, Undone,
                    Publishing, saved
<1>6. EvidenceWhole' /\ Undoable'
  BY <1>1, <1>3 DEF EvidenceWhole, Undoable, BackedUp, saved
<1>7. Kept'
  BY <1>1, <1>2, <1>3 DEF IInv, Kept, Before, Restored, saved
<1>8. Whole'
  BY <1>1, <1>2, <1>3, ContentAssumption DEF IInv, Whole, saved
<1>9. Planned'
  BY <1>1 DEF IInv, Planned, PlanFits, Before, Publishing, InTransaction, saved
<1>10. Progress'
  BY <1>1, <1>2, <1>3 DEF IInv, TypeOK, Progress, Publishing
<1>11. QED
  BY <1>4, <1>5, <1>6, <1>7, <1>8, <1>9, <1>10 DEF IInv

LEMMA PublishInv ==
    ASSUME IInv, TargetFree \/ WriteRegistry
    PROVE  IInv'
<1>1. /\ pc \in Publishing /\ pc' \in {"place", "published"}
      /\ pc' = "place" => pc = "target" /\ registry' = registry
      /\ pc' = "published" => todo = {} /\ registry' = plan.after
      /\ UNCHANGED <<memory, file, saved, count>>
  BY DEF Publishing, TargetFree, WriteRegistry, evidence
<1>2. journal.phase = "prepared" /\ BackedUp
  BY <1>1 DEF IInv, PhaseAt, Copied
<1>3. TypeOK'
  BY <1>1 DEF IInv, TypeOK, Places, memory, saved, count
<1>4. PhaseAt' /\ DirAt' /\ AsBefore' /\ Copied' /\ Undone'
  BY <1>1, <1>2 DEF IInv, PhaseAt, DirAt, AsBefore, Copied, BackedUp, Undone,
                    Publishing, memory, saved
<1>5. EvidenceWhole' /\ Undoable' /\ Kept' /\ Whole'
  BY <1>1, <1>2 DEF IInv, EvidenceWhole, Undoable, BackedUp, Kept, Before,
                    Restored, Whole, saved
<1>6. Planned'
  BY <1>1 DEF IInv, Planned, PlanFits, Before, Publishing, InTransaction,
              memory, saved
<1>7. Progress'
  BY <1>1 DEF IInv, Progress, Publishing, memory
<1>8. QED
  BY <1>3, <1>4, <1>5, <1>6, <1>7 DEF IInv

(* All that the new registry names is in place when it is committed. *)
LEMMA CommitInv ==
    ASSUME IInv, Commit
    PROVE  IInv'
<1>1. /\ pc = "published" /\ pc' = "clear"
      /\ journal' = [journal EXCEPT !.phase = "committed"]
      /\ UNCHANGED <<plan, todo, cur, evidence, dir, backup, count>>
  BY DEF Commit
<1>2. Intact
  BY <1>1 DEF IInv, Progress, Intact, Named
<1>3. TypeOK'
  BY DEF IInv, TypeOK, Places, Journal, Commit, evidence, count
<1>4. EvidenceWhole'
  BY <1>1, <1>2 DEF EvidenceWhole, Intact, Named, evidence
<1>5. journal'.phase = "committed"
  BY <1>1 DEF IInv, TypeOK, Journal
<1>6. Whole'
  <2>1. ASSUME NEW p \in journal.backups PROVE file[p] # Partial
    <3>1. p \in Paths /\ Before \in Registry
      BY DEF IInv, TypeOK, Journal, Before
    <3>2. plan.after.names[p] # Absent
      BY <1>1, <3>1, PlanAfter
         DEF IInv, Planned, InTransaction
    <3>3. plan.after.names[p] \in Attempts /\ file[p] = plan.after.names[p]
      BY <1>1, <3>1, <3>2 DEF IInv, TypeOK, Registry, Progress
    <3>4. QED
      BY <3>3, ContentAssumption
  <2>2. QED
    BY <1>1, <2>1 DEF IInv, Whole, evidence
<1>7. /\ PhaseAt' /\ DirAt' /\ Kept' /\ Undoable' /\ AsBefore' /\ Copied'
      /\ Planned' /\ Progress' /\ Undone'
  BY <1>1, <1>5 DEF IInv, PhaseAt, DirAt, Kept, Undoable, AsBefore, Copied,
                    Planned, Progress, Undone, Publishing, InTransaction
<1>8. QED
  BY <1>3, <1>4, <1>6, <1>7 DEF IInv

-----------------------------------------------------------------------------
(* A file of another program appears where nothing is: the registry names  *)
(* something at each of its paths, so this is none of them.                *)
LEMMA OutsideInv ==
    ASSUME IInv, NEW p \in Paths, Outside(p)
    PROVE  IInv'
<1>1. /\ file[p] = Absent /\ file' = [file EXCEPT ![p] = Foreign]
      /\ UNCHANGED <<pc, memory, registry, saved, count>>
  BY DEF Outside
<1>2. TypeOK' /\ PhaseAt' /\ DirAt' /\ Copied'
  BY <1>1 DEF IInv, TypeOK, Content, PhaseAt, DirAt, Copied, BackedUp, memory,
              saved, count
<1>3. EvidenceWhole'
  BY <1>1 DEF IInv, TypeOK, EvidenceWhole, Intact, Named, saved
<1>4. Kept'
  BY <1>1 DEF IInv, TypeOK, Kept, Before, Restored, saved
<1>5. Undoable'
  BY <1>1 DEF IInv, TypeOK, Undoable, BackedUp, Untouched, Named, saved
<1>6. Whole'
  BY <1>1, ContentAssumption DEF IInv, TypeOK, Whole, saved
<1>7. AsBefore'
  BY <1>1 DEF IInv, TypeOK, Journal, AsBefore, Before, Unwritten, Intact, Named,
              saved
<1>8. Planned'
  <2>1. PlanFits(registry) => PlanFits(registry)'
    BY <1>1 DEF PlanFits, memory
  <2>2. PlanFits(Before) => PlanFits(Before)'
    BY <1>1 DEF PlanFits, Before, memory, saved
  <2>3. plan.cleanup \subseteq Paths /\ plan' = plan
    BY <1>1 DEF IInv, TypeOK, memory
  <2>4. \A q \in plan.cleanup : Unwritten(q) => Unwritten(q)'
    BY <1>1, <2>3 DEF IInv, TypeOK, Unwritten
  <2>5. QED
    BY <1>1, <2>1, <2>2, <2>3, <2>4
       DEF IInv, Planned, Before, Publishing, InTransaction, saved
<1>9. Progress'
  BY <1>1 DEF IInv, TypeOK, Progress, Publishing, memory, saved
<1>10. Undone'
  BY <1>1 DEF IInv, TypeOK, Journal, Undone, Before, Unwritten, memory, saved
<1>11. QED
  BY <1>2, <1>3, <1>4, <1>5, <1>6, <1>7, <1>8, <1>9, <1>10 DEF IInv

LEMMA StutterInv ==
    ASSUME IInv, UNCHANGED vars
    PROVE  IInv'
<1>1. TypeOK'
  BY DEF IInv, TypeOK, vars, memory, evidence, saved, count
<1>2. EvidenceWhole' /\ Kept' /\ Undoable' /\ Whole'
  BY FrameInv DEF vars
<1>3. PhaseAt' /\ DirAt' /\ AsBefore' /\ Copied' /\ Progress' /\ Undone'
  BY DEF IInv, PhaseAt, DirAt, AsBefore, Before, Unwritten, Intact, Named,
         Copied, BackedUp, Progress, Undone, Publishing, vars, memory, evidence,
         saved
<1>4. Planned'
  BY DEF IInv, Planned, PlanFits, Before, Unwritten, Publishing, InTransaction,
         vars, memory, evidence, saved
<1>5. QED
  BY <1>1, <1>2, <1>3, <1>4 DEF IInv

(* The invariant of every behaviour. *)
THEOREM TransactionInvariant == Spec => []IInv
<1>1. ASSUME IInv, Next PROVE IInv'
  <2>1. CASE Recovery
    BY <1>1, <2>1, LeaveInv, RecoverInv, RollbackInv, UndoInv, RestoreInv,
       RolledBackInv, DropBackupInv, ClearedInv
       DEF Recovery
  <2>2. CASE Command
    BY <1>1, <2>2, LeaveInv, PlanInv, CommandInv DEF Command
  <2>3. CASE Transaction
    BY <1>1, <2>3, RollbackInv, WriteJournalInv, CopyInv, SealInv, PreparedInv,
       PublishFileInv, PublishInv, CommitInv
       DEF Transaction
  <2>4. CASE Environment
    BY <1>1, <2>4, LeaveInv, RollbackInv, PreparedInv, OutsideInv
       DEF Environment
  <2>5. QED
    BY <1>1, <2>1, <2>2, <2>3, <2>4 DEF Next
<1>2. IInv /\ [Next]_vars => IInv'
  BY <1>1, StutterInv
<1>3. QED
  BY InitInv, <1>2, PTL DEF Spec

-----------------------------------------------------------------------------
(* Type correctness of files, registry, journal and backups. *)
THEOREM TransactionTypeCorrect == Spec => []TypeOK
<1>1. IInv => TypeOK
  BY DEF IInv
<1>2. QED
  BY TransactionInvariant, <1>1, PTL

(* However often commands and recoveries are killed, a reader who finds no *)
(* prepared transaction finds every recorded file as it was recorded.      *)
THEOREM EvidenceWholeHolds == Spec => []EvidenceWhole
<1>1. IInv => EvidenceWhole
  BY DEF IInv
<1>2. QED
  BY TransactionInvariant, <1>1, PTL

(* A prepared transaction has all its backups, or has changed nothing. *)
THEOREM UndoableHolds == Spec => []Undoable
<1>1. IInv => Undoable
  BY DEF IInv
<1>2. QED
  BY TransactionInvariant, <1>1, PTL

-----------------------------------------------------------------------------
(***************************************************************************)
(* ResultsTransaction implements ResultsPublication, for any paths,        *)
(* receipts, attempts and any number of faults: through kills, rollbacks   *)
(* and recoveries the evidence changes by whole publications only.         *)
(*                                                                         *)
(* The argument: wherever a transaction only copies or cleans up, what a   *)
(* rollback would restore is what is there (PlainView); a single file that *)
(* changes is either covered by the journal or nobody's evidence           *)
(* (OneFile); and the commit, which makes the new files and the new        *)
(* registry count at once, is the publication (CommitPublishes).           *)
(***************************************************************************)

Step == [Publication!Next]_(Publication!vars)

(* Where a rollback would change nothing that a reader sees. *)
Plain == journal.phase # "prepared" \/ pc \in {"mkdir", "backup", "sealed", "clear", "check"}

-----------------------------------------------------------------------------
(* The view of a reader *)

(* A half copied file is never in view. *)
LEMMA FilesType ==
    ASSUME IInv
    PROVE  Files \in [Paths -> Attempts \cup {Absent, Foreign}]
<1>1. ASSUME NEW p \in Paths PROVE file[p] \in Content /\ backup[p] \in Content
  BY DEF IInv, TypeOK
<1>2. ASSUME NEW p \in Paths PROVE Files[p] \in Attempts \cup {Absent, Foreign}
  BY <1>1 DEF IInv, Whole, Content, Files, Restored
<1>3. QED
  BY <1>2 DEF Files

(* What is registered is in view. *)
LEMMA RegisteredSeen ==
    ASSUME IInv, NEW p \in Paths, Registered.names[p] # Absent
    PROVE  Files[p] = Registered.names[p]
  BY DEF IInv, EvidenceWhole, Intact, Named, Kept, Before, Files, Registered

LEMMA PlainView ==
    ASSUME IInv, Plain
    PROVE  Files = [p \in Paths |-> file[p]] /\ Registered = registry
<1>1. CASE journal.phase # "prepared"
  BY <1>1 DEF Files, Registered
<1>2. CASE journal.phase = "prepared"
  <2>1. /\ registry = Before
        /\ \A p \in journal.cleanup : Unwritten(p)
        /\ \A p \in journal.backups : backup[p] \in {Absent, file[p]}
    BY <1>2 DEF IInv, Plain, AsBefore, Undone
  <2>2. ASSUME NEW p \in Paths PROVE Restored(p) = file[p]
    BY <2>1 DEF Restored, Unwritten
  <2>3. QED
    BY <1>2, <2>1, <2>2 DEF Files, Registered, Before
<1>3. QED
  BY <1>1, <1>2

(* The same of the state after a step. *)
SeenInOrder ==
    /\ Files \in [Paths -> Attempts \cup {Absent, Foreign}]
    /\ \A p \in Paths : Registered.names[p] # Absent => Files[p] = Registered.names[p]
    /\ Plain => Files = [p \in Paths |-> file[p]] /\ Registered = registry

LEMMA NextView == IInv' => SeenInOrder'
<1>1. IInv => SeenInOrder
  BY FilesType, RegisteredSeen, PlainView DEF SeenInOrder
<1>2. QED
  BY <1>1, PTL

(* Between two such places nothing is seen to happen. *)
LEMMA PlainStep ==
    ASSUME IInv, IInv', Plain, Plain', UNCHANGED evidence
    PROVE  Step
<1>1. Files = [p \in Paths |-> file[p]] /\ Registered = registry
  BY PlainView
<1>2. Files' = [p \in Paths |-> file'[p]] /\ Registered' = registry'
  BY NextView DEF SeenInOrder
<1>3. QED
  BY <1>1, <1>2 DEF evidence, Step, Publication!vars

-----------------------------------------------------------------------------
(* Steps that publish nothing *)

LEMMA QuietStep ==
    ASSUME UNCHANGED <<evidence, saved>>
    PROVE  Step
<1>1. Files' = Files
  BY DEF Files, Restored, evidence, saved
<1>2. Registered' = Registered
  BY DEF Registered, evidence, saved
<1>3. QED
  BY <1>1, <1>2 DEF Step, Publication!vars

(* One file changes: a reader sees no change, or one of a file that the    *)
(* registry does not name.                                                 *)
LEMMA OneFile ==
    ASSUME IInv, IInv', UNCHANGED <<registry, saved>>, NEW p \in Paths,
           \A q \in Paths \ {p} : file'[q] = file[q],
           Files'[p] = Files[p] \/ {Files[p], Files'[p]} \subseteq {Absent, Foreign}
    PROVE  Step
<1>1. Registered' = Registered
  BY DEF Registered, saved
<1>2. \A q \in Paths \ {p} : Files'[q] = Files[q]
  BY DEF Files, Restored, saved
<1>3. Files \in [Paths -> Attempts \cup {Absent, Foreign}]
  BY FilesType
<1>4. Files' \in [Paths -> Attempts \cup {Absent, Foreign}]
  BY NextView DEF SeenInOrder
<1>5. CASE Files'[p] = Files[p]
  <2>1. Files' = Files
    BY <1>2, <1>3, <1>4, <1>5
  <2>2. QED
    BY <1>1, <2>1 DEF Step, Publication!vars
<1>6. CASE Files'[p] # Files[p]
  <2>1. Registered.names[p] = Absent
    <3>1. Registered.names[p] # Absent => Files[p] = Registered.names[p]
      BY RegisteredSeen
    <3>2. (Registered.names[p] # Absent => Files[p] = Registered.names[p])'
      BY NextView DEF SeenInOrder
    <3>3. QED
      BY <1>1, <1>6, <3>1, <3>2
  <2>2. {Files[p], Files'[p]} = {Absent, Foreign}
    BY <1>6
  <2>3. Publication!Disturb
    BY <1>1, <1>2, <1>4, <2>1, <2>2 DEF Publication!Disturb
  <2>4. QED
    BY <2>3 DEF Step, Publication!Next
<1>7. QED
  BY <1>5, <1>6

(* A file that the journal covers does not count before the commit. *)
LEMMA CoveredFile ==
    ASSUME IInv, IInv', UNCHANGED <<registry, saved>>, journal.phase = "prepared",
           NEW p \in Paths, \A q \in Paths \ {p} : file'[q] = file[q],
           p \in journal.cleanup \/ (p \in journal.backups /\ backup[p] # Absent)
    PROVE  Step
<1>1. CASE p \in journal.cleanup
  <2>1. {Files[p], Files'[p]} \subseteq {Absent, Foreign}
    BY <1>1 DEF Files, Restored, saved
  <2>2. QED
    BY <2>1, OneFile
<1>2. CASE p \in journal.backups /\ p \notin journal.cleanup
  <2>1. Files'[p] = Files[p]
    BY <1>2 DEF Files, Restored, saved
  <2>2. QED
    BY <2>1, OneFile
<1>3. QED
  BY <1>1, <1>2

LEMMA FileStep ==
    ASSUME IInv, IInv',
           \/ RestoreEnd \/ Place
           \/ \E p \in Paths : UndoOutput(p) \/ RestoreStart(p) \/ Choose(p) \/ WriteReceipt(p)
    PROVE  Step
<1>1. CASE RestoreEnd \/ \E p \in Paths : UndoOutput(p) \/ RestoreStart(p)
  <2>1. PICK p \in todo :
          /\ pc \in {"undo", "restore", "copy"} /\ UNCHANGED <<registry, saved>>
          /\ \E c : file' = [file EXCEPT ![p] = c]
          /\ pc # "undo" => backup[p] # Absent
    BY <1>1 DEF IInv, Undone, RestoreEnd, UndoOutput, RestoreStart
  <2>2. /\ p \in Paths /\ journal.phase = "prepared"
        /\ p \in journal.cleanup \/ (p \in journal.backups /\ backup[p] # Absent)
    BY <2>1 DEF IInv, TypeOK, PhaseAt, Undone
  <2>3. \A q \in Paths \ {p} : file'[q] = file[q]
    BY <2>1 DEF IInv, TypeOK
  <2>4. QED
    BY <2>1, <2>2, <2>3, CoveredFile
<1>2. CASE Place \/ \E p \in Paths : Choose(p) \/ WriteReceipt(p)
  <2>1. PICK p \in todo :
          /\ pc \in Publishing /\ UNCHANGED <<registry, saved>>
          /\ file' = file \/ \E c : file' = [file EXCEPT ![p] = c]
    BY <1>2 DEF IInv, Progress, Publishing, Place, Choose, WriteReceipt
  <2>2. /\ p \in Paths /\ journal.phase = "prepared"
        /\ p \in journal.cleanup \/ (p \in journal.backups /\ backup[p] # Absent)
    BY <2>1, PlanCovers DEF IInv, PhaseAt
  <2>3. \A q \in Paths \ {p} : file'[q] = file[q]
    BY <2>1 DEF IInv, TypeOK
  <2>4. QED
    BY <2>1, <2>2, <2>3, CoveredFile
<1>3. QED
  BY <1>1, <1>2

(* Another program's file is nobody's evidence. *)
LEMMA OutsideStep ==
    ASSUME IInv, IInv', NEW p \in Paths, Outside(p)
    PROVE  Step
<1>1. /\ file[p] = Absent /\ file'[p] = Foreign
      /\ \A q \in Paths \ {p} : file'[q] = file[q]
      /\ UNCHANGED <<registry, saved>>
  BY DEF IInv, TypeOK, Outside
<1>2. Files'[p] = Files[p] \/ {Files[p], Files'[p]} \subseteq {Absent, Foreign}
  BY <1>1 DEF Files, Restored, saved
<1>3. QED
  BY <1>1, <1>2, OneFile

(* The old registry counts until the commit, whatever is in its place. *)
LEMMA RegistryStep ==
    ASSUME IInv, RestoreRegistry \/ WriteRegistry
    PROVE  Step
<1>1. journal.phase = "prepared" /\ UNCHANGED <<file, saved>>
  BY DEF IInv, PhaseAt, Publishing, RestoreRegistry, WriteRegistry
<1>2. Files' = Files /\ Registered' = Registered
  BY <1>1 DEF Files, Restored, Registered, saved
<1>3. QED
  BY <1>2 DEF Step, Publication!vars

(* Preparing, and clearing what is over. *)
LEMMA HousekeepingStep ==
    ASSUME IInv, IInv',
           \/ RolledBack \/ DropDirectory \/ DropJournal
           \/ WriteJournal \/ MakeDirectory \/ Seal
           \/ \E p \in Paths : DropBackup(p) \/ CopyBackup(p)
    PROVE  Step
<1>1. UNCHANGED evidence
  BY DEF RolledBack, DropDirectory, DropJournal, WriteJournal, MakeDirectory,
         Seal, DropBackup, CopyBackup
<1>2. Plain
  BY DEF IInv, PhaseAt, Plain, RolledBack, DropDirectory, DropJournal,
         WriteJournal, MakeDirectory, Seal, DropBackup, CopyBackup
<1>3. Plain'
  BY DEF Plain, NoJournal, RolledBack, DropDirectory, DropJournal,
         WriteJournal, MakeDirectory, Seal, DropBackup, CopyBackup
<1>4. QED
  BY <1>1, <1>2, <1>3, PlainStep

-----------------------------------------------------------------------------
(* Steps that change the evidence *)

(* retire replaces the registry in one step. *)
LEMMA RetireStep ==
    ASSUME IInv, NEW a \in Attempts, NEW S \in SUBSET Paths, Retire(a, S)
    PROVE  Step
<1>1. /\ journal.phase = "none" /\ UNCHANGED <<file, saved>>
      /\ registry' = Record(a, {}, S)
  BY DEF IInv, PhaseAt, Retire
<1>2. Files' = Files /\ Registered = registry /\ Registered' = Record(a, {}, S)
  BY <1>1 DEF Files, Registered, saved
<1>3. Publication!Reregister(a, S)
  BY <1>2 DEF Publication!Reregister, Record
<1>4. QED
  BY <1>3 DEF Step, Publication!Next

(* The commit is the publication. *)
LEMMA CommitPublishes ==
    ASSUME IInv, IInv', Commit
    PROVE  Step
<1>1. /\ pc = "published" /\ journal.phase = "prepared" /\ pc' = "clear"
      /\ registry = plan.after /\ UNCHANGED evidence
      /\ PlanFits(Before)
      /\ plan.cleanup = journal.cleanup /\ plan.backups = journal.backups
  BY DEF IInv, Commit, Progress, Planned, InTransaction
<1>2. \A p \in Paths : plan.after.names[p] # Absent => file[p] = plan.after.names[p]
  BY <1>1 DEF IInv, Progress
<1>3. Files' = [p \in Paths |-> file[p]] /\ Registered' = plan.after
  <2>1. Plain'
    BY <1>1 DEF Plain
  <2>2. (Files = [p \in Paths |-> file[p]] /\ Registered = registry)'
    BY <2>1, NextView DEF SeenInOrder
  <2>3. QED
    BY <1>1, <2>2 DEF evidence
<1>4. /\ Registered = Before
      /\ \A p \in Paths : p \notin plan.cleanup \cup plan.backups => Files[p] = file[p]
  BY <1>1 DEF Files, Restored, Registered, Before
<1>5. CASE plan.kind \in {"run", "render"}
  <2>1. /\ plan.attempt \in Attempts
        /\ plan.write = plan.cleanup \cup plan.backups
        /\ plan.after = [names |-> [p \in Paths |-> IF p \in plan.write
                                      THEN plan.attempt ELSE Before.names[p]],
                         by |-> plan.attempt]
    BY <1>1, <1>5 DEF PlanFits
  <2>2. plan.write \in SUBSET Paths
    BY DEF IInv, TypeOK
  <2>3. \A p \in plan.write : file[p] = plan.attempt
    BY <1>2, <2>1, <2>2, ContentAssumption
  <2>4. Publication!Publish(plan.attempt, plan.write)
    BY <1>3, <1>4, <2>1, <2>3 DEF Publication!Publish
  <2>5. QED
    BY <2>1, <2>2, <2>4 DEF Step, Publication!Next
<1>6. CASE plan.kind = "rerender"
  <2>1. /\ plan.after = Before /\ plan.cleanup = {}
        /\ \A p \in plan.backups : Before.names[p] # Absent
    BY <1>1, <1>6 DEF PlanFits
  <2>2. ASSUME NEW p \in Paths, p \in plan.backups PROVE Files[p] = file[p]
    <3>1. Files[p] = Before.names[p]
      BY <1>4, <2>1, <2>2, RegisteredSeen
    <3>2. QED
      BY <1>2, <2>1, <2>2, <3>1
  <2>3. Files' = Files
    BY <1>3, <1>4, <2>1, <2>2, FilesType
  <2>4. QED
    BY <1>3, <1>4, <2>1, <2>3 DEF Step, Publication!vars
<1>7. CASE plan.kind = "reregister"
  <2>1. plan.kind \notin {"run", "render"} /\ plan.kind # "rerender"
    BY <1>7
  <2>2. plan.attempt \in Attempts /\ plan.cleanup = {} /\ plan.backups = {}
    BY <1>1, <2>1 DEF PlanFits
  <2>3. PICK S \in SUBSET Paths :
          plan.after = [names |-> [p \in Paths |-> IF p \in S
                                     THEN Absent ELSE Before.names[p]],
                        by |-> plan.attempt]
    BY <1>1, <2>1, Zenon DEF PlanFits
  <2>4. Files' = Files
    BY <1>3, <1>4, <2>2, FilesType
  <2>5. Publication!Reregister(plan.attempt, S)
    BY <1>3, <1>4, <2>3, <2>4 DEF Publication!Reregister
  <2>6. QED
    BY <2>2, <2>5 DEF Step, Publication!Next
<1>8. QED
  BY <1>1, <1>5, <1>6, <1>7 DEF PlanFits

-----------------------------------------------------------------------------
(* Whoever reads the evidence while no transaction is prepared, or after   *)
(* the rollback of one that is, sees every attempt published as a whole or *)
(* not at all (commit_lifecycle_transaction, recover_transaction).         *)
THEOREM KeepsPublication == Spec => PublicationAtomic
<1>1. Init => Publication!Init
  BY DEF Init, Publication!Init, Files, Registered, NoJournal, Empty
<1>2. ASSUME IInv, IInv', Next PROVE Step
  <2>1. CASE Recovery
    <3>1. CASE \/ Begin \/ RecoverNothing \/ RecoverRefused \/ RecoverTerminal
               \/ RecoverPrepared \/ OutputsUndone
               \/ \E p \in Paths : RestoreMissing(p)
      <4>1. UNCHANGED <<evidence, saved>>
        BY <3>1 DEF Begin, RecoverNothing, RecoverRefused, RecoverTerminal,
                    RecoverPrepared, Rollback, OutputsUndone, RestoreMissing
      <4>2. QED
        BY <4>1, QuietStep
    <3>2. QED
      BY <1>2, <2>1, <3>1, FileStep, RegistryStep, HousekeepingStep DEF Recovery
  <2>2. CASE Command
    <3>1. CASE \E a \in Attempts, S \in SUBSET Paths : Retire(a, S)
      BY <1>2, <3>1, RetireStep
    <3>2. CASE ~\E a \in Attempts, S \in SUBSET Paths : Retire(a, S)
      <4>1. UNCHANGED <<evidence, saved>>
        BY <2>2, <3>2 DEF Command, Inspect, Computed, ComputeFails, StartRun,
                          StartRender, StartReregister, StartRerender
      <4>2. QED
        BY <4>1, QuietStep
    <3>3. QED
      BY <3>1, <3>2
  <2>3. CASE Transaction
    <3>1. CASE Prepared \/ TargetFree \/ TargetAppeared
      <4>1. UNCHANGED <<evidence, saved>>
        BY <3>1 DEF Prepared, TargetFree, TargetAppeared, Rollback
      <4>2. QED
        BY <4>1, QuietStep
    <3>2. QED
      BY <1>2, <2>3, <3>1, FileStep, RegistryStep, HousekeepingStep,
         CommitPublishes
         DEF Transaction
  <2>4. CASE Environment
    <3>1. CASE Abandon \/ PublicationFails \/ Crash
      <4>1. UNCHANGED <<evidence, saved>>
        BY <3>1 DEF Abandon, PublicationFails, Rollback, Crash
      <4>2. QED
        BY <4>1, QuietStep
    <3>2. QED
      BY <1>2, <2>4, <3>1, OutsideStep DEF Environment
  <2>5. QED
    BY <1>2, <2>1, <2>2, <2>3, <2>4 DEF Next
<1>3. ASSUME UNCHANGED vars PROVE Step
  BY <1>3, QuietStep DEF vars
<1>4. IInv /\ IInv' /\ [Next]_vars => [Publication!Next]_(Publication!vars)
  BY <1>2, <1>3 DEF Step
<1>5. QED
  BY <1>1, <1>4, TransactionInvariant, PTL
     DEF Spec, PublicationAtomic, Publication!Spec
=============================================================================
