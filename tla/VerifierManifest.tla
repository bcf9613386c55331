--------------------------- MODULE VerifierManifest ---------------------------
(* empirical_input_manifest.py: the PASS of a headline replicator is bound to *)
(* the code, the headline claims and the verifier script it was derived from. *)
(* finalize-pass runs the verifier and writes the PASS, without any lock;     *)
(* check-all decides under the shared side of the results lock whether every  *)
(* live analysis still has a PASS for what is on disk.  Meanwhile agents edit *)
(* files, and the results pipeline publishes and retires analyses under the   *)
(* exclusive side of that lock (its transactions: ResultsTransaction).        *)
EXTENDS Naturals, FiniteSets

CONSTANTS
    Analyses,       \* empirical_analysis*.md, with the files named after each
    Contents,       \* what a file, or the code as a whole, may hold
    Replicated,     \* bound: the analyses a headline replicator works on
    Edits           \* bound: edits by agents

Absent == "absent"

ASSUME ManifestAssumption == Edits \in Nat /\ Contents # {} /\ Absent \notin Contents

VARIABLES
    clock,          \* edits so far
    code,           \* the files under code/
    claims,         \* the Headline claims section of each analysis
    prose,          \* the rest of it
    script,         \* the verifier script of each analysis
    files,          \* which of its plan, report, bundle and receipt exist
    registry,       \* the results registry
    journal,        \* the analysis an unfinished pipeline transaction is about
    lock,           \* process_log/results_pipeline.lock
    pipeline,       \* the results pipeline command that runs
    candidate,      \* a PASS candidate awaits finalization
    result,         \* the replicator's result
    finalizer,      \* finalize-pass
    checker         \* check-all

inputs == <<clock, code, claims, prose, script>>
published == <<files, registry, journal, lock, pipeline>>
verdicts == <<candidate, result>>
vars == <<inputs, published, verdicts, finalizer, checker>>

None == "none"
Parts == {"code", "claims", "script"}
Manifest(a) == [code |-> code, claims |-> claims[a], script |-> script[a]]
Blank == [code |-> Absent, claims |-> Absent, script |-> Absent]
Original == CHOOSE c \in Contents : TRUE    \* a file is only compared with itself
NoResult == [verdict |-> "none", finalized |-> FALSE, manifest |-> Blank]
Bytes(a) == <<claims[a], prose[a]>>
Idle == [at |-> "idle", of |-> None, before |-> Blank, after |-> Blank,
         saw |-> {}, undone |-> {}, agrees |-> FALSE]
Resting == [at |-> "idle", since |-> 0, states |-> [a \in Analyses |-> "none"],
            todo |-> {}, listed |-> {}, rewritten |-> {}, clean |-> TRUE]

Init ==
    /\ clock = 0 /\ code = Original
    /\ claims = [a \in Analyses |-> Original] /\ prose = [a \in Analyses |-> Original]
    /\ script = [a \in Analyses |-> Absent]
    /\ files = [a \in Analyses |-> {}]
    /\ registry = [a \in Analyses |-> [state |-> "none", recorded |-> <<Absent, Absent>>]]
    /\ journal = None /\ lock = "free" /\ pipeline = [at |-> "idle", of |-> None]
    /\ candidate = [a \in Analyses |-> FALSE] /\ result = [a \in Analyses |-> NoResult]
    /\ finalizer = Idle /\ checker = Resting

-----------------------------------------------------------------------------
(* The results pipeline, as far as the verifier sees it *)

(* The empiricist writes a plan before a run; nothing is published yet.       *)
WritePlan(a) ==
    /\ files[a] = {} /\ files' = [files EXCEPT ![a] = {"plan"}]
    /\ UNCHANGED <<inputs, registry, journal, lock, pipeline, verdicts, finalizer, checker>>

TakeExclusive(a, at) ==
    /\ pipeline.at = "idle" /\ lock = "free" /\ lock' = "exclusive"
    /\ pipeline' = [at |-> at, of |-> a]

PublishStarts(a) ==
    /\ files[a] = {"plan"} /\ journal = None /\ TakeExclusive(a, "artifacts")
    /\ journal' = a
    /\ UNCHANGED <<inputs, files, registry, verdicts, finalizer, checker>>

PublishFiles ==
    /\ pipeline.at = "artifacts" /\ pipeline' = [pipeline EXCEPT !.at = "commit"]
    /\ files' = [files EXCEPT ![pipeline.of] = @ \cup {"report", "bundle", "receipt"}]
    /\ UNCHANGED <<inputs, registry, journal, lock, verdicts, finalizer, checker>>

PublishCommits ==
    /\ pipeline.at = "commit" /\ pipeline' = [at |-> "idle", of |-> None]
    /\ registry' = [registry EXCEPT ![pipeline.of] =
                        [state |-> "live", recorded |-> Bytes(pipeline.of)]]
    /\ journal' = None /\ lock' = "free"
    /\ UNCHANGED <<inputs, files, verdicts, finalizer, checker>>

(* A killed command leaves its journal; the kernel frees its lock.            *)
PipelineDies ==
    /\ pipeline.at # "idle" /\ pipeline' = [at |-> "idle", of |-> None] /\ lock' = "free"
    /\ UNCHANGED <<inputs, files, registry, journal, verdicts, finalizer, checker>>

Recover ==
    /\ journal # None /\ pipeline.at = "idle" /\ lock = "free" /\ journal' = None
    /\ files' = [files EXCEPT ![journal] = {"plan"}]
    /\ UNCHANGED <<inputs, registry, lock, pipeline, verdicts, finalizer, checker>>

Retire(a) ==
    /\ registry[a].state = "live" /\ journal = None /\ pipeline.at = "idle" /\ lock = "free"
    /\ registry' = [registry EXCEPT ![a].state = "retired"]
    /\ UNCHANGED <<inputs, files, journal, lock, pipeline, verdicts, finalizer, checker>>

-----------------------------------------------------------------------------
(* Agents *)

Edit == clock < Edits /\ clock' = clock + 1

(* What finalize-pass cannot see: its saw holds what a running verifier could *)
(* read, its undone the inputs put back as they were at the first reading.    *)
Watches ==
    \/ /\ finalizer.at \notin {"run", "after code", "after claims", "after script"}
       /\ UNCHANGED finalizer
    \/ \E a \in Analyses :
         /\ finalizer.at \in {"run", "after code", "after claims", "after script"}
         /\ finalizer.of = a
         /\ finalizer' = [finalizer EXCEPT
               !.saw = IF finalizer.at = "run" THEN @ \cup {Manifest(a)'} ELSE @,
               !.undone = @ \cup {part \in Parts : /\ Manifest(a)[part] # finalizer.before[part]
                                                 /\ Manifest(a)'[part] = finalizer.before[part]}]

(* A file is changed, added or deleted under code/.                           *)
EditCode ==
    /\ Edit /\ code' \in Contents \ {code} /\ UNCHANGED <<claims, prose, script>> /\ Watches
    /\ UNCHANGED <<published, verdicts, checker>>

EditReport(a) ==
    /\ Edit /\ "report" \in files[a] /\ pipeline.of # a
    /\ \/ /\ \E bytes \in Contents \ {claims[a]} : claims' = [claims EXCEPT ![a] = bytes]
          /\ UNCHANGED prose
       \/ /\ \E bytes \in Contents \ {prose[a]} : prose' = [prose EXCEPT ![a] = bytes]
          /\ UNCHANGED claims
    /\ UNCHANGED <<code, script>> /\ Watches
    /\ UNCHANGED <<published, verdicts, checker>>

(* The replicator writes or rewrites its script ...                           *)
WriteScript(a) ==
    /\ a \in Replicated /\ "report" \in files[a]
    /\ \/ /\ script[a] = Absent /\ script' = [script EXCEPT ![a] = Original]
          /\ UNCHANGED clock
       \/ /\ script[a] # Absent /\ Edit
          /\ \E bytes \in Contents \ {script[a]} : script' = [script EXCEPT ![a] = bytes]
    /\ UNCHANGED <<code, claims, prose>> /\ Watches
    /\ UNCHANGED <<published, verdicts, checker>>

(* ... leaves a candidate ...                                                 *)
WriteCandidate(a) ==
    /\ script[a] # Absent /\ ~candidate[a] /\ candidate' = [candidate EXCEPT ![a] = TRUE]
    /\ UNCHANGED <<inputs, published, result, finalizer, checker>>

(* ... or writes a verdict of its own, FAIL or a PASS nobody finalized.       *)
WriteVerdict(a) ==
    /\ Edit /\ script[a] # Absent
    /\ \E v \in {"PASS", "FAIL"} :
         result' = [result EXCEPT ![a] = [verdict |-> v, finalized |-> FALSE, manifest |-> Manifest(a)]]
    /\ UNCHANGED <<code, claims, prose, script, published, candidate, finalizer, checker>>

-----------------------------------------------------------------------------
(* finalize-pass *)

FinalizerMoves(f) ==
    finalizer' = f /\ UNCHANGED <<inputs, published, checker>>

FinalizeStarts(a) ==
    /\ finalizer.at = "idle" /\ candidate[a] /\ script[a] # Absent
    /\ FinalizerMoves([Idle EXCEPT !.at = "before code", !.of = a])
    /\ UNCHANGED verdicts

(* build_manifest reads the code, then the headline, then the script.         *)
Reads(f) == FinalizerMoves(f) /\ UNCHANGED verdicts

ReadCode ==
    \/ /\ finalizer.at = "before code"
       /\ Reads([finalizer EXCEPT !.at = "before claims", !.before.code = code])
    \/ /\ finalizer.at = "after code"
       /\ Reads([finalizer EXCEPT !.at = "after claims", !.after.code = code])

ReadHeadline ==
    \/ /\ finalizer.at = "before claims"
       /\ Reads([finalizer EXCEPT !.at = "before script", !.before.claims = claims[finalizer.of]])
    \/ /\ finalizer.at = "after claims"
       /\ Reads([finalizer EXCEPT !.at = "after script", !.after.claims = claims[finalizer.of]])

ReadScript ==
    \/ /\ finalizer.at = "before script"
       /\ Reads([finalizer EXCEPT !.at = "start", !.before.script = script[finalizer.of]])
    \/ /\ finalizer.at = "after script"
       /\ Reads([finalizer EXCEPT !.at = "derive", !.after.script = script[finalizer.of]])

RunVerifier ==
    /\ finalizer.at = "start"
    /\ FinalizerMoves([finalizer EXCEPT !.at = "run", !.saw = {Manifest(finalizer.of)},
                                        !.undone = {}])
    /\ UNCHANGED verdicts

(* It reports values within the tolerances of the claims it read, or not.     *)
VerifierEnds ==
    /\ finalizer.at = "run"
    /\ \E agrees \in BOOLEAN : Reads([finalizer EXCEPT !.at = "after code", !.agrees = agrees])

(* Mutant: only the manifest built after the run is bound.                    *)
AnyRun == finalizer.after # Blank

(* A run that changed what it was bound to, or disagrees, leaves everything   *)
(* as it was, an older result too.                                            *)
StableRun == finalizer.before = finalizer.after

Derive ==
    /\ finalizer.at = "derive"
    /\ IF StableRun /\ finalizer.agrees
       THEN /\ candidate[finalizer.of]
            /\ candidate' = [candidate EXCEPT ![finalizer.of] = FALSE]
            /\ FinalizerMoves([finalizer EXCEPT !.at = "write"])
       ELSE FinalizerMoves(Idle) /\ UNCHANGED candidate
    /\ UNCHANGED result

WriteResult ==
    /\ finalizer.at = "write"
    /\ result' = [result EXCEPT ![finalizer.of] =
                    [verdict |-> "PASS", finalized |-> TRUE, manifest |-> finalizer.after]]
    /\ checker' = IF checker.at = "idle" THEN checker
                  ELSE [checker EXCEPT !.rewritten = @ \cup {finalizer.of}]
    /\ finalizer' = Idle /\ UNCHANGED <<inputs, published, candidate>>

(* Killed, timed out, or unable to read, parse or write what it needs.        *)
FinalizeFails ==
    /\ finalizer.at # "idle" /\ FinalizerMoves(Idle) /\ UNCHANGED verdicts

-----------------------------------------------------------------------------
(* check-all *)

CheckerMoves(c) == checker' = c /\ UNCHANGED <<inputs, verdicts, finalizer>>

(* Mutant: check-all reads without the shared side of the lock.               *)
ChecksUnlocked ==
    /\ checker.at = "idle"
    /\ CheckerMoves([Resting EXCEPT !.at = "inventory", !.since = clock])
    /\ UNCHANGED published

CheckStarts ==
    /\ checker.at = "idle" /\ lock = "free" /\ lock' = "shared"
    /\ CheckerMoves([Resting EXCEPT !.at = "inventory", !.since = clock])
    /\ UNCHANGED <<files, registry, journal, pipeline>>

(* The validator of the results pipeline answers in a process of its own: it  *)
(* fails while a transaction is unfinished, and an artifact of a registered   *)
(* receipt, retired or not, must have the recorded bytes.                     *)
Registered == {a \in Analyses : registry[a].state # "none"}

Inventory ==
    /\ checker.at = "inventory" /\ UNCHANGED published
    /\ IF journal # None \/ \E a \in Registered : Bytes(a) # registry[a].recorded
       THEN CheckerMoves([checker EXCEPT !.at = "emit", !.clean = FALSE])
       ELSE CheckerMoves([checker EXCEPT !.at = "list",
                            !.states = [a \in Analyses |-> registry[a].state]])

(* One listing of output/stage3a.  A plan without a receipt is only a         *)
(* warning; any other file of an unregistered analysis, and a verifier file   *)
(* of an analysis without a report, is pollution.                             *)
ListArtifacts ==
    LET reports == {a \in Analyses : "report" \in files[a] /\ checker.states[a] # "none"}
        undeclared == {a \in Analyses : checker.states[a] = "none" /\ files[a] \ {"plan"} # {}}
        verified == {a \in Analyses : candidate[a] \/ result[a] # NoResult \/ script[a] # Absent}
    IN  /\ checker.at = "list" /\ UNCHANGED published
        /\ CheckerMoves([checker EXCEPT !.at = "compare", !.todo = reports, !.listed = reports,
               !.clean = reports # {} /\ undeclared = {} /\ verified \subseteq reports])

(* A PASS whose claims are those of a finalized verifier run: one that the    *)
(* replicator wrote by itself lacks the digest of such a run.                 *)
Derived(r) == r.verdict = "PASS" /\ r.finalized

(* compare_result, for what is not retired.                                   *)
Unchanged(a) == Derived(result[a]) /\ result[a].manifest = Manifest(a)

Compare(a) ==
    /\ checker.at = "compare" /\ a \in checker.todo /\ UNCHANGED published
    /\ CheckerMoves([checker EXCEPT !.todo = @ \ {a},
                       !.clean = @ /\ (checker.states[a] = "retired" \/ Unchanged(a))])

Emit ==
    /\ checker.at = "compare" /\ checker.todo = {} /\ UNCHANGED published
    /\ CheckerMoves([checker EXCEPT !.at = "emit"])

(* The verdict is out, or the check was killed.                               *)
CheckEnds ==
    /\ checker.at # "idle" /\ CheckerMoves(Resting)
    /\ lock' = "free" /\ UNCHANGED <<files, registry, journal, pipeline>>

-----------------------------------------------------------------------------
Pipeline ==
    \/ \E a \in Analyses : WritePlan(a) \/ PublishStarts(a) \/ Retire(a)
    \/ PublishFiles \/ PublishCommits \/ PipelineDies \/ Recover

Agents ==
    \/ EditCode
    \/ \E a \in Analyses : EditReport(a) \/ WriteScript(a) \/ WriteCandidate(a) \/ WriteVerdict(a)

Finalizer ==
    \/ \E a \in Analyses : FinalizeStarts(a)
    \/ ReadCode \/ ReadHeadline \/ ReadScript \/ RunVerifier \/ VerifierEnds
    \/ Derive \/ WriteResult \/ FinalizeFails

Checker ==
    \/ CheckStarts \/ Inventory \/ ListArtifacts \/ Emit \/ CheckEnds
    \/ \E a \in Analyses : Compare(a)

Next == Pipeline \/ Agents \/ Finalizer \/ Checker

Spec == Init /\ [][Next]_vars

-----------------------------------------------------------------------------
Manifests == [code: Contents \cup {Absent}, claims: Contents \cup {Absent},
              script: Contents \cup {Absent}]

FinalizerPlaces == {"idle", "before code", "before claims", "before script", "start", "run",
                    "after code", "after claims", "after script", "derive", "write"}

InputsOK ==
    /\ clock \in 0..Edits /\ code \in Contents
    /\ claims \in [Analyses -> Contents] /\ prose \in [Analyses -> Contents]
    /\ script \in [Analyses -> Contents \cup {Absent}]

PublishedOK ==
    /\ files \in [Analyses -> SUBSET {"plan", "report", "bundle", "receipt"}]
    /\ registry \in [Analyses -> [state: {"none", "live", "retired"}, recorded: (Contents \cup {Absent}) \X (Contents \cup {Absent})]]
    /\ journal \in Analyses \cup {None}
    /\ lock \in {"free", "shared", "exclusive"}
    /\ pipeline \in [at: {"idle", "artifacts", "commit"}, of: Analyses \cup {None}]

FinalizerOK ==
    /\ result \in [Analyses -> [verdict: {"none", "PASS", "FAIL"}, finalized: BOOLEAN,
                                manifest: Manifests]]
    /\ finalizer \in [at: FinalizerPlaces, of: Analyses \cup {None}, before: Manifests,
                      after: Manifests, saw: SUBSET Manifests, undone: SUBSET Parts,
                      agrees: BOOLEAN]
    /\ finalizer.at # "idle" => finalizer.of \in Analyses

CheckerOK ==
    checker \in [at: {"idle", "inventory", "list", "compare", "emit"}, since: Nat,
                 states: [Analyses -> {"none", "live", "retired"}],
                 todo: SUBSET Analyses, listed: SUBSET Analyses, rewritten: SUBSET Analyses,
                 clean: BOOLEAN]

TypeOK ==
    /\ candidate \in [Analyses -> BOOLEAN]
    /\ InputsOK /\ PublishedOK /\ FinalizerOK /\ CheckerOK

(* A PASS that finalize-pass writes names the code, the claims and the script *)
(* that its verifier could read from end to end and agreed with, although     *)
(* they are free to change between the two readings, inside each of them and  *)
(* during the run.  What finalize_pass cannot see is excepted, for it compares *)
(* only what it read before and after: an input that was put back as it was.  *)
RunVouches ==
    \A a \in Analyses : result[a]' # result[a] /\ result[a]'.finalized =>
        /\ finalizer.agrees /\ finalizer.saw # {}
        /\ \A seen \in finalizer.saw, part \in Parts \ finalizer.undone :
              seen[part] = result[a]'.manifest[part]

PassWasRun == [][RunVouches]_vars

(* check-all says UNCHANGED only when every analysis that is live as the      *)
(* verdict is emitted has a finalized PASS for the bytes on disk, and its     *)
(* report is the registered one: a publication beside the check must wait for *)
(* the shared lock (_results_read_lock).  What nobody locks is excepted: an   *)
(* agent that edits, and a result that finalize-pass replaces, during the     *)
(* check.                                                                     *)
CleanMeansVerified ==
    checker.at = "emit" /\ checker.clean /\ clock = checker.since =>
        \A a \in Analyses : registry[a].state = "live" =>
            /\ Bytes(a) = registry[a].recorded
            /\ Unchanged(a) \/ a \in checker.rewritten
=============================================================================
