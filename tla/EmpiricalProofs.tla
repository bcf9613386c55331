----------------------------- MODULE EmpiricalProofs -----------------------------
(* Proofs about what an empirical paper draws its numbers through: the        *)
(* verifier's manifest (VerifierManifest), the download caches (DataCache)    *)
(* and the WRDS client with its relay (WrdsClient).                           *)
(*                                                                            *)
(* The manifest.  A part that was not put back, and is what it was at the     *)
(* first reading, has been that for the whole run, so that the verifier saw   *)
(* one value of it when both readings agree.  check-all holds the shared      *)
(* lock: what it finds stands until somebody edits, or a finalizer, which     *)
(* takes no lock, replaces a result; a script that is there never goes away.  *)
(*                                                                            *)
(* The caches.  A call has a file open while it writes; where nobody else     *)
(* wrote, the temporary name leads to that file, and the file holds what the  *)
(* call has written.  In any case a chunk that is missing at the cache's or   *)
(* the temporary name has a writer that has yet to write it, or had one that  *)
(* was stopped.                                                               *)
(*                                                                            *)
(* The client.  A statement that may still be sent, or executed, has been     *)
(* executed no more often than it was re-sent after a lost endpoint; a latch  *)
(* that stood through a poll is the one on disk still, so that no answer but  *)
(* the latch, or busy, can follow it.                                         *)
EXTENDS VerifierManifest, DataCache, WrdsClient, FiniteSetTheorems, TLAPS

-----------------------------------------------------------------------------
(* The verifier's manifest                                                    *)

RunOver == {"after code", "after claims", "after script", "derive", "write"}

(* The parts that are read for the second time already, and what a part is as *)
(* far as the second reading goes.                                            *)
Reread ==
    {piece \in Parts :
        \/ piece = "code" /\ finalizer.at \in RunOver \ {"after code"}
        \/ piece = "claims" /\ finalizer.at \in {"after script", "derive", "write"}
        \/ piece = "script" /\ finalizer.at \in {"derive", "write"}}

Latest(piece) ==
    IF piece \in Reread THEN finalizer.after[piece] ELSE Manifest(finalizer.of)[piece]

(* A part that was not put back, and is what it was at the first reading, has *)
(* been that for the whole run.                                               *)
SawOne ==
    finalizer.at \in {"run"} \cup RunOver =>
        /\ finalizer.saw # {}
        /\ \A piece \in Parts \ finalizer.undone :
              Latest(piece) = finalizer.before[piece] =>
                  \A seen \in finalizer.saw : seen[piece] = finalizer.before[piece]

WriteIsStable == finalizer.at = "write" => StableRun /\ finalizer.agrees

IInv == TypeOK /\ SawOne /\ WriteIsStable

-----------------------------------------------------------------------------
LEMMA CurrentManifest ==
    ASSUME InputsOK, NEW a \in Analyses
    PROVE  /\ Manifest(a) \in Manifests
           /\ Manifest(a)["code"] = code /\ Manifest(a)["claims"] = claims[a]
           /\ Manifest(a)["script"] = script[a]
<1>1. code \in Contents /\ claims[a] \in Contents /\ script[a] \in Contents \cup {Absent}
  BY DEF InputsOK
<1> QED
  BY <1>1 DEF Manifest, Manifests

LEMMA OriginalContents == Original \in Contents
BY ManifestAssumption DEF Original

(* Initially nothing is written or read. *)
LEMMA InitHolds == Init => IInv
<1> SUFFICES ASSUME Init PROVE IInv
  OBVIOUS
<1> USE ManifestAssumption, OriginalContents
<1>1. Blank \in Manifests
  BY DEF Blank, Manifests
<1>2. InputsOK /\ candidate \in [Analyses -> BOOLEAN]
  BY DEF Init, InputsOK
<1>3. PublishedOK
  BY DEF Init, PublishedOK
<1>4. FinalizerOK
  BY <1>1 DEF Init, FinalizerOK, Idle, NoResult, FinalizerPlaces
<1>5. CheckerOK
  BY DEF Init, CheckerOK, Resting
<1>6. SawOne /\ WriteIsStable
  BY DEF Init, SawOne, WriteIsStable, Idle, RunOver
<1> QED
  BY <1>2, <1>3, <1>4, <1>5, <1>6 DEF IInv, TypeOK

(* What the finalizer has seen depends on it and on the files it reads.       *)
LEMMA SeenStands ==
    ASSUME IInv, UNCHANGED <<code, claims, script, finalizer>>
    PROVE  SawOne' /\ WriteIsStable'
<1>1. Manifest(finalizer.of)' = Manifest(finalizer.of) /\ Reread' = Reread
  BY DEF Manifest, Reread
<1>2. ASSUME NEW piece \in Parts PROVE Latest(piece)' = Latest(piece)
  BY <1>1 DEF Latest
<1>3. finalizer' = finalizer
  OBVIOUS
<1> QED
  BY <1>2, <1>3 DEF IInv, SawOne, WriteIsStable, StableRun

-----------------------------------------------------------------------------
(* The pipeline and the checker touch nothing of the finalizer's. *)
LEMMA PipelineKeeps == ASSUME IInv, Pipeline PROVE IInv'
<1>0. InputsOK /\ PublishedOK /\ FinalizerOK /\ CheckerOK /\ candidate \in [Analyses -> BOOLEAN]
  BY DEF IInv, TypeOK
<1>1. UNCHANGED <<inputs, verdicts, finalizer, checker>>
  BY DEF Pipeline, WritePlan, PublishStarts, PublishFiles, PublishCommits, PipelineDies,
         Recover, Retire
<1> DEFINE Held == Contents \cup {Absent}
           Registries == [Analyses -> [state: {"none", "live", "retired"}, recorded: Held \X Held]]
<1>2. PublishedOK'
  <2>1. ASSUME NEW a \in Analyses, WritePlan(a) PROVE PublishedOK'
    BY <1>0, <2>1 DEF WritePlan, PublishedOK
  <2>2. ASSUME NEW a \in Analyses, PublishStarts(a) PROVE PublishedOK'
    BY <1>0, <2>2 DEF PublishStarts, TakeExclusive, PublishedOK
  <2>3. CASE PublishFiles
    BY <1>0, <2>3 DEF PublishFiles, PublishedOK
  <2>4. CASE PublishCommits
    <3>1. ASSUME NEW a \in Analyses PROVE Bytes(a) \in Held \X Held
      BY <1>0 DEF Bytes, InputsOK
    <3>2. registry' \in Registries
      BY <1>0, <2>4, <3>1 DEF PublishCommits, PublishedOK
    <3> QED
      BY <1>0, <2>4, <3>2 DEF PublishCommits, PublishedOK
  <2>5. CASE PipelineDies
    BY <1>0, <2>5 DEF PipelineDies, PublishedOK
  <2>6. CASE Recover
    BY <1>0, <2>6 DEF Recover, PublishedOK
  <2>7. ASSUME NEW a \in Analyses, Retire(a) PROVE PublishedOK'
    <3>1. registry' = [registry EXCEPT ![a].state = "retired"]
          /\ UNCHANGED <<files, journal, lock, pipeline>>
      BY <2>7 DEF Retire
    <3>2. registry' \in Registries
      BY <1>0, <3>1 DEF PublishedOK
    <3> QED
      BY <1>0, <3>1, <3>2 DEF PublishedOK
  <2> QED
    BY <2>1, <2>2, <2>3, <2>4, <2>5, <2>6, <2>7 DEF Pipeline
<1>3. TypeOK'
  BY <1>0, <1>1, <1>2 DEF TypeOK, InputsOK, FinalizerOK, CheckerOK, inputs, verdicts
<1>4. SawOne' /\ WriteIsStable'
  BY <1>1, SeenStands DEF inputs
<1> QED
  BY <1>3, <1>4 DEF IInv

LEMMA CheckerKeeps == ASSUME IInv, Checker PROVE IInv'
<1>0. InputsOK /\ PublishedOK /\ FinalizerOK /\ CheckerOK /\ candidate \in [Analyses -> BOOLEAN]
  BY DEF IInv, TypeOK
<1>1. UNCHANGED <<inputs, verdicts, finalizer>>
  BY DEF Checker, CheckerMoves, CheckStarts, Inventory, ListArtifacts, Compare, Emit, CheckEnds
<1>2. PublishedOK'
  BY <1>0 DEF Checker, CheckStarts, Inventory, ListArtifacts, Compare, Emit, CheckEnds,
              PublishedOK, published
<1>3. CheckerOK'
  <2>1. CASE CheckStarts
    <3>1. checker' = [Resting EXCEPT !.at = "inventory", !.since = clock] /\ clock \in Nat
      BY <1>0, <2>1, ManifestAssumption DEF CheckStarts, CheckerMoves, InputsOK
    <3> QED
      BY <3>1 DEF Resting, CheckerOK
  <2>2. CASE Inventory
    <3>1. [a \in Analyses |-> registry[a].state] \in [Analyses -> {"none", "live", "retired"}]
      BY <1>0 DEF PublishedOK
    <3>2. \/ checker' = [checker EXCEPT !.at = "emit", !.clean = FALSE]
          \/ checker' = [checker EXCEPT !.at = "list",
                            !.states = [a \in Analyses |-> registry[a].state]]
      BY <2>2 DEF Inventory, CheckerMoves
    <3> QED
      BY <1>0, <3>1, <3>2 DEF CheckerOK
  <2>3. CASE ListArtifacts
    <3>1. PICK reports \in SUBSET Analyses, b \in BOOLEAN :
              checker' = [checker EXCEPT !.at = "compare", !.todo = reports, !.listed = reports,
                                         !.clean = b]
      BY <2>3 DEF ListArtifacts, CheckerMoves
    <3> QED
      BY <1>0, <3>1 DEF CheckerOK
  <2>4. ASSUME NEW a \in Analyses, Compare(a) PROVE CheckerOK'
    <3>1. PICK b \in BOOLEAN :
              checker' = [checker EXCEPT !.todo = checker.todo \ {a}, !.clean = b]
      BY <1>0, <2>4 DEF Compare, CheckerMoves, CheckerOK
    <3> QED
      BY <1>0, <3>1 DEF CheckerOK
  <2>5. CASE Emit
    BY <1>0, <2>5 DEF Emit, CheckerMoves, CheckerOK
  <2>6. CASE CheckEnds
    BY <2>6 DEF CheckEnds, CheckerMoves, Resting, CheckerOK
  <2> QED
    BY <2>1, <2>2, <2>3, <2>4, <2>5, <2>6 DEF Checker
<1>4. TypeOK'
  BY <1>0, <1>1, <1>2, <1>3 DEF TypeOK, InputsOK, FinalizerOK, inputs, verdicts
<1>5. SawOne' /\ WriteIsStable'
  BY <1>1, SeenStands DEF inputs
<1> QED
  BY <1>4, <1>5 DEF IInv
-----------------------------------------------------------------------------
(* What an edit may do to the finalizer's ghosts, and to nothing else of it.  *)
LEMMA WatchesField ==
    ASSUME IInv, Watches, InputsOK'
    PROVE  /\ finalizer' \in [at: FinalizerPlaces, of: Analyses \cup {None}, before: Manifests,
                              after: Manifests, saw: SUBSET Manifests, undone: SUBSET Parts,
                              agrees: BOOLEAN]
           /\ finalizer'.at = finalizer.at /\ finalizer'.of = finalizer.of
           /\ finalizer'.before = finalizer.before /\ finalizer'.after = finalizer.after
           /\ finalizer'.agrees = finalizer.agrees
           /\ finalizer.at \in {"run", "after code", "after claims", "after script"} =>
                 /\ finalizer'.saw = IF finalizer.at = "run"
                                     THEN finalizer.saw \cup {Manifest(finalizer.of)'}
                                     ELSE finalizer.saw
                 /\ finalizer'.undone = finalizer.undone \cup
                       {piece \in Parts : /\ Manifest(finalizer.of)[piece] # finalizer.before[piece]
                                          /\ Manifest(finalizer.of)'[piece] = finalizer.before[piece]}
           /\ finalizer.at \notin {"run", "after code", "after claims", "after script"} =>
                 finalizer' = finalizer
<1>0. FinalizerOK
  BY DEF IInv, TypeOK
<1>1. CASE finalizer.at \notin {"run", "after code", "after claims", "after script"}
  <2>1. UNCHANGED finalizer
    BY <1>1 DEF Watches
  <2> QED
    BY <1>0, <1>1, <2>1 DEF FinalizerOK
<1>2. CASE finalizer.at \in {"run", "after code", "after claims", "after script"}
  <2>1. PICK a \in Analyses :
          /\ finalizer.of = a
          /\ finalizer' = [finalizer EXCEPT
               !.saw = IF finalizer.at = "run" THEN @ \cup {Manifest(a)'} ELSE @,
               !.undone = @ \cup {piece \in Parts : /\ Manifest(a)[piece] # finalizer.before[piece]
                                                 /\ Manifest(a)'[piece] = finalizer.before[piece]}]
    BY <1>2 DEF Watches
  <2>2. Manifest(a)' \in Manifests
    <3>1. code' \in Contents /\ claims'[a] \in Contents /\ script'[a] \in Contents \cup {Absent}
      BY DEF InputsOK
    <3> QED
      BY <3>1 DEF Manifest, Manifests
  <2> DEFINE saw == IF finalizer.at = "run" THEN finalizer.saw \cup {Manifest(a)'} ELSE finalizer.saw
             undone == finalizer.undone \cup
                          {piece \in Parts : /\ Manifest(a)[piece] # finalizer.before[piece]
                                             /\ Manifest(a)'[piece] = finalizer.before[piece]}
  <2>3. saw \in SUBSET Manifests /\ undone \in SUBSET Parts
    BY <1>0, <2>2 DEF FinalizerOK
  <2>4. finalizer' = [finalizer EXCEPT !.saw = saw, !.undone = undone]
    BY <2>1
  <2>5. finalizer'.saw = saw /\ finalizer'.undone = undone
    <3> HIDE DEF saw, undone
    <3> QED
      BY <1>0, <2>4 DEF FinalizerOK
  <2>6. /\ finalizer' \in [at: FinalizerPlaces, of: Analyses \cup {None}, before: Manifests,
                           after: Manifests, saw: SUBSET Manifests, undone: SUBSET Parts,
                           agrees: BOOLEAN]
        /\ finalizer'.at = finalizer.at /\ finalizer'.of = finalizer.of
        /\ finalizer'.before = finalizer.before /\ finalizer'.after = finalizer.after
    <3> HIDE DEF saw, undone
    <3> QED
      BY <1>0, <2>3, <2>4 DEF FinalizerOK
  <2>7. finalizer'.agrees = finalizer.agrees
    <3> HIDE DEF saw, undone
    <3> QED
      BY <1>0, <2>4 DEF FinalizerOK
  <2>8. a = finalizer.of
    BY <2>1
  <2> QED
    BY <1>2, <2>5, <2>6, <2>7, <2>8
<1> QED
  BY <1>1, <1>2

(* An edit that puts a part back is remembered; any other leaves a part that  *)
(* is as it was at the first reading as it has been since then.               *)
LEMMA EditKeeps ==
    ASSUME IInv, InputsOK', Watches, UNCHANGED <<published, verdicts, checker>>
    PROVE  IInv'
<1>0. InputsOK /\ PublishedOK /\ FinalizerOK /\ CheckerOK /\ candidate \in [Analyses -> BOOLEAN]
  BY DEF IInv, TypeOK
<1> DEFINE f == finalizer.of
<1>1. /\ finalizer' \in [at: FinalizerPlaces, of: Analyses \cup {None}, before: Manifests,
                         after: Manifests, saw: SUBSET Manifests, undone: SUBSET Parts,
                         agrees: BOOLEAN]
      /\ finalizer'.at = finalizer.at /\ finalizer'.of = finalizer.of
      /\ finalizer'.before = finalizer.before /\ finalizer'.after = finalizer.after
      /\ finalizer'.agrees = finalizer.agrees
  BY WatchesField
<1>2. TypeOK'
  BY <1>0, <1>1 DEF TypeOK, FinalizerOK, PublishedOK, CheckerOK, published, verdicts
<1>3. SawOne'
  <2>1. Reread' = Reread
    BY <1>1 DEF Reread
  <2>2. CASE finalizer.at \in {"run", "after code", "after claims", "after script"}
    <3>1. /\ finalizer'.saw = IF finalizer.at = "run"
                              THEN finalizer.saw \cup {Manifest(f)'} ELSE finalizer.saw
          /\ finalizer'.undone = finalizer.undone \cup
                {piece \in Parts : /\ Manifest(f)[piece] # finalizer.before[piece]
                                   /\ Manifest(f)'[piece] = finalizer.before[piece]}
      BY <2>2, WatchesField
    <3>2. /\ finalizer.saw # {}
          /\ \A piece \in Parts \ finalizer.undone :
                Latest(piece) = finalizer.before[piece] =>
                    \A seen \in finalizer.saw : seen[piece] = finalizer.before[piece]
      BY <2>2 DEF IInv, SawOne, RunOver
    <3>3. ASSUME NEW piece \in Parts \ finalizer'.undone, Latest(piece)' = finalizer.before[piece],
                 NEW seen \in finalizer'.saw
          PROVE  seen[piece] = finalizer.before[piece]
      <4>1. piece \in Parts \ finalizer.undone
            /\ ~(/\ Manifest(f)[piece] # finalizer.before[piece]
                 /\ Manifest(f)'[piece] = finalizer.before[piece])
        BY <3>1, <3>3
      <4>2. CASE piece \in Reread
        <5>1. Latest(piece) = finalizer.before[piece]
          BY <1>1, <2>1, <3>3, <4>2 DEF Latest
        <5>2. finalizer.at # "run"
          BY <4>2 DEF Reread, RunOver
        <5> QED
          BY <3>1, <3>2, <4>1, <5>1, <5>2
      <4>3. CASE piece \notin Reread
        <5>1. Manifest(f)'[piece] = finalizer.before[piece]
          <6>1. Latest(piece)' = Manifest(f)'[piece]
            BY <1>1, <2>1, <4>3 DEF Latest, Manifest
          <6> QED
            BY <3>3, <6>1
        <5>2. Latest(piece) = finalizer.before[piece]
          BY <4>1, <4>3, <5>1 DEF Latest
        <5>3. seen \in finalizer.saw \/ seen = Manifest(f)'
          BY <3>1
        <5> QED
          BY <3>2, <4>1, <5>1, <5>2, <5>3
      <4> QED
        BY <4>2, <4>3
    <3>4. finalizer'.saw # {}
      BY <3>1, <3>2
    <3> QED
      BY <1>1, <3>3, <3>4 DEF SawOne
  <2>3. CASE finalizer.at \notin {"run", "after code", "after claims", "after script"}
    <3>1. finalizer' = finalizer
      BY <2>3, WatchesField
    <3>2. CASE finalizer.at \in {"derive", "write"}
      <4>1. ASSUME NEW piece \in Parts PROVE Latest(piece)' = Latest(piece)
        <5>1. piece \in Reread
          BY <3>2 DEF Reread, RunOver, Parts
        <5> QED
          BY <2>1, <3>1, <5>1 DEF Latest
      <4> QED
        BY <3>1, <4>1 DEF IInv, SawOne
    <3>3. CASE finalizer.at \notin {"derive", "write"}
      BY <2>3, <3>1, <3>3 DEF SawOne, RunOver
    <3> QED
      BY <3>2, <3>3
  <2> QED
    BY <2>2, <2>3
<1>4. WriteIsStable'
  BY <1>1 DEF IInv, WriteIsStable, StableRun
<1> QED
  BY <1>2, <1>3, <1>4 DEF IInv

(* What agents leave in the files is of their kind. *)
LEMMA EditTypes ==
    ASSUME InputsOK,
           \/ EditCode
           \/ \E a \in Analyses : EditReport(a) \/ WriteScript(a) \/ WriteVerdict(a)
    PROVE  InputsOK'
<1> USE ManifestAssumption, OriginalContents
<1>1. ASSUME Edit PROVE clock' \in 0..Edits
  BY <1>1 DEF Edit, InputsOK
<1>2. CASE EditCode
  <2>1. clock' \in 0..Edits
    BY <1>1, <1>2 DEF EditCode
  <2> QED
    BY <1>2, <2>1 DEF EditCode, InputsOK
<1>3. ASSUME NEW a \in Analyses, EditReport(a) PROVE InputsOK'
  <2>1. clock' \in 0..Edits
    BY <1>1, <1>3 DEF EditReport
  <2>2. UNCHANGED <<code, script>>
    BY <1>3 DEF EditReport
  <2>3. claims' \in [Analyses -> Contents] /\ prose' \in [Analyses -> Contents]
    BY <1>3 DEF EditReport, InputsOK
  <2> QED
    BY <2>1, <2>2, <2>3 DEF InputsOK
<1>4. ASSUME NEW a \in Analyses, WriteScript(a) PROVE InputsOK'
  <2>1. clock' \in 0..Edits
    BY <1>1, <1>4 DEF WriteScript, InputsOK
  <2>2. script' \in [Analyses -> Contents \cup {Absent}]
    BY <1>4 DEF WriteScript, InputsOK
  <2>3. UNCHANGED <<code, claims, prose>>
    BY <1>4 DEF WriteScript
  <2> QED
    BY <2>1, <2>2, <2>3 DEF InputsOK
<1>5. ASSUME NEW a \in Analyses, WriteVerdict(a) PROVE InputsOK'
  <2>1. clock' \in 0..Edits /\ UNCHANGED <<code, claims, prose, script>>
    BY <1>1, <1>5 DEF WriteVerdict
  <2> QED
    BY <2>1 DEF InputsOK
<1> QED
  BY <1>2, <1>3, <1>4, <1>5

LEMMA AgentsKeep == ASSUME IInv, Agents PROVE IInv'
<1>0. InputsOK /\ PublishedOK /\ FinalizerOK /\ CheckerOK /\ candidate \in [Analyses -> BOOLEAN]
  BY DEF IInv, TypeOK
<1>1. CASE EditCode
  <2>1. InputsOK'
    BY <1>0, <1>1, EditTypes
  <2> QED
    BY <1>1, <2>1, EditKeeps DEF EditCode
<1>2. ASSUME NEW a \in Analyses, EditReport(a) PROVE IInv'
  <2>1. InputsOK'
    BY <1>0, <1>2, EditTypes
  <2> QED
    BY <1>2, <2>1, EditKeeps DEF EditReport
<1>3. ASSUME NEW a \in Analyses, WriteScript(a) PROVE IInv'
  <2>1. InputsOK'
    BY <1>0, <1>3, EditTypes
  <2> QED
    BY <1>3, <2>1, EditKeeps DEF WriteScript
<1>4. ASSUME NEW a \in Analyses, WriteCandidate(a) PROVE IInv'
  <2>1. /\ candidate' = [candidate EXCEPT ![a] = TRUE]
        /\ UNCHANGED <<inputs, published, result, finalizer, checker>>
    BY <1>4 DEF WriteCandidate
  <2>2. candidate' \in [Analyses -> BOOLEAN]
    BY <1>0, <2>1
  <2>3. TypeOK'
    BY <1>0, <2>1, <2>2 DEF TypeOK, InputsOK, PublishedOK, FinalizerOK, CheckerOK, inputs, published
  <2> QED
    BY <2>1, <2>3, SeenStands DEF IInv, inputs
<1>5. ASSUME NEW a \in Analyses, WriteVerdict(a) PROVE IInv'
  <2>1. PICK v \in {"PASS", "FAIL"} :
            result' = [result EXCEPT ![a] =
                         [verdict |-> v, finalized |-> FALSE, manifest |-> Manifest(a)]]
    BY <1>5 DEF WriteVerdict
  <2>2. UNCHANGED <<code, claims, prose, script, published, candidate, finalizer, checker>>
    BY <1>5 DEF WriteVerdict
  <2>3. Manifest(a) \in Manifests
    BY <1>0, CurrentManifest
  <2>4. result' \in [Analyses -> [verdict: {"none", "PASS", "FAIL"}, finalized: BOOLEAN,
                                 manifest: Manifests]]
    BY <1>0, <2>1, <2>3 DEF FinalizerOK
  <2>5. InputsOK'
    BY <1>0, <1>5, EditTypes
  <2>6. TypeOK'
    BY <1>0, <2>2, <2>4, <2>5 DEF TypeOK, PublishedOK, FinalizerOK, CheckerOK, published
  <2> QED
    BY <2>2, <2>6, SeenStands DEF IInv
<1> QED
  BY <1>1, <1>2, <1>3, <1>4, <1>5 DEF Agents
-----------------------------------------------------------------------------
(* The finalizer leaves the files and the registry as they are.               *)
LEMMA FinalizerTypes ==
    ASSUME IInv, UNCHANGED <<inputs, published>>, FinalizerOK', CheckerOK',
           candidate' \in [Analyses -> BOOLEAN]
    PROVE  TypeOK'
<1>1. InputsOK /\ PublishedOK
  BY DEF IInv, TypeOK
<1> QED
  BY <1>1 DEF TypeOK, InputsOK, PublishedOK, inputs, published

LEMMA FinalizerKeeps == ASSUME IInv, Finalizer PROVE IInv'
<1> USE DEF FinalizerPlaces, RunOver
<1> DEFINE of == finalizer.of
           Finalizers == [at: FinalizerPlaces, of: Analyses \cup {None}, before: Manifests,
                          after: Manifests, saw: SUBSET Manifests, undone: SUBSET Parts,
                          agrees: BOOLEAN]
<1>0. /\ InputsOK /\ FinalizerOK /\ CheckerOK /\ candidate \in [Analyses -> BOOLEAN]
      /\ finalizer \in Finalizers
  BY DEF IInv, TypeOK, FinalizerOK
<1>1. ASSUME NEW a \in Analyses
      PROVE  /\ Manifest(a) \in Manifests /\ Manifest(a)["code"] = code
             /\ Manifest(a)["claims"] = claims[a] /\ Manifest(a)["script"] = script[a]
  BY <1>0, CurrentManifest
<1>2. Blank \in Manifests
  BY DEF Blank, Manifests
<1>t. ASSUME UNCHANGED <<inputs, published, checker, verdicts>>, finalizer' \in Finalizers,
             finalizer'.at # "idle" => finalizer'.of \in Analyses
      PROVE  TypeOK'
  <2>1. FinalizerOK'
    BY <1>0, <1>t DEF FinalizerOK, verdicts
  <2>2. CheckerOK'
    BY <1>0, <1>t DEF CheckerOK
  <2> QED
    BY <1>0, <1>t, <2>1, <2>2, FinalizerTypes DEF verdicts
<1>3. CASE UNCHANGED <<inputs, published, checker, verdicts>> /\ finalizer' = Idle
  <2>1. Idle \in Finalizers /\ Idle.at = "idle"
    BY <1>2 DEF Idle
  <2>2. TypeOK'
    BY <1>3, <1>t, <2>1
  <2>3. SawOne' /\ WriteIsStable'
    BY <1>3, <2>1 DEF SawOne, WriteIsStable
  <2> QED
    BY <2>2, <2>3 DEF IInv
<1>4. ASSUME NEW a \in Analyses, FinalizeStarts(a) PROVE IInv'
  <2>1. /\ finalizer' = [Idle EXCEPT !.at = "before code", !.of = a]
        /\ UNCHANGED <<inputs, published, checker, verdicts>>
    BY <1>4 DEF FinalizeStarts, FinalizerMoves
  <2>2. finalizer'.at = "before code" /\ finalizer'.of = a /\ finalizer' \in Finalizers
    BY <1>2, <2>1 DEF Idle
  <2>3. TypeOK'
    BY <1>t, <2>1, <2>2
  <2> QED
    BY <2>2, <2>3 DEF IInv, SawOne, WriteIsStable
<1>5. ASSUME finalizer.at \in {"before code", "before claims", "before script"},
             ReadCode \/ ReadHeadline \/ ReadScript
      PROVE  IInv'
  <2>1. PICK m \in Manifests, place \in {"before claims", "before script", "start"} :
            /\ finalizer' = [finalizer EXCEPT !.at = place, !.before = m]
            /\ UNCHANGED <<inputs, published, checker, verdicts>>
    <3>1. of \in Analyses /\ finalizer.before \in Manifests
      BY <1>0, <1>5 DEF FinalizerOK
    <3>2. code \in Contents /\ claims[of] \in Contents /\ script[of] \in Contents \cup {Absent}
      BY <1>0, <3>1 DEF InputsOK
    <3>3. CASE ReadCode
      <4>1. finalizer' = [finalizer EXCEPT !.at = "before claims",
                            !.before = [finalizer.before EXCEPT !.code = code]]
            /\ UNCHANGED <<inputs, published, checker, verdicts>>
        BY <1>0, <1>5, <3>3 DEF ReadCode, Reads, FinalizerMoves
      <4>2. [finalizer.before EXCEPT !.code = code] \in Manifests
        BY <3>1, <3>2 DEF Manifests
      <4> QED
        BY <4>1, <4>2
    <3>4. CASE ReadHeadline
      <4>1. finalizer' = [finalizer EXCEPT !.at = "before script",
                            !.before = [finalizer.before EXCEPT !.claims = claims[of]]]
            /\ UNCHANGED <<inputs, published, checker, verdicts>>
        BY <1>0, <1>5, <3>4 DEF ReadHeadline, Reads, FinalizerMoves
      <4>2. [finalizer.before EXCEPT !.claims = claims[of]] \in Manifests
        BY <3>1, <3>2 DEF Manifests
      <4> QED
        BY <4>1, <4>2
    <3>5. CASE ReadScript
      <4>1. finalizer' = [finalizer EXCEPT !.at = "start",
                            !.before = [finalizer.before EXCEPT !.script = script[of]]]
            /\ UNCHANGED <<inputs, published, checker, verdicts>>
        BY <1>0, <1>5, <3>5 DEF ReadScript, Reads, FinalizerMoves
      <4>2. [finalizer.before EXCEPT !.script = script[of]] \in Manifests
        BY <3>1, <3>2 DEF Manifests
      <4> QED
        BY <4>1, <4>2
    <3> QED
      BY <1>5, <3>3, <3>4, <3>5
  <2>2. finalizer'.at = place /\ finalizer'.of = of /\ finalizer' \in Finalizers
    BY <1>0, <2>1
  <2>3. of \in Analyses
    BY <1>0, <1>5 DEF FinalizerOK
  <2>4. TypeOK'
    BY <1>t, <2>1, <2>2, <2>3
  <2> QED
    BY <2>2, <2>4 DEF IInv, SawOne, WriteIsStable
<1>6. ASSUME RunVerifier PROVE IInv'
  <2>1. /\ finalizer.at = "start"
        /\ finalizer' = [finalizer EXCEPT !.at = "run", !.saw = {Manifest(of)}, !.undone = {}]
        /\ UNCHANGED <<inputs, published, checker, verdicts>>
    BY <1>6 DEF RunVerifier, FinalizerMoves
  <2>2. of \in Analyses /\ Manifest(of) \in Manifests
    BY <1>0, <1>1, <2>1 DEF FinalizerOK
  <2>3. /\ finalizer'.at = "run" /\ finalizer'.of = of
        /\ finalizer'.before = finalizer.before /\ finalizer'.saw = {Manifest(of)}
        /\ finalizer' \in Finalizers
    BY <1>0, <2>1, <2>2
  <2>4. TypeOK'
    BY <1>t, <2>1, <2>2, <2>3
  <2>5. Manifest(finalizer.of)' = Manifest(of)
    BY <2>1, <2>3 DEF Manifest, inputs
  <2>6. ASSUME NEW piece \in Parts PROVE Latest(piece)' = Manifest(of)[piece]
    <3>1. piece \notin Reread'
      BY <2>3 DEF Reread
    <3> QED
      BY <2>5, <3>1 DEF Latest
  <2>7. SawOne'
    BY <2>3, <2>6 DEF SawOne
  <2> QED
    BY <2>3, <2>4, <2>7 DEF IInv, WriteIsStable
<1>7. ASSUME VerifierEnds PROVE IInv'
  <2>1. PICK agrees \in BOOLEAN :
            Reads([finalizer EXCEPT !.at = "after code", !.agrees = agrees])
    BY <1>7 DEF VerifierEnds
  <2>2. /\ finalizer.at = "run"
        /\ finalizer' = [finalizer EXCEPT !.at = "after code", !.agrees = agrees]
        /\ UNCHANGED <<inputs, published, checker, verdicts>>
    BY <1>7, <2>1 DEF VerifierEnds, Reads, FinalizerMoves
  <2>3. /\ finalizer'.at = "after code" /\ finalizer'.of = of /\ finalizer'.saw = finalizer.saw
        /\ finalizer'.before = finalizer.before /\ finalizer'.undone = finalizer.undone
        /\ finalizer' \in Finalizers
    BY <1>0, <2>2
  <2>4. of \in Analyses
    BY <1>0, <2>2 DEF FinalizerOK
  <2>5. TypeOK'
    BY <1>t, <2>2, <2>3, <2>4
  <2>6. ASSUME NEW piece \in Parts PROVE Latest(piece)' = Latest(piece)
    <3>1. piece \notin Reread /\ piece \notin Reread'
      BY <2>2, <2>3 DEF Reread
    <3>2. Manifest(finalizer.of)' = Manifest(of)
      BY <2>2, <2>3 DEF Manifest, inputs
    <3> QED
      BY <3>1, <3>2 DEF Latest
  <2>7. SawOne'
    BY <2>2, <2>3, <2>6 DEF IInv, SawOne
  <2> QED
    BY <2>3, <2>5, <2>7 DEF IInv, WriteIsStable
<1>8. ASSUME finalizer.at \in {"after code", "after claims", "after script"},
             ReadCode \/ ReadHeadline \/ ReadScript
      PROVE  IInv'
  <2>1. of \in Analyses /\ finalizer.after \in Manifests
    BY <1>0, <1>8 DEF FinalizerOK
  <2>2. code \in Contents /\ claims[of] \in Contents /\ script[of] \in Contents \cup {Absent}
    BY <1>0, <2>1 DEF InputsOK
  <2>3. PICK m \in Manifests, place \in {"after claims", "after script", "derive"} :
            /\ finalizer' = [finalizer EXCEPT !.at = place, !.after = m]
            /\ UNCHANGED <<inputs, published, checker, verdicts>>
            /\ \A piece \in Parts :
                  \/ piece = "code" /\ finalizer.at = "after code" /\ m[piece] = code
                  \/ piece = "claims" /\ finalizer.at = "after claims" /\ m[piece] = claims[of]
                  \/ piece = "script" /\ finalizer.at = "after script" /\ m[piece] = script[of]
                  \/ m[piece] = finalizer.after[piece]
            /\ finalizer.at = "after code" => place = "after claims" /\ m["code"] = code
            /\ finalizer.at = "after claims" => place = "after script" /\ m["claims"] = claims[of]
            /\ finalizer.at = "after script" => place = "derive" /\ m["script"] = script[of]
    <3>1. CASE ReadCode
      <4> DEFINE n == [finalizer.after EXCEPT !.code = code]
      <4>1. /\ finalizer.at = "after code"
            /\ finalizer' = [finalizer EXCEPT !.at = "after claims", !.after = n]
            /\ UNCHANGED <<inputs, published, checker, verdicts>>
        BY <1>0, <1>8, <3>1 DEF ReadCode, Reads, FinalizerMoves
      <4>2. n \in Manifests /\ n["code"] = code
            /\ \A piece \in Parts : piece # "code" => n[piece] = finalizer.after[piece]
        BY <2>1, <2>2 DEF Manifests, Parts
      <4> HIDE DEF n
      <4> QED
        BY <4>1, <4>2
    <3>2. CASE ReadHeadline
      <4> DEFINE n == [finalizer.after EXCEPT !.claims = claims[of]]
      <4>1. /\ finalizer.at = "after claims"
            /\ finalizer' = [finalizer EXCEPT !.at = "after script", !.after = n]
            /\ UNCHANGED <<inputs, published, checker, verdicts>>
        BY <1>0, <1>8, <3>2 DEF ReadHeadline, Reads, FinalizerMoves
      <4>2. n \in Manifests /\ n["claims"] = claims[of]
            /\ \A piece \in Parts : piece # "claims" => n[piece] = finalizer.after[piece]
        BY <2>1, <2>2 DEF Manifests, Parts
      <4> HIDE DEF n
      <4> QED
        BY <4>1, <4>2
    <3>3. CASE ReadScript
      <4> DEFINE n == [finalizer.after EXCEPT !.script = script[of]]
      <4>1. /\ finalizer.at = "after script"
            /\ finalizer' = [finalizer EXCEPT !.at = "derive", !.after = n]
            /\ UNCHANGED <<inputs, published, checker, verdicts>>
        BY <1>0, <1>8, <3>3 DEF ReadScript, Reads, FinalizerMoves
      <4>2. n \in Manifests /\ n["script"] = script[of]
            /\ \A piece \in Parts : piece # "script" => n[piece] = finalizer.after[piece]
        BY <2>1, <2>2 DEF Manifests, Parts
      <4> HIDE DEF n
      <4> QED
        BY <4>1, <4>2
    <3> QED
      BY <1>8, <3>1, <3>2, <3>3
  <2>4. /\ finalizer'.at = place /\ finalizer'.of = of /\ finalizer'.before = finalizer.before
        /\ finalizer'.after = m /\ finalizer'.saw = finalizer.saw
        /\ finalizer'.undone = finalizer.undone /\ finalizer' \in Finalizers
    BY <1>0, <2>3
  <2>5. TypeOK'
    BY <1>t, <2>1, <2>3, <2>4
  <2>6. Manifest(finalizer.of)' = Manifest(of)
    BY <2>3, <2>4 DEF Manifest, inputs
  <2>7. ASSUME NEW piece \in Parts PROVE Latest(piece)' = Latest(piece)
    <3>1. CASE piece \in Reread
      <4>1. piece \in Reread' /\ m[piece] = finalizer.after[piece]
        BY <1>8, <2>3, <2>4, <3>1 DEF Reread
      <4> QED
        BY <2>4, <3>1, <4>1 DEF Latest
    <3>2. CASE piece \notin Reread /\ piece \notin Reread'
      BY <2>6, <3>2 DEF Latest
    <3>3. CASE piece \notin Reread /\ piece \in Reread'
      <4>1. m[piece] = Manifest(of)[piece]
        BY <1>1, <1>8, <2>1, <2>3, <2>4, <3>3 DEF Reread
      <4> QED
        BY <2>4, <3>3, <4>1 DEF Latest
    <3> QED
      BY <3>1, <3>2, <3>3
  <2>8. finalizer.saw # {}
        /\ \A piece \in Parts \ finalizer.undone :
              Latest(piece) = finalizer.before[piece] =>
                  \A seen \in finalizer.saw : seen[piece] = finalizer.before[piece]
    BY <1>8 DEF IInv, SawOne
  <2>9. SawOne'
    <3> HIDE DEF Finalizers
    <3> QED
      BY <2>4, <2>7, <2>8 DEF SawOne
  <2> QED
    BY <2>4, <2>5, <2>9 DEF IInv, WriteIsStable
<1>9. ASSUME Derive PROVE IInv'
  <2>1. finalizer.at = "derive" /\ UNCHANGED <<inputs, published, checker, result>>
    BY <1>9 DEF Derive, FinalizerMoves
  <2>2. CASE ~(StableRun /\ finalizer.agrees)
    <3>1. finalizer' = Idle /\ UNCHANGED verdicts
      BY <1>9, <2>1, <2>2 DEF Derive, FinalizerMoves, verdicts
    <3> QED
      BY <1>3, <2>1, <3>1
  <2>3. CASE StableRun /\ finalizer.agrees
    <3>1. /\ candidate' = [candidate EXCEPT ![of] = FALSE]
          /\ finalizer' = [finalizer EXCEPT !.at = "write"]
      BY <1>9, <2>3 DEF Derive, FinalizerMoves
    <3>2. /\ finalizer'.at = "write" /\ finalizer'.of = of /\ finalizer'.before = finalizer.before
          /\ finalizer'.after = finalizer.after /\ finalizer'.saw = finalizer.saw
          /\ finalizer'.undone = finalizer.undone /\ finalizer' \in Finalizers
      BY <1>0, <3>1
    <3>3. finalizer'.agrees = finalizer.agrees
      BY <1>0, <3>1
    <3>4. candidate' \in [Analyses -> BOOLEAN]
      BY <1>0, <3>1
    <3>5. FinalizerOK' /\ CheckerOK'
      BY <1>0, <2>1, <3>2 DEF FinalizerOK, CheckerOK
    <3>6. TypeOK'
      BY <2>1, <3>4, <3>5, FinalizerTypes
    <3>7. ASSUME NEW piece \in Parts PROVE Latest(piece)' = Latest(piece)
      <4>1. piece \in Reread /\ piece \in Reread'
        BY <2>1, <3>2 DEF Reread, Parts
      <4> QED
        BY <3>2, <4>1 DEF Latest
    <3>8. finalizer.saw # {}
          /\ \A piece \in Parts \ finalizer.undone :
                Latest(piece) = finalizer.before[piece] =>
                    \A seen \in finalizer.saw : seen[piece] = finalizer.before[piece]
      BY <2>1 DEF IInv, SawOne
    <3>10. SawOne'
      <4> HIDE DEF Finalizers
      <4> QED
        BY <3>2, <3>7, <3>8 DEF SawOne
    <3>9. WriteIsStable'
      BY <2>3, <3>2, <3>3 DEF WriteIsStable, StableRun
    <3> QED
      BY <3>6, <3>9, <3>10 DEF IInv
  <2> QED
    BY <2>2, <2>3
<1>10. ASSUME WriteResult PROVE IInv'
  <2>1. /\ finalizer.at = "write" /\ finalizer' = Idle /\ UNCHANGED <<inputs, published, candidate>>
        /\ result' = [result EXCEPT ![of] =
                        [verdict |-> "PASS", finalized |-> TRUE, manifest |-> finalizer.after]]
        /\ checker' = IF checker.at = "idle" THEN checker
                      ELSE [checker EXCEPT !.rewritten = @ \cup {of}]
    BY <1>10 DEF WriteResult
  <2>2. of \in Analyses /\ finalizer.after \in Manifests
        /\ result \in [Analyses -> [verdict: {"none", "PASS", "FAIL"}, finalized: BOOLEAN,
                                    manifest: Manifests]]
    BY <1>0, <2>1 DEF FinalizerOK
  <2>3. result' \in [Analyses -> [verdict: {"none", "PASS", "FAIL"}, finalized: BOOLEAN,
                                 manifest: Manifests]]
    BY <2>1, <2>2
  <2>4. Idle \in Finalizers /\ Idle.at = "idle"
    BY <1>2 DEF Idle
  <2>5. CheckerOK'
    <3>1. CASE checker.at = "idle"
      BY <1>0, <2>1, <3>1 DEF CheckerOK
    <3>2. CASE checker.at # "idle"
      BY <1>0, <2>1, <2>2, <3>2 DEF CheckerOK
    <3> QED
      BY <3>1, <3>2
  <2>6. FinalizerOK'
    BY <2>1, <2>3, <2>4 DEF FinalizerOK
  <2>7. TypeOK'
    BY <1>0, <2>1, <2>5, <2>6, FinalizerTypes
  <2> QED
    BY <2>1, <2>4, <2>7 DEF IInv, SawOne, WriteIsStable
<1>11. ASSUME FinalizeFails PROVE IInv'
  BY <1>3, <1>11 DEF FinalizeFails, FinalizerMoves
<1>12. ReadCode \/ ReadHeadline \/ ReadScript =>
           finalizer.at \in {"before code", "before claims", "before script",
                            "after code", "after claims", "after script"}
  BY DEF ReadCode, ReadHeadline, ReadScript
<1> QED
  BY <1>4, <1>5, <1>6, <1>7, <1>8, <1>9, <1>10, <1>11, <1>12 DEF Finalizer

-----------------------------------------------------------------------------
LEMMA StepKeeps == IInv /\ [Next]_vars => IInv'
<1> SUFFICES ASSUME IInv, [Next]_vars PROVE IInv'
  OBVIOUS
<1>1. CASE UNCHANGED vars
  <2>1. TypeOK'
    BY <1>1 DEF vars, inputs, published, verdicts, IInv, TypeOK, InputsOK, PublishedOK,
                FinalizerOK, CheckerOK
  <2> QED
    BY <1>1, <2>1, SeenStands DEF vars, inputs, IInv
<1> QED
  BY <1>1, PipelineKeeps, AgentsKeep, FinalizerKeeps, CheckerKeeps DEF Next

LEMMA InvariantHolds == Spec => []IInv
<1> QED
  BY InitHolds, StepKeeps, PTL DEF Spec

(* Files, registry, manifests and the places of both programs stay what they  *)
(* are (build_manifest, check_all).                                           *)
THEOREM ManifestTypeCorrect == Spec => []TypeOK
<1>1. IInv => TypeOK
  BY DEF IInv
<1> QED
  BY <1>1, InvariantHolds, PTL

(* Only WriteResult writes a finalized result, and it has read every part     *)
(* twice.                                                                     *)
LEMMA WriteVouches == IInv /\ [Next]_vars => [RunVouches]_vars
<1> SUFFICES ASSUME IInv, Next PROVE RunVouches
  OBVIOUS
<1>0. FinalizerOK
  BY DEF IInv, TypeOK
<1>1. ASSUME result' = result PROVE RunVouches
  BY <1>1 DEF RunVouches
<1>2. CASE Pipeline \/ Checker
  <2>1. UNCHANGED verdicts
    BY <1>2 DEF Pipeline, WritePlan, PublishStarts, PublishFiles, PublishCommits, PipelineDies,
                Recover, Retire, Checker, CheckStarts, Inventory, ListArtifacts, Compare, Emit,
                CheckEnds, CheckerMoves
  <2> QED
    BY <1>1, <2>1 DEF verdicts
<1>3. CASE Agents
  <2>1. CASE EditCode \/ \E a \in Analyses : EditReport(a) \/ WriteScript(a) \/ WriteCandidate(a)
    <3>1. result' = result
      BY <2>1 DEF EditCode, EditReport, WriteScript, WriteCandidate, verdicts
    <3> QED
      BY <1>1, <3>1
  <2>2. ASSUME NEW a \in Analyses, WriteVerdict(a) PROVE RunVouches
    <3>1. PICK v \in {"PASS", "FAIL"} :
              result' = [result EXCEPT ![a] =
                           [verdict |-> v, finalized |-> FALSE, manifest |-> Manifest(a)]]
      BY <2>2 DEF WriteVerdict
    <3>2. \A b \in Analyses : b # a => result'[b] = result[b]
      BY <1>0, <3>1 DEF FinalizerOK
    <3>3. ~result'[a].finalized
      BY <1>0, <3>1 DEF FinalizerOK
    <3> QED
      BY <3>2, <3>3 DEF RunVouches
  <2> QED
    BY <1>3, <2>1, <2>2 DEF Agents
<1>4. CASE Finalizer
  <2>1. CASE WriteResult
    <3>1. /\ finalizer.at = "write"
          /\ result' = [result EXCEPT ![finalizer.of] =
                          [verdict |-> "PASS", finalized |-> TRUE, manifest |-> finalizer.after]]
      BY <2>1 DEF WriteResult
    <3>2. finalizer.of \in Analyses
      BY <1>0, <3>1 DEF FinalizerOK
    <3>3. /\ result'[finalizer.of].manifest = finalizer.after
          /\ \A b \in Analyses : b # finalizer.of => result'[b] = result[b]
      BY <1>0, <3>1, <3>2 DEF FinalizerOK
    <3>4. finalizer.before = finalizer.after /\ finalizer.agrees
      BY <3>1 DEF IInv, WriteIsStable, StableRun
    <3>5. ASSUME NEW piece \in Parts PROVE Latest(piece) = finalizer.after[piece]
      <4>1. piece \in Reread
        BY <3>1 DEF Reread, RunOver, Parts
      <4> QED
        BY <4>1 DEF Latest
    <3>6. finalizer.saw # {}
          /\ \A seen \in finalizer.saw, piece \in Parts \ finalizer.undone :
                seen[piece] = finalizer.after[piece]
      BY <3>1, <3>4, <3>5 DEF IInv, SawOne, RunOver
    <3> QED
      BY <3>3, <3>4, <3>6 DEF RunVouches
  <2>2. CASE ~WriteResult
    <3>1. result' = result
      BY <1>4, <2>2 DEF Finalizer, FinalizeStarts, ReadCode, ReadHeadline, ReadScript, Reads,
                        RunVerifier, VerifierEnds, Derive, FinalizeFails, verdicts
    <3> QED
      BY <1>1, <3>1
  <2> QED
    BY <2>1, <2>2
<1> QED
  BY <1>2, <1>3, <1>4 DEF Next

(* A PASS that finalize_pass writes names the code, the claims and the script *)
(* that its verifier could read from end to end and agreed with, except for   *)
(* an input that was put back as it was before the second reading.            *)
THEOREM PassWasRunHolds == Spec => PassWasRun
<1> QED
  BY WriteVouches, InvariantHolds, PTL DEF Spec, PassWasRun
-----------------------------------------------------------------------------
(* What check-all says.                                                       *)

(* Who holds the lock, and what the holder of its exclusive side works on.    *)
Locked ==
    /\ checker.at # "idle" => lock = "shared"
    /\ pipeline.at # "idle" =>
          lock = "exclusive" /\ pipeline.of \in Analyses /\ journal = pipeline.of
    /\ pipeline.at = "commit" => "report" \in files[pipeline.of]

(* What is registered is there; what a rollback takes away is not registered. *)
Journaled ==
    /\ journal # None => registry[journal].state = "none"
    /\ \A a \in Analyses : registry[a].state # "none" => "report" \in files[a]

(* A script that was there stays: only a new one comes without an edit.       *)
ScriptStays ==
    /\ finalizer.at # "idle" => script[finalizer.of] # Absent
    /\ \A a \in Analyses : result[a].finalized => script[a] # Absent

(* What check-all has found stays so until somebody edits.                    *)
RegistryStands ==
    checker.at \in {"list", "compare", "emit"} /\ checker.clean /\ clock = checker.since =>
        \A a \in Analyses :
            registry[a].state # "none" =>
                /\ checker.states[a] = registry[a].state
                /\ Bytes(a) = registry[a].recorded

ComparedStands ==
    checker.at \in {"compare", "emit"} /\ checker.clean /\ clock = checker.since =>
        \A a \in Analyses :
            registry[a].state = "live" =>
                a \in checker.todo \/ Unchanged(a) \/ a \in checker.rewritten

FoundTrue ==
    /\ checker.at # "idle" => checker.since <= clock
    /\ RegistryStands /\ ComparedStands
    /\ checker.at \in {"inventory", "list"} => checker.clean
    /\ checker.at = "emit" => ~checker.clean \/ checker.todo = {}

CInv == Locked /\ Journaled /\ ScriptStays /\ FoundTrue

-----------------------------------------------------------------------------
LEMMA CleanInit == Init => CInv
<1> SUFFICES ASSUME Init PROVE CInv
  OBVIOUS
<1>1. Locked /\ Journaled
  BY DEF Init, Locked, Journaled, Resting
<1>2. ScriptStays
  BY DEF Init, ScriptStays, NoResult, Idle
<1>3. FoundTrue
  BY DEF Init, FoundTrue, RegistryStands, ComparedStands, Resting
<1> QED
  BY <1>1, <1>2, <1>3 DEF CInv

(* The pipeline changes nothing a check goes by while the check holds its     *)
(* side of the lock.                                                          *)
LEMMA PipelineKeepsClean == ASSUME IInv, CInv, Pipeline PROVE CInv'
<1>0. PublishedOK /\ CheckerOK
  BY DEF IInv, TypeOK
<1>1. UNCHANGED <<inputs, verdicts, finalizer, checker>>
  BY DEF Pipeline, WritePlan, PublishStarts, PublishFiles, PublishCommits, PipelineDies,
         Recover, Retire
<1>2. Locked /\ Journaled
  BY DEF CInv
<1> DEFINE PublishedKept ==
        Locked' /\ Journaled' /\ (checker.at # "idle" => registry' = registry)
<1>3. PublishedKept
  <2>1. ASSUME NEW a \in Analyses, WritePlan(a) PROVE PublishedKept
    <3>1. /\ files[a] = {} /\ files' = [files EXCEPT ![a] = {"plan"}]
          /\ UNCHANGED <<registry, journal, lock, pipeline, checker>>
      BY <2>1 DEF WritePlan
    <3>2. \A b \in Analyses : "report" \in files[b] => "report" \in files'[b]
      BY <1>0, <3>1 DEF PublishedOK
    <3>3. Journaled'
      BY <1>2, <3>1, <3>2 DEF Journaled
    <3>4. Locked'
      BY <1>2, <3>1, <3>2 DEF Locked
    <3> QED
      BY <3>1, <3>3, <3>4
  <2>2. ASSUME NEW a \in Analyses, PublishStarts(a) PROVE PublishedKept
    <3>1. /\ files[a] = {"plan"} /\ journal = None /\ pipeline.at = "idle" /\ lock = "free"
          /\ lock' = "exclusive" /\ pipeline' = [at |-> "artifacts", of |-> a] /\ journal' = a
          /\ UNCHANGED <<files, registry, checker>>
      BY <2>2 DEF PublishStarts, TakeExclusive
    <3>2. registry[a].state = "none"
      BY <1>2, <3>1 DEF Journaled
    <3>3. Journaled'
      BY <1>2, <3>1, <3>2 DEF Journaled
    <3>4. Locked'
      BY <1>2, <3>1 DEF Locked
    <3> QED
      BY <3>1, <3>3, <3>4
  <2>3. CASE PublishFiles
    <3>1. /\ pipeline.at = "artifacts" /\ pipeline' = [pipeline EXCEPT !.at = "commit"]
          /\ files' = [files EXCEPT ![pipeline.of] = @ \cup {"report", "bundle", "receipt"}]
          /\ UNCHANGED <<registry, journal, lock, checker>>
      BY <2>3 DEF PublishFiles
    <3>2. pipeline.of \in Analyses /\ lock = "exclusive" /\ journal = pipeline.of
      BY <1>2, <3>1 DEF Locked
    <3>3. "report" \in files'[pipeline.of]
          /\ \A b \in Analyses : "report" \in files[b] => "report" \in files'[b]
      BY <1>0, <3>1, <3>2 DEF PublishedOK
    <3>4. pipeline'.at = "commit" /\ pipeline'.of = pipeline.of
      BY <1>0, <3>1 DEF PublishedOK
    <3>5. Journaled'
      BY <1>2, <3>1, <3>3 DEF Journaled
    <3>6. Locked'
      BY <1>2, <3>1, <3>2, <3>3, <3>4 DEF Locked
    <3> QED
      BY <3>1, <3>5, <3>6
  <2>4. CASE PublishCommits
    <3>1. /\ pipeline.at = "commit" /\ pipeline' = [at |-> "idle", of |-> None]
          /\ registry' = [registry EXCEPT ![pipeline.of] =
                              [state |-> "live", recorded |-> Bytes(pipeline.of)]]
          /\ journal' = None /\ lock' = "free" /\ UNCHANGED <<files, checker>>
      BY <2>4 DEF PublishCommits
    <3>2. pipeline.of \in Analyses /\ lock = "exclusive" /\ "report" \in files[pipeline.of]
          /\ checker.at = "idle"
      BY <1>2, <3>1 DEF Locked
    <3>3. \A b \in Analyses : b # pipeline.of => registry'[b] = registry[b]
      BY <1>0, <3>1 DEF PublishedOK
    <3>4. Journaled'
      BY <1>2, <3>1, <3>2, <3>3 DEF Journaled
    <3>5. Locked'
      BY <3>1, <3>2 DEF Locked
    <3> QED
      BY <3>2, <3>4, <3>5
  <2>5. CASE PipelineDies
    <3>1. /\ pipeline.at # "idle" /\ pipeline' = [at |-> "idle", of |-> None]
          /\ lock' = "free" /\ UNCHANGED <<files, registry, journal, checker>>
      BY <2>5 DEF PipelineDies
    <3>2. checker.at = "idle"
      BY <1>2, <3>1 DEF Locked
    <3>3. Journaled'
      BY <1>2, <3>1 DEF Journaled
    <3>4. Locked'
      BY <3>1, <3>2 DEF Locked
    <3> QED
      BY <3>1, <3>3, <3>4
  <2>6. CASE Recover
    <3>1. /\ journal # None /\ pipeline.at = "idle" /\ lock = "free" /\ journal' = None
          /\ files' = [files EXCEPT ![journal] = {"plan"}]
          /\ UNCHANGED <<registry, lock, pipeline, checker>>
      BY <2>6 DEF Recover
    <3>2. journal \in Analyses /\ registry[journal].state = "none"
      BY <1>0, <1>2, <3>1 DEF Journaled, PublishedOK
    <3>3. \A b \in Analyses : b # journal => files'[b] = files[b]
      BY <1>0, <3>1 DEF PublishedOK
    <3>4. Journaled'
      BY <1>2, <3>1, <3>2, <3>3 DEF Journaled
    <3>5. Locked'
      BY <1>2, <3>1 DEF Locked
    <3> QED
      BY <3>1, <3>4, <3>5
  <2>7. ASSUME NEW a \in Analyses, Retire(a) PROVE PublishedKept
    <3>1. /\ registry[a].state = "live" /\ journal = None /\ pipeline.at = "idle" /\ lock = "free"
          /\ registry' = [registry EXCEPT ![a].state = "retired"]
          /\ UNCHANGED <<files, journal, lock, pipeline, checker>>
      BY <2>7 DEF Retire
    <3>2. \A b \in Analyses : b # a => registry'[b] = registry[b]
      BY <1>0, <3>1 DEF PublishedOK
    <3>3. Journaled'
      BY <1>2, <3>1, <3>2 DEF Journaled
    <3>4. checker.at = "idle" /\ Locked'
      BY <1>2, <3>1 DEF Locked
    <3> QED
      BY <3>3, <3>4
  <2> QED
    BY <2>1, <2>2, <2>3, <2>4, <2>5, <2>6, <2>7 DEF Pipeline
<1>4. ScriptStays'
  BY <1>1 DEF CInv, ScriptStays, inputs, verdicts
<1>5. FoundTrue'
  <2>1. CASE checker.at = "idle"
    BY <1>1, <2>1 DEF FoundTrue, RegistryStands, ComparedStands
  <2>2. CASE checker.at # "idle"
    BY <1>1, <1>3, <2>2
    DEF CInv, FoundTrue, RegistryStands, ComparedStands, Unchanged, Manifest, Bytes, inputs, verdicts
  <2> QED
    BY <2>1, <2>2
<1> QED
  BY <1>3, <1>4, <1>5 DEF CInv

-----------------------------------------------------------------------------
(* What an edit does to the finalizer and the check. *)
LEMMA EditKeepsClean ==
    ASSUME IInv, CInv, clock' = clock + 1,
           finalizer'.at = finalizer.at, finalizer'.of = finalizer.of,
           UNCHANGED <<published, checker>>,
           \A a \in Analyses : /\ script[a] # Absent => script'[a] # Absent
                               /\ result'[a].finalized => result[a].finalized
    PROVE  CInv'
<1>0. InputsOK /\ FinalizerOK /\ CheckerOK
  BY DEF IInv, TypeOK
<1>1. ScriptStays'
  BY <1>0 DEF CInv, ScriptStays, FinalizerOK
<1>2. clock \in Nat /\ checker.since \in Nat /\ (checker.at # "idle" => checker.since <= clock)
  BY <1>0, ManifestAssumption DEF InputsOK, CheckerOK, CInv, FoundTrue
<1>3. checker.at # "idle" => checker.since <= clock' /\ clock' # checker.since
  BY <1>2
<1>4. RegistryStands' /\ ComparedStands'
  BY <1>3 DEF RegistryStands, ComparedStands
<1>5. FoundTrue'
  BY <1>3, <1>4 DEF CInv, FoundTrue
<1>6. Locked' /\ Journaled'
  BY DEF CInv, Locked, Journaled, published
<1> QED
  BY <1>1, <1>5, <1>6 DEF CInv

LEMMA AgentsKeepClean == ASSUME IInv, CInv, Agents PROVE CInv'
<1> USE ManifestAssumption, OriginalContents
<1>0. InputsOK /\ PublishedOK /\ FinalizerOK /\ CheckerOK
  BY DEF IInv, TypeOK
<1>t. InputsOK'
  BY AgentsKeep DEF IInv, TypeOK
<1>w. ASSUME Watches PROVE finalizer'.at = finalizer.at /\ finalizer'.of = finalizer.of
  BY <1>t, <1>w, WatchesField
<1>1. CASE EditCode
  <2>1. clock' = clock + 1 /\ UNCHANGED <<claims, prose, script, published, checker, result>> /\ Watches
    BY <1>1 DEF EditCode, Edit, verdicts
  <2> QED
    BY <1>w, <2>1, EditKeepsClean
<1>2. ASSUME NEW a \in Analyses, EditReport(a) PROVE CInv'
  <2>1. clock' = clock + 1 /\ UNCHANGED <<script, published, checker, result>> /\ Watches
    BY <1>2 DEF EditReport, Edit, verdicts
  <2> QED
    BY <1>w, <2>1, EditKeepsClean
<1>3. ASSUME NEW a \in Analyses, WriteScript(a) PROVE CInv'
  <2>1. /\ UNCHANGED <<code, claims, prose, published, checker, result>> /\ Watches
        /\ \/ script[a] = Absent /\ clock' = clock
           \/ clock' = clock + 1
        /\ \E bytes \in Contents : script' = [script EXCEPT ![a] = bytes]
    BY <1>3 DEF WriteScript, Edit, verdicts
  <2>2. \A b \in Analyses : /\ b # a => script'[b] = script[b]
                            /\ script[b] # Absent => script'[b] # Absent
    BY <1>0, <2>1 DEF InputsOK
  <2>3. CASE clock' = clock + 1
    BY <1>w, <2>1, <2>2, <2>3, EditKeepsClean
  <2>4. CASE script[a] = Absent /\ clock' = clock
    <3>1. ScriptStays'
      BY <1>0, <1>w, <2>1, <2>2 DEF CInv, ScriptStays, FinalizerOK
    <3>2. ASSUME NEW b \in Analyses, Unchanged(b) PROVE Unchanged(b)'
      <4>1. b # a
        BY <2>4, <3>2 DEF CInv, ScriptStays, Unchanged, Derived
      <4>2. Manifest(b)' = Manifest(b)
        BY <2>1, <2>2, <4>1 DEF Manifest
      <4> QED
        BY <2>1, <3>2, <4>2 DEF Unchanged
    <3>3. ComparedStands'
      BY <2>1, <2>4, <3>2 DEF CInv, FoundTrue, ComparedStands, published
    <3>4. RegistryStands'
      BY <2>1, <2>4 DEF CInv, FoundTrue, RegistryStands, Bytes, published
    <3>5. FoundTrue'
      BY <2>1, <2>4, <3>3, <3>4 DEF CInv, FoundTrue
    <3>6. Locked' /\ Journaled'
      BY <2>1 DEF CInv, Locked, Journaled, published
    <3> QED
      BY <3>1, <3>5, <3>6 DEF CInv
  <2> QED
    BY <2>1, <2>3, <2>4
<1>4. ASSUME NEW a \in Analyses, WriteCandidate(a) PROVE CInv'
  <2>1. UNCHANGED <<inputs, published, result, finalizer, checker>>
    BY <1>4 DEF WriteCandidate
  <2> QED
    BY <2>1 DEF CInv, Locked, Journaled, ScriptStays, FoundTrue, RegistryStands,
                ComparedStands, Unchanged, Manifest, Bytes, inputs, published
<1>5. ASSUME NEW a \in Analyses, WriteVerdict(a) PROVE CInv'
  <2>1. PICK v \in {"PASS", "FAIL"} :
            result' = [result EXCEPT ![a] =
                         [verdict |-> v, finalized |-> FALSE, manifest |-> Manifest(a)]]
    BY <1>5 DEF WriteVerdict
  <2>2. clock' = clock + 1 /\ UNCHANGED <<script, published, finalizer, checker>>
    BY <1>5 DEF WriteVerdict, Edit
  <2>3. \A b \in Analyses : result'[b].finalized => result[b].finalized
    <3>1. \A b \in Analyses : b # a => result'[b] = result[b]
      BY <1>0, <2>1 DEF FinalizerOK
    <3>2. ~result'[a].finalized
      BY <1>0, <2>1 DEF FinalizerOK
    <3> QED
      BY <3>1, <3>2
  <2> QED
    BY <2>2, <2>3, EditKeepsClean
<1> QED
  BY <1>1, <1>2, <1>3, <1>4, <1>5 DEF Agents

-----------------------------------------------------------------------------
(* The finalizer's steps leave what check-all has found as it is, but for the *)
(* result that they write over it.                                            *)
LEMMA FinalizerKeepsClean == ASSUME IInv, CInv, Finalizer PROVE CInv'
<1>0. FinalizerOK /\ CheckerOK
  BY DEF IInv, TypeOK
<1>1. UNCHANGED <<inputs, published>>
  BY DEF Finalizer, FinalizeStarts, ReadCode, ReadHeadline, ReadScript, Reads, RunVerifier,
         VerifierEnds, Derive, WriteResult, FinalizeFails, FinalizerMoves
<1>2. ASSUME NEW a \in Analyses PROVE Manifest(a)' = Manifest(a) /\ Bytes(a)' = Bytes(a)
  BY <1>1 DEF Manifest, Bytes, inputs
<1>3. CASE WriteResult
  <2>1. /\ finalizer.at = "write" /\ finalizer' = Idle
        /\ result' = [result EXCEPT ![finalizer.of] =
                        [verdict |-> "PASS", finalized |-> TRUE, manifest |-> finalizer.after]]
        /\ checker' = IF checker.at = "idle" THEN checker
                      ELSE [checker EXCEPT !.rewritten = @ \cup {finalizer.of}]
    BY <1>3 DEF WriteResult
  <2>2. finalizer.of \in Analyses /\ finalizer'.at = "idle"
    BY <1>0, <2>1 DEF FinalizerOK, Idle
  <2>3. \A a \in Analyses : a # finalizer.of => result'[a] = result[a]
    BY <1>0, <2>1 DEF FinalizerOK
  <2>4. ScriptStays'
    <3>1. script[finalizer.of] # Absent
      BY <2>1 DEF CInv, ScriptStays
    <3> QED
      BY <1>1, <2>2, <2>3, <3>1 DEF CInv, ScriptStays, inputs
  <2>5. /\ checker'.at = checker.at /\ checker'.since = checker.since
        /\ checker'.states = checker.states /\ checker'.todo = checker.todo
        /\ checker'.clean = checker.clean
        /\ checker.at # "idle" => checker'.rewritten = checker.rewritten \cup {finalizer.of}
    BY <1>0, <2>1 DEF CheckerOK
  <2>6. Locked' /\ Journaled'
    BY <1>1, <2>5 DEF CInv, Locked, Journaled, published
  <2>7. RegistryStands'
    BY <1>1, <1>2, <2>5 DEF CInv, FoundTrue, RegistryStands, inputs, published
  <2>8. ASSUME NEW a \in Analyses, a # finalizer.of, Unchanged(a) PROVE Unchanged(a)'
    BY <1>2, <2>3, <2>8 DEF Unchanged
  <2>9. ComparedStands'
    <3> SUFFICES ASSUME checker.at \in {"compare", "emit"}, checker.clean, clock = checker.since,
                        NEW a \in Analyses, registry[a].state = "live"
                 PROVE  a \in checker.todo \/ Unchanged(a)' \/ a \in checker'.rewritten
      BY <1>1, <2>5 DEF ComparedStands, inputs, published
    <3>1. a \in checker.todo \/ Unchanged(a) \/ a \in checker.rewritten
      BY DEF CInv, FoundTrue, ComparedStands
    <3> QED
      BY <2>5, <2>8, <3>1
  <2>10. FoundTrue'
    BY <1>1, <2>5, <2>7, <2>9 DEF CInv, FoundTrue, inputs
  <2> QED
    BY <2>4, <2>6, <2>10 DEF CInv
<1>4. CASE ~WriteResult
  <2>1. UNCHANGED <<result, checker>>
    BY <1>4 DEF Finalizer, FinalizeStarts, ReadCode, ReadHeadline, ReadScript, Reads,
                RunVerifier, VerifierEnds, Derive, FinalizeFails, FinalizerMoves, verdicts
  <2>2. /\ finalizer'.at # "idle" => finalizer'.of \in Analyses
        /\ finalizer'.at # "idle" => script[finalizer'.of] # Absent
    <3>1. CASE finalizer' = Idle
      BY <3>1 DEF Idle
    <3>2. ASSUME NEW a \in Analyses, FinalizeStarts(a)
          PROVE  finalizer'.of = a /\ script[a] # Absent
      BY <3>2 DEF FinalizeStarts, FinalizerMoves, Idle
    <3>3. CASE finalizer' # Idle /\ ~(\E a \in Analyses : FinalizeStarts(a))
      <4>1. finalizer'.of = finalizer.of /\ finalizer.at # "idle"
        BY <1>0, <1>4, <3>3
        DEF Finalizer, ReadCode, ReadHeadline, ReadScript, Reads, RunVerifier, VerifierEnds,
            Derive, FinalizeFails, FinalizerMoves, FinalizerOK
      <4> QED
        BY <1>0, <4>1 DEF CInv, ScriptStays, FinalizerOK
    <3> QED
      BY <3>1, <3>2, <3>3
  <2>3. ScriptStays'
    BY <1>1, <2>1, <2>2 DEF CInv, ScriptStays, inputs
  <2>4. FoundTrue'
    BY <1>1, <1>2, <2>1 DEF CInv, FoundTrue, RegistryStands, ComparedStands, Unchanged,
                            inputs, published
  <2>5. Locked' /\ Journaled'
    BY <1>1, <2>1 DEF CInv, Locked, Journaled, published
  <2> QED
    BY <2>3, <2>4, <2>5 DEF CInv
<1> QED
  BY <1>3, <1>4

-----------------------------------------------------------------------------
(* Every step of the check adds what it has just found out.                   *)
LEMMA CheckerKeepsClean == ASSUME IInv, CInv, Checker PROVE CInv'
<1> USE ManifestAssumption
<1>0. InputsOK /\ PublishedOK /\ CheckerOK
  BY DEF IInv, TypeOK
<1> DEFINE Checkers ==
        [at: {"idle", "inventory", "list", "compare", "emit"}, since: Nat,
         states: [Analyses -> {"none", "live", "retired"}],
         todo: SUBSET Analyses, listed: SUBSET Analyses, rewritten: SUBSET Analyses,
         clean: BOOLEAN]
<1>1. checker \in Checkers
  BY <1>0 DEF CheckerOK
<1>2. UNCHANGED <<inputs, verdicts, finalizer, files, registry, journal, pipeline>>
  BY DEF Checker, CheckerMoves, CheckStarts, Inventory, ListArtifacts, Compare, Emit, CheckEnds,
         published
<1>3. ScriptStays' /\ Journaled'
  BY <1>2 DEF CInv, ScriptStays, Journaled, inputs, verdicts
<1>4. ASSUME NEW a \in Analyses
      PROVE  (Unchanged(a) <=> Unchanged(a)') /\ Bytes(a)' = Bytes(a)
  BY <1>2 DEF Unchanged, Manifest, Bytes, inputs, verdicts
<1>5. ASSUME lock' = lock, checker.at # "idle" PROVE Locked'
  BY <1>2, <1>5 DEF CInv, Locked
<1>6. checker.since \in Nat /\ clock \in Nat /\ clock' = clock
      /\ (checker.at # "idle" => checker.since <= clock)
  BY <1>0, <1>2 DEF InputsOK, CheckerOK, CInv, FoundTrue, inputs
<1>7. CASE CheckStarts
  <2>1. /\ lock = "free" /\ lock' = "shared"
        /\ checker' = [Resting EXCEPT !.at = "inventory", !.since = clock]
    BY <1>7 DEF CheckStarts, CheckerMoves
  <2>2. checker'.at = "inventory" /\ checker'.since = clock
    BY <2>1 DEF Resting
  <2>3. Locked'
    BY <1>2, <2>1 DEF CInv, Locked
  <2>4. checker'.clean
    BY <2>1 DEF Resting
  <2>5. FoundTrue'
    BY <1>6, <2>2, <2>4 DEF FoundTrue, RegistryStands, ComparedStands
  <2> QED
    BY <1>3, <2>3, <2>5 DEF CInv
<1>8. CASE Inventory
  <2>1. checker.at = "inventory" /\ lock' = lock
    BY <1>8 DEF Inventory, published
  <2>2. CASE journal # None \/ \E a \in Registered : Bytes(a) # registry[a].recorded
    <3>1. checker' = [checker EXCEPT !.at = "emit", !.clean = FALSE]
      BY <1>8, <2>2 DEF Inventory, CheckerMoves
    <3>2. checker'.at = "emit" /\ ~checker'.clean /\ checker'.since = checker.since
      BY <1>1, <3>1
    <3>3. FoundTrue'
      BY <1>6, <2>1, <3>2 DEF FoundTrue, RegistryStands, ComparedStands
    <3> QED
      BY <1>3, <1>5, <2>1, <3>3 DEF CInv
  <2>3. CASE ~(journal # None \/ \E a \in Registered : Bytes(a) # registry[a].recorded)
    <3>1. checker' = [checker EXCEPT !.at = "list",
                                     !.states = [a \in Analyses |-> registry[a].state]]
      BY <1>8, <2>3 DEF Inventory, CheckerMoves
    <3>2. checker'.at = "list" /\ checker'.since = checker.since
          /\ checker'.states = [a \in Analyses |-> registry[a].state]
      BY <1>1, <3>1
    <3>3. \A a \in Analyses : registry[a].state # "none" => Bytes(a) = registry[a].recorded
      BY <2>3 DEF Registered
    <3>4. RegistryStands'
      BY <1>2, <1>4, <3>2, <3>3 DEF RegistryStands
    <3>5. checker'.clean = checker.clean
      BY <1>1, <3>1
    <3>6. FoundTrue'
      BY <1>6, <2>1, <3>2, <3>4, <3>5 DEF CInv, FoundTrue, ComparedStands
    <3> QED
      BY <1>3, <1>5, <2>1, <3>6 DEF CInv
  <2> QED
    BY <2>2, <2>3
<1>9. CASE ListArtifacts
  <2> DEFINE reports == {a \in Analyses : "report" \in files[a] /\ checker.states[a] # "none"}
  <2>1. checker.at = "list" /\ lock' = lock
    BY <1>9 DEF ListArtifacts, published
  <2>2. PICK b \in BOOLEAN :
            checker' = [checker EXCEPT !.at = "compare", !.todo = reports, !.listed = reports,
                                       !.clean = b]
    BY <1>9 DEF ListArtifacts, CheckerMoves
  <2>3. checker'.at = "compare" /\ checker'.todo = reports /\ checker'.since = checker.since
        /\ checker'.states = checker.states
    BY <1>1, <2>2
  <2>4. clock = checker.since /\ checker.clean =>
            \A a \in Analyses : registry[a].state # "none" =>
                checker.states[a] = registry[a].state /\ Bytes(a) = registry[a].recorded
    BY <2>1 DEF CInv, FoundTrue, RegistryStands
  <2>5. checker.clean
    BY <2>1 DEF CInv, FoundTrue
  <2>6. RegistryStands'
    BY <1>2, <1>4, <1>6, <2>3, <2>4, <2>5 DEF RegistryStands
  <2>7. ComparedStands'
    BY <1>2, <1>6, <2>3, <2>4, <2>5 DEF ComparedStands, CInv, Journaled
  <2>8. FoundTrue'
    BY <1>6, <2>1, <2>3, <2>6, <2>7 DEF FoundTrue
  <2> QED
    BY <1>3, <1>5, <2>1, <2>8 DEF CInv
<1>10. ASSUME NEW a \in Analyses, Compare(a) PROVE CInv'
  <2>1. checker.at = "compare" /\ lock' = lock
        /\ checker' = [checker EXCEPT !.todo = @ \ {a},
                         !.clean = @ /\ (checker.states[a] = "retired" \/ Unchanged(a))]
    BY <1>10 DEF Compare, CheckerMoves, published
  <2>2. checker'.at = "compare" /\ checker'.todo = checker.todo \ {a}
        /\ checker'.since = checker.since /\ checker'.states = checker.states
        /\ checker'.rewritten = checker.rewritten
    BY <1>1, <2>1
  <2>3. checker'.clean => checker.clean /\ (checker.states[a] = "retired" \/ Unchanged(a))
    BY <1>1, <2>1
  <2>4. RegistryStands'
    BY <1>2, <1>4, <1>6, <2>1, <2>2, <2>3 DEF CInv, FoundTrue, RegistryStands
  <2>5. ComparedStands'
    <3> SUFFICES ASSUME checker'.clean, clock = checker.since,
                        NEW b \in Analyses, registry[b].state = "live"
                 PROVE  b \in checker.todo \ {a} \/ Unchanged(b) \/ b \in checker.rewritten
      BY <1>2, <1>4, <1>6, <2>2 DEF ComparedStands
    <3>1. b \in checker.todo \/ Unchanged(b) \/ b \in checker.rewritten
      BY <2>1, <2>3 DEF CInv, FoundTrue, ComparedStands
    <3>2. checker.states[b] = registry[b].state
      BY <2>1, <2>3 DEF CInv, FoundTrue, RegistryStands
    <3> QED
      BY <2>3, <3>1, <3>2
  <2>6. FoundTrue'
    BY <1>6, <2>1, <2>2, <2>4, <2>5 DEF FoundTrue
  <2> QED
    BY <1>3, <1>5, <2>1, <2>6 DEF CInv
<1>11. CASE Emit
  <2>1. checker.at = "compare" /\ checker.todo = {} /\ lock' = lock
        /\ checker' = [checker EXCEPT !.at = "emit"]
    BY <1>11 DEF Emit, CheckerMoves, published
  <2>2. checker'.at = "emit" /\ checker'.todo = checker.todo
        /\ checker'.since = checker.since /\ checker'.states = checker.states
        /\ checker'.rewritten = checker.rewritten
    BY <1>1, <2>1
  <2>3. checker'.clean = checker.clean
    BY <1>1, <2>1
  <2>4. RegistryStands' /\ ComparedStands'
    BY <1>2, <1>4, <1>6, <2>1, <2>2, <2>3 DEF CInv, FoundTrue, RegistryStands, ComparedStands
  <2>5. FoundTrue'
    BY <1>6, <2>1, <2>2, <2>4 DEF FoundTrue
  <2> QED
    BY <1>3, <1>5, <2>1, <2>5 DEF CInv
<1>12. CASE CheckEnds
  <2>1. checker.at # "idle" /\ lock' = "free" /\ checker' = Resting
    BY <1>12 DEF CheckEnds, CheckerMoves
  <2>2. checker'.at = "idle"
    BY <2>1 DEF Resting
  <2>3. Locked'
    BY <1>2, <2>1, <2>2 DEF CInv, Locked
  <2>4. FoundTrue'
    BY <2>2 DEF FoundTrue, RegistryStands, ComparedStands
  <2> QED
    BY <1>3, <2>3, <2>4 DEF CInv
<1> QED
  BY <1>7, <1>8, <1>9, <1>10, <1>11, <1>12 DEF Checker

-----------------------------------------------------------------------------
LEMMA CleanKept == IInv /\ CInv /\ [Next]_vars => CInv'
<1> SUFFICES ASSUME IInv, CInv, [Next]_vars PROVE CInv'
  OBVIOUS
<1>1. CASE UNCHANGED vars
  BY <1>1 DEF vars, inputs, published, verdicts, CInv, Locked, Journaled, ScriptStays,
              FoundTrue, RegistryStands, ComparedStands, Unchanged, Manifest, Bytes
<1> QED
  BY <1>1, PipelineKeepsClean, AgentsKeepClean, FinalizerKeepsClean, CheckerKeepsClean DEF Next

(* check-all says UNCHANGED only when every analysis that is live has a       *)
(* finalized PASS for the bytes on disk and its registered report, unless an  *)
(* agent edited, or finalize-pass replaced that result, during the check      *)
(* (check_all under _results_read_lock).                                      *)
THEOREM CleanMeansVerifiedHolds == Spec => []CleanMeansVerified
<1>1. CInv => CleanMeansVerified
  BY DEF CInv, FoundTrue, RegistryStands, ComparedStands, CleanMeansVerified
<1> QED
  BY <1>1, CleanInit, CleanKept, InvariantHolds, PTL DEF Spec

-----------------------------------------------------------------------------
(* The download caches.                                                       *)

(* A call has a file open while it writes and until it has renamed it.        *)
OpenWhileWriting ==
    \A c \in Callers :
        /\ call[c].file # NoFile <=> call[c].at \in {"write", "rename"}
        /\ call[c].at = "rename" => T.temp # "none"

(* Where nobody else wrote, what stands at the shared temporary name is one's *)
(* own file or nothing.                                                       *)
Unshared == T.temp = "shared" /\ ~raced

PartIsMine ==
    /\ T.temp = "shared" /\ part # NoFile => part # cache
    /\ Unshared =>
          \A c \in Callers : call[c].file # NoFile =>
              /\ call[c].file # cache
              /\ part # NoFile => part = call[c].file
              /\ \A e \in Callers \ {c} : call[e].file = NoFile

(* A temporary name of one's own leads to one's own file.                     *)
OwnIsMine ==
    T.temp = "own" =>
        \A c \in Callers :
            /\ call[c].file # NoFile => call[c].file = own[c]
            /\ own[c] # NoFile => own[c] # cache /\ \A d \in Callers \ {c} : own[d] # own[c]

(* Then the file holds what the call has written, and it is renamed when that *)
(* is everything, or was taken for everything.                                *)
Filled ==
    Unshared \/ T.temp = "own" =>
        \A c \in Callers : call[c].file # NoFile =>
            /\ \A k \in Chunks : k <= call[c].wrote => data[call[c].file][k] # "nothing"
            /\ call[c].at = "rename" => ~Torn(call[c].file)

(* What stands at the cache's name is whole then.                             *)
CacheWhole ==
    (Unshared \/ T.temp = "own") /\ cache # NoFile => ~Torn(cache)

(* In any case somebody still has to write what is missing, or was stopped.   *)
Missing(i, k) ==
    \/ i \in stopped
    \/ \E d \in Callers : call[d].at = "write" /\ call[d].file = i /\ call[d].wrote < k

Explained ==
    T.temp = "shared" =>
        \A i \in {cache, part} \ {NoFile} : \A k \in Chunks :
            data[i][k] = "nothing" => Missing(i, k)

FileInv == OpenWhileWriting /\ PartIsMine /\ OwnIsMine /\ Filled /\ CacheWhole /\ Explained

CacheInv == CacheTypeOK /\ FileInv /\ ShortHasCause /\ UnreadableHasCause

Calls == [at : CallPlaces, file : Inodes \cup {NoFile}, wrote : Chunks \cup {0},
          response : {"whole", "cut", "page"}, got : Results]

(* What a call may give.                                                      *)
Caused(got) ==
    /\ got = "torn" => source = "tables" /\ csv # NoFile
    /\ got = "unreadable" =>
          \/ source \in {"schedule", "bhcf"}
          \/ source = "tables" /\ csv # NoFile
          \/ T.temp = "shared" /\ raced

-----------------------------------------------------------------------------
(* What sets the helpers apart, as far as the invariant goes. *)
LEMMA TraitFacts ==
    ASSUME source \in Sources
    PROVE  /\ T.temp = "own" <=> source \in {"treasury", "liuwu"}
           /\ T.temp = "none" <=> source \in {"schedule", "bhcf", "tables"}
           /\ T.temp \in {"shared", "own", "none"}
           /\ T.torn = "torn" <=> T.temp = "own"
           /\ T.torn \in {"torn", "unreadable"}
           /\ T.early \in {"refused", "short"}
           /\ T.heals = "unreadable" <=> source = "tables"
           /\ T.streams => T.temp # "none"
<1>1. source \in {"ffiec", "deepvest", "form5500", "schedule", "osbap", "treasury", "liuwu", "bhcf",
                  "tables"}
  BY CacheAssumption DEF Trait
<1>2. CASE source = "ffiec"
  BY <1>2 DEF T, Trait, Ffiec, Ordinary
<1>3. CASE source = "deepvest"
  BY <1>3 DEF T, Trait, DeepVest, Ordinary
<1>4. CASE source = "form5500"
  BY <1>4 DEF T, Trait, Form5500, Ordinary
<1>5. CASE source = "schedule"
  BY <1>5 DEF T, Trait, Schedule, Ordinary
<1>6. CASE source = "osbap"
  BY <1>6 DEF T, Trait, Osbap, Ordinary
<1>7. CASE source = "treasury"
  BY <1>7 DEF T, Trait, Treasury, Ordinary
<1>8. CASE source = "liuwu"
  BY <1>8 DEF T, Trait, LiuWu, Treasury, Ordinary
<1>9. CASE source = "bhcf"
  BY <1>9 DEF T, Trait, Bhcf, Ordinary
<1>10. CASE source = "tables"
  BY <1>10 DEF T, Trait, Tables, Ordinary
<1> QED
  BY <1>1, <1>2, <1>3, <1>4, <1>5, <1>6, <1>7, <1>8, <1>9, <1>10

LEMMA ImageBound ==
    ASSUME NEW S, IsFiniteSet(S), NEW f, DOMAIN f = S
    PROVE  /\ IsFiniteSet({f[c] : c \in S})
           /\ Cardinality({f[c] : c \in S}) <= Cardinality(S)
           /\ Cardinality({f[c] : c \in S}) \in Nat
<1> DEFINE R == {f[c] : c \in S}
           g == [c \in S |-> f[c]]
<1>1. g \in Surjection(S, R)
  BY DEF Surjection
<1>2. IsFiniteSet(R) /\ Cardinality(R) <= Cardinality(S)
  BY <1>1, FS_Surjection
<1> QED
  BY <1>2, FS_CardinalityType

(* Two finite sets have together at most the elements of each. *)
LEMMA UnionBound ==
    ASSUME NEW S, IsFiniteSet(S), NEW U, IsFiniteSet(U)
    PROVE  /\ IsFiniteSet(S \cup U) /\ Cardinality(S \cup U) \in Nat
           /\ Cardinality(S \cup U) <= Cardinality(S) + Cardinality(U)
<1>1. Cardinality(S) \in Nat /\ Cardinality(U) \in Nat
  BY FS_CardinalityType
<1>2. IsFiniteSet(S \cup U) /\ Cardinality(S \cup U) =
               Cardinality(S) + Cardinality(U) - Cardinality(S \cap U)
  BY FS_Union
<1>3. S \cap U \in SUBSET S
  OBVIOUS
<1>4. IsFiniteSet(S \cap U)
  BY <1>3, FS_Subset
<1>5. Cardinality(S \cap U) \in Nat /\ Cardinality(S \cup U) \in Nat
  BY <1>2, <1>4, FS_CardinalityType
<1> QED
  BY <1>1, <1>2, <1>5

LEMMA InodeIsNoName == \A i \in Inodes : i # NoFile
<1>1. Cardinality(Callers) \in Nat
  BY CacheAssumption, FS_CardinalityType
<1> QED
  BY <1>1 DEF Inodes, NoFile

(* There is always a file that nobody has open and no name leads to, when one *)
(* of the names is free.                                                      *)
LEMMA FreshExists ==
    ASSUME CacheTypeOK, NoFile \in Named
    PROVE  Fresh \in Inodes /\ Fresh \notin Open \cup Named
<1> DEFINE n == Cardinality(Callers)
           Files == [c \in Callers |-> call[c].file]
           Owned == {own[c] : c \in Callers}
           Used == (Open \cup Named) \ {NoFile}
<1>1. IsFiniteSet(Callers) /\ n \in Nat
  BY CacheAssumption, FS_CardinalityType
<1>2. IsFiniteSet(Open) /\ Cardinality(Open) <= n /\ Cardinality(Open) \in Nat
  <2>1. Open = {Files[c] : c \in Callers}
    BY DEF Open
  <2> HIDE DEF Files
  <2>2. DOMAIN Files = Callers
    BY DEF Files
  <2> QED
    BY <1>1, <2>1, <2>2, ImageBound
<1>3. IsFiniteSet(Owned) /\ Cardinality(Owned) <= n /\ Cardinality(Owned) \in Nat
  <2>1. DOMAIN own = Callers
    BY DEF CacheTypeOK
  <2> QED
    BY <1>1, <2>1, ImageBound
<1>4. IsFiniteSet({cache, csv, part}) /\ Cardinality({cache, csv, part}) <= 3
      /\ Cardinality({cache, csv, part}) \in Nat
  <2>1. IsFiniteSet({cache}) /\ Cardinality({cache}) = 1
        /\ IsFiniteSet({csv}) /\ Cardinality({csv}) = 1
        /\ IsFiniteSet({part}) /\ Cardinality({part}) = 1
    BY FS_Singleton
  <2> DEFINE Two == {cache} \cup {csv}
  <2>2. IsFiniteSet(Two) /\ Cardinality(Two) <= 2 /\ Cardinality(Two) \in Nat
    BY <2>1, UnionBound
  <2>3. {cache, csv, part} = Two \cup {part}
    OBVIOUS
  <2> HIDE DEF Two
  <2>4. /\ IsFiniteSet(Two \cup {part}) /\ Cardinality(Two \cup {part}) \in Nat
        /\ Cardinality(Two \cup {part}) <= Cardinality(Two) + Cardinality({part})
    BY <2>1, <2>2, UnionBound
  <2> QED
    BY <2>1, <2>2, <2>3, <2>4
<1>5. IsFiniteSet(Named) /\ Cardinality(Named) <= n + 3 /\ Cardinality(Named) \in Nat
  <2>1. Named = {cache, csv, part} \cup Owned
    BY DEF Named
  <2> HIDE DEF Owned
  <2> QED
    BY <1>1, <1>3, <1>4, <2>1, UnionBound
<1>6. IsFiniteSet(Open \cup Named) /\ Cardinality(Open \cup Named) <= 2 * n + 3
      /\ Cardinality(Open \cup Named) \in Nat
  BY <1>1, <1>2, <1>5, UnionBound
<1>7. IsFiniteSet(Used) /\ Cardinality(Used) < 2 * n + 3
  <2> DEFINE All == Open \cup Named
  <2>1. NoFile \in All /\ IsFiniteSet(All) /\ Cardinality(All) <= 2 * n + 3
        /\ Cardinality(All) \in Nat
    BY <1>6
  <2> HIDE DEF All
  <2>2. IsFiniteSet(All \ {NoFile}) /\ Cardinality(All \ {NoFile}) = Cardinality(All) - 1
    BY <2>1, FS_RemoveElement
  <2>3. Cardinality(All \ {NoFile}) < 2 * n + 3
    BY <1>1, <2>1, <2>2
  <2> QED
    BY <2>2, <2>3 DEF All
<1>8. IsFiniteSet(Inodes) /\ Cardinality(Inodes) = 2 * n + 3
  BY <1>1, FS_Interval DEF Inodes
<1>9. ~(Inodes \subseteq Used)
  <2>1. ASSUME Inodes \in SUBSET Used PROVE FALSE
    <3>1. Cardinality(Inodes) <= Cardinality(Used)
      BY <1>7, <2>1, FS_Subset
    <3>2. Cardinality(Used) \in Nat
      BY <1>7, FS_CardinalityType
    <3> HIDE DEF Used
    <3> QED
      BY <1>1, <1>7, <1>8, <3>1, <3>2
  <2> QED
    BY <2>1
<1>10. \E i \in Inodes : i \notin Open \cup Named
  BY <1>1, <1>9 DEF Inodes, NoFile
<1> QED
  BY <1>10 DEF Fresh

-----------------------------------------------------------------------------
LEMMA CacheInvInit == CacheInit => CacheInv
<1> SUFFICES ASSUME CacheInit PROVE CacheInv
  OBVIOUS
<1> DEFINE n == Cardinality(Callers)
<1>1. n \in Nat
  BY CacheAssumption, FS_CardinalityType
<1>2. 1 \in Inodes /\ cache \in Inodes \cup {NoFile}
  <2>1. 1 \in Inodes
    BY <1>1 DEF Inodes
  <2> QED
    BY <2>1 DEF CacheInit
<1>3. /\ csv = NoFile /\ part = NoFile /\ own = [c \in Callers |-> NoFile]
      /\ call = [c \in Callers |-> NoCall] /\ raced = FALSE /\ stopped = {}
      /\ source \in Sources
  BY DEF CacheInit
<1>4. data \in [Inodes -> [Chunks -> Kinds]]
  <2>1. \A x \in {"nothing", "older release"} : [k \in Chunks |-> x]
            \in [Chunks -> Kinds]
    BY DEF Kinds
  <2>2. CASE data = [i \in Inodes |-> Unwritten]
    BY <2>1, <2>2 DEF Unwritten
  <2>3. CASE data = [i \in Inodes |-> IF i = 1 THEN [k \in Chunks |-> "older release"]
                                      ELSE Unwritten]
    BY <2>1, <2>3 DEF Unwritten
  <2> QED
    BY <2>2, <2>3 DEF CacheInit
<1>5. NoCall \in Calls
  BY DEF NoCall, Calls, CallPlaces, Results
<1>6. CacheTypeOK
  BY <1>2, <1>3, <1>4, <1>5 DEF CacheTypeOK, Calls
<1>7. NoCall.at = "idle" /\ NoCall.file = NoFile /\ NoCall.got = "nothing"
  BY DEF NoCall
<1>8. cache # NoFile => T.temp = "none"
  BY <1>3, TraitFacts DEF CacheInit
<1> QED
  BY <1>3, <1>6, <1>7, <1>8
  DEF CacheInv, FileInv, OpenWhileWriting, PartIsMine, OwnIsMine, Filled, CacheWhole,
      Explained, ShortHasCause, UnreadableHasCause, Unshared

-----------------------------------------------------------------------------
(* The steps after which the call has no file open: names may be dropped, and *)
(* a file that is not finished is known to be.                                *)
Forsakes(c) ==
    /\ stopped \subseteq stopped' /\ stopped' \subseteq Inodes
    /\ T.temp = "shared" /\ call[c].at = "write" /\ call[c].file \in {cache, part}
          => call[c].file \in stopped'

LetsGo(c) ==
    /\ call' \in [Callers -> Calls] /\ \A d \in Callers \ {c} : call'[d] = call[d]
    /\ call'[c].file = NoFile /\ call'[c].at \notin {"write", "rename"}
    /\ source' = source /\ data' = data /\ csv' = csv /\ raced' = raced /\ Forsakes(c)
    /\ cache' \in {cache, NoFile} /\ part' \in {part, NoFile}
    /\ own' \in {own, [own EXCEPT ![c] = NoFile]}

LEMMA LetsGoKeeps ==
    ASSUME CacheInv, NEW c \in Callers, LetsGo(c), Caused(call'[c].got)
    PROVE  CacheInv'
<1>1. /\ source' = source /\ data' = data /\ csv' = csv /\ raced' = raced
      /\ cache' \in {cache, NoFile} /\ part' \in {part, NoFile}
      /\ T' = T /\ stopped' \subseteq Inodes
  BY DEF LetsGo, T, Forsakes
<1>2. own' \in [Callers -> Inodes \cup {NoFile}] /\ (\A d \in Callers : own'[d] \in {own[d], NoFile})
      /\ \A d \in Callers \ {c} : own'[d] = own[d]
  BY DEF LetsGo, CacheInv, CacheTypeOK
<1>3. /\ call' \in [Callers -> Calls] /\ \A d \in Callers \ {c} : call'[d] = call[d]
      /\ call'[c].file = NoFile /\ call'[c].at \notin {"write", "rename"}
  BY DEF LetsGo
<1>4. CacheTypeOK'
  <2>1. CacheTypeOK
    BY DEF CacheInv
  <2>2. {cache', csv', part'} \subseteq Inodes \cup {NoFile}
    BY <1>1, <2>1 DEF CacheTypeOK
  <2>3. \A d \in Callers : own'[d] # NoFile => T'.temp = "own"
    BY <1>1, <1>2, <2>1 DEF CacheTypeOK
  <2> QED
    BY <1>1, <1>2, <1>3, <2>1, <2>2, <2>3 DEF CacheTypeOK, Calls
<1>5. OpenWhileWriting'
  BY <1>1, <1>3 DEF CacheInv, FileInv, OpenWhileWriting
<1>6. PartIsMine'
  BY <1>1, <1>3 DEF CacheInv, FileInv, PartIsMine, Unshared
<1>7. OwnIsMine'
  BY <1>1, <1>2, <1>3 DEF CacheInv, FileInv, OwnIsMine
<1>8. Filled'
  BY <1>1, <1>3 DEF CacheInv, FileInv, Filled, Unshared, Torn
<1>9. CacheWhole'
  BY <1>1 DEF CacheInv, FileInv, CacheWhole, Unshared, Torn
<1>10. Explained'
  <2> SUFFICES ASSUME T.temp = "shared", NEW i \in {cache', part'} \ {NoFile}, NEW k \in Chunks,
                      data[i][k] = "nothing"
               PROVE  Missing(i, k)'
    BY <1>1 DEF Explained
  <2>1. i \in {cache, part} \ {NoFile}
    BY <1>1
  <2>2. Missing(i, k)
    BY <2>1 DEF CacheInv, FileInv, Explained
  <2>3. CASE i \in stopped
    BY <2>3 DEF Missing, LetsGo, Forsakes
  <2>4. ASSUME NEW d \in Callers, call[d].at = "write", call[d].file = i, call[d].wrote < k
        PROVE  Missing(i, k)'
    <3>1. CASE d = c
      BY <2>1, <2>4, <3>1 DEF Missing, LetsGo, Forsakes
    <3>2. CASE d # c
      BY <1>3, <2>4, <3>2 DEF Missing
    <3> QED
      BY <3>1, <3>2
  <2> QED
    BY <2>2, <2>3, <2>4 DEF Missing
<1>11. ShortHasCause'
  BY <1>1, <1>3 DEF CacheInv, ShortHasCause, Caused
<1>12. UnreadableHasCause'
  BY <1>1, <1>3 DEF CacheInv, UnreadableHasCause, Caused
<1> QED
  BY <1>4, <1>5, <1>6, <1>7, <1>8, <1>9, <1>10, <1>11, <1>12 DEF CacheInv, FileInv

LEMMA Quiet ==
    ASSUME CacheInv, NEW c \in Callers, NEW r \in Calls, call' = [call EXCEPT ![c] = r],
           r.file = NoFile, r.at \notin {"write", "rename"},
           UNCHANGED <<source, data, csv, raced>>, Forsakes(c),
           cache' \in {cache, NoFile}, part' \in {part, NoFile},
           own' \in {own, [own EXCEPT ![c] = NoFile]},
           Caused(r.got)
    PROVE  CacheInv'
<1>1. call \in [Callers -> Calls]
  BY DEF CacheInv, CacheTypeOK, Calls
<1>2. call'[c] = r /\ \A d \in Callers \ {c} : call'[d] = call[d]
  BY <1>1
<1>3. call' \in [Callers -> Calls]
  BY <1>1
<1>4. LetsGo(c) /\ Caused(call'[c].got)
  BY <1>2, <1>3 DEF LetsGo
<1> QED
  BY <1>4, LetsGoKeeps

LEMMA Ending ==
    ASSUME NEW got \in Results
    PROVE  /\ [NoCall EXCEPT !.at = "ended", !.got = got] \in Calls
           /\ [NoCall EXCEPT !.at = "ended", !.got = got].file = NoFile
           /\ [NoCall EXCEPT !.at = "ended", !.got = got].at = "ended"
           /\ [NoCall EXCEPT !.at = "ended", !.got = got].got = got
BY DEF NoCall, Calls, CallPlaces

LEMMA Going ==
    ASSUME NEW r \in Calls, NEW pt \in CallPlaces
    PROVE  /\ [r EXCEPT !.at = pt] \in Calls /\ [r EXCEPT !.at = pt].file = r.file
           /\ [r EXCEPT !.at = pt].at = pt /\ [r EXCEPT !.at = pt].got = r.got
           /\ [r EXCEPT !.at = pt].wrote = r.wrote
           /\ [r EXCEPT !.at = pt].response = r.response
BY DEF Calls

LEMMA CallTypes ==
    ASSUME CacheInv
    PROVE  /\ call \in [Callers -> Calls] /\ source \in Sources /\ CacheTypeOK
           /\ \A c \in Callers : call[c].at \notin {"write", "rename"} => call[c].file = NoFile
           /\ \A c \in Callers : Caused(call[c].got)
           /\ stopped \subseteq Inodes
BY DEF CacheInv, CacheTypeOK, Calls, FileInv, OpenWhileWriting, ShortHasCause, UnreadableHasCause,
       Caused

(* A call that was not writing leaves nothing unfinished.                     *)
LEMMA NothingForsaken ==
    ASSUME CacheInv, NEW c \in Callers, call[c].at # "write" \/ T.temp # "shared",
           UNCHANGED stopped
    PROVE  Forsakes(c)
BY CallTypes DEF Forsakes

LEMMA AbandonedKnown ==
    ASSUME CacheInv, NEW c \in Callers, Abandons(c)
    PROVE  Forsakes(c)
<1>1. stopped \subseteq Inodes /\ call[c].file \in Inodes \cup {NoFile}
  BY CallTypes DEF Calls
<1>2. call[c].at = "write" => call[c].file # NoFile
  BY DEF CacheInv, FileInv, OpenWhileWriting
<1> QED
  BY <1>1, <1>2 DEF Abandons, Forsakes

(* The call goes on without a file, ... *)
LEMMA GoesQuietly ==
    ASSUME CacheInv, NEW c \in Callers, NEW pt \in CallPlaces \ {"write", "rename"},
           call[c].at \notin {"write", "rename"}, Goes(c, pt),
           UNCHANGED <<source, data, csv, own, ghosts>>,
           cache' \in {cache, NoFile}, part' \in {part, NoFile}
    PROVE  CacheInv'
<1> DEFINE r == [call[c] EXCEPT !.at = pt]
<1>1. call' = [call EXCEPT ![c] = r]
  BY DEF Goes, Moves
<1>2. call[c] \in Calls /\ call[c].file = NoFile /\ Caused(call[c].got)
  BY CallTypes
<1>3. r \in Calls /\ r.file = call[c].file /\ r.at = pt /\ r.got = call[c].got
  BY <1>2, Going
<1>4. Forsakes(c) /\ UNCHANGED raced
  BY NothingForsaken DEF ghosts
<1> HIDE DEF r
<1> QED
  BY <1>1, <1>2, <1>3, <1>4, Quiet

(* ... or it ends, and its caller is given something. *)
LEMMA GivesJustly ==
    ASSUME CacheInv, NEW c \in Callers, NEW got \in Results, Gives(c, got),
           UNCHANGED <<source, data, csv, own, raced>>, Forsakes(c),
           cache' \in {cache, NoFile}, part' \in {part, NoFile}, Caused(got)
    PROVE  CacheInv'
<1> DEFINE r == [NoCall EXCEPT !.at = "ended", !.got = got]
<1>1. call' = [call EXCEPT ![c] = r]
  BY DEF Gives, Moves
<1>2. r \in Calls /\ r.file = NoFile /\ r.at = "ended" /\ r.got = got
  BY Ending
<1> HIDE DEF r
<1> QED
  BY <1>1, <1>2, Quiet

LEMMA ReadKeeps == ASSUME CacheInv, NEW c \in Callers, Read(c) PROVE CacheInv'
<1>1. call[c].at = "read" /\ UNCHANGED <<source, data, cache, csv, part, own, ghosts>>
  BY DEF Read, names
<1>2. ASSUME Goes(c, "clear") \/ Goes(c, "remove") PROVE CacheInv'
  BY <1>1, <1>2, GoesQuietly DEF CallPlaces
<1>3. ASSUME NEW got \in Results, Gives(c, got), Caused(got) PROVE CacheInv'
  <2>1. Forsakes(c) /\ UNCHANGED raced
    BY <1>1, NothingForsaken DEF ghosts
  <2> QED
    BY <1>1, <1>3, <2>1, GivesJustly
<1>4. source \in Sources
  BY CallTypes
<1>5. \A got \in {"whole", "refused", "short", "gone"} : got \in Results /\ Caused(got)
  BY DEF Results, Caused
<1>6. CASE source = "tables"
  <2>1. CacheLoad(c)
    BY <1>4, <1>6, TraitFacts DEF Read
  <2>2. CASE Gives(c, "whole")
    BY <1>3, <1>5, <2>2
  <2>3. ASSUME NEW got \in {"torn", "unreadable"}, csv # NoFile, Gives(c, got) PROVE CacheInv'
    <3>1. got \in Results /\ Caused(got)
      BY <1>6, <2>3 DEF Results, Caused
    <3> QED
      BY <1>3, <2>3, <3>1
  <2> QED
    BY <1>2, <2>1, <2>2, <2>3 DEF CacheLoad, Fallback
<1>7. CASE source # "tables"
  <2>1. ReadCache(c)
    BY <1>4, <1>7, TraitFacts DEF Read
  <2>2. ASSUME cache # NoFile, Torn(cache) PROVE T.torn \in Results /\ Caused(T.torn)
    <3>1. T.temp # "own" /\ (T.temp = "shared" => raced)
      BY <2>2 DEF CacheInv, FileInv, CacheWhole, Unshared
    <3>2. T.torn = "unreadable"
      BY <1>4, <3>1, TraitFacts
    <3>3. source \in {"schedule", "bhcf"} \/ (T.temp = "shared" /\ raced)
      BY <1>4, <1>7, <3>1, TraitFacts
    <3> QED
      BY <3>2, <3>3 DEF Results, Caused
  <2>3. T.early \in Results /\ Caused(T.early)
    BY <1>4, <1>5, TraitFacts
  <2>4. CASE cache = NoFile
    BY <1>3, <1>5, <2>1, <2>4 DEF ReadCache
  <2>5. CASE cache # NoFile /\ Useless(cache)
    BY <1>2, <2>1, <2>5 DEF ReadCache
  <2>6. CASE cache # NoFile /\ ~Useless(cache)
    <3>1. Gives(c, IF Torn(cache) THEN T.torn ELSE IF EndedEarly(cache) THEN T.early ELSE "whole")
      BY <2>1, <2>6 DEF ReadCache
    <3>2. CASE Torn(cache)
      BY <1>3, <2>2, <2>6, <3>1, <3>2
    <3>3. CASE ~Torn(cache) /\ EndedEarly(cache)
      BY <1>3, <2>3, <3>1, <3>3
    <3>4. CASE ~Torn(cache) /\ ~EndedEarly(cache)
      BY <1>3, <1>5, <3>1, <3>4
    <3> QED
      BY <3>2, <3>3, <3>4
  <2> QED
    BY <2>4, <2>5, <2>6
<1> QED
  BY <1>6, <1>7

(* Everything else that opens and renames nothing. *)
LEMMA FilelessKeeps ==
    ASSUME CacheInv, NEW c \in Callers,
           Enter(c) \/ RemoveUseless(c) \/ Clear(c) \/ NoAnswer(c) \/ EndsUnnoticed(c)
           \/ ServesPage(c) \/ TransferStalls(c) \/ Return(c) \/ Kill(c)
    PROVE  CacheInv'
<1> USE DEF names
<1>t. source \in Sources /\ call \in [Callers -> Calls]
  BY CallTypes
<1>g. \A got \in {"gone", "no answer"} : got \in Results /\ Caused(got)
  BY DEF Results, Caused
<1>1. CASE Enter(c)
  <2>1. call[c].at = "idle" /\ UNCHANGED <<source, data, cache, csv, part, own, ghosts>>
        /\ (Goes(c, "clear") \/ Goes(c, "read"))
    BY <1>1 DEF Enter
  <2> QED
    BY <2>1, GoesQuietly DEF CallPlaces
<1>2. CASE RemoveUseless(c)
  <2>1. call[c].at = "remove" /\ cache' = NoFile
        /\ UNCHANGED <<source, data, csv, part, own, ghosts>>
        /\ (Goes(c, "clear") \/ Gives(c, "gone") \/ Gives(c, "no answer"))
    BY <1>2 DEF RemoveUseless
  <2>2. CASE Goes(c, "clear")
    BY <2>1, <2>2, GoesQuietly DEF CallPlaces
  <2>3. ASSUME NEW got \in {"gone", "no answer"}, Gives(c, got) PROVE CacheInv'
    <3>1. Forsakes(c) /\ UNCHANGED raced
      BY <2>1, NothingForsaken DEF ghosts
    <3> QED
      BY <1>g, <2>1, <2>3, <3>1, GivesJustly
  <2> QED
    BY <2>1, <2>2, <2>3
<1>3. CASE Clear(c)
  <2>1. call[c].at = "clear" /\ Goes(c, "fetch") /\ part' \in {part, NoFile}
        /\ UNCHANGED <<source, data, cache, csv, own, ghosts>>
    BY <1>3 DEF Clear
  <2> QED
    BY <2>1, GoesQuietly DEF CallPlaces
<1>4. CASE NoAnswer(c)
  <2>1. Gives(c, "no answer") /\ part' \in {part, NoFile} /\ call[c].at = "fetch"
        /\ UNCHANGED <<source, data, cache, csv, own, raced, stopped>>
    BY <1>4 DEF NoAnswer, ghosts
  <2>2. Forsakes(c)
    BY <2>1, NothingForsaken
  <2> QED
    BY <1>g, <2>1, <2>2, GivesJustly
<1>5. CASE EndsUnnoticed(c) \/ ServesPage(c)
  <2>1. PICK x \in {"cut", "page"} : call' = [call EXCEPT ![c] = [call[c] EXCEPT !.response = x]]
    BY <1>5 DEF EndsUnnoticed, ServesPage, Moves
  <2>2. call[c].at = "fetch" /\ UNCHANGED <<source, data, cache, csv, part, own, raced, stopped>>
    BY <1>5 DEF EndsUnnoticed, ServesPage, ghosts
  <2> DEFINE r == [call[c] EXCEPT !.response = x]
  <2>3. call[c] \in Calls /\ call[c].file = NoFile /\ Caused(call[c].got) /\ Forsakes(c)
    BY <2>2, CallTypes, NothingForsaken
  <2>4. r \in Calls /\ r.file = NoFile /\ r.at = "fetch" /\ r.got = call[c].got
    BY <2>2, <2>3 DEF Calls
  <2> HIDE DEF r
  <2> QED
    BY <2>1, <2>2, <2>3, <2>4, Quiet DEF r
<1>6. CASE TransferStalls(c)
  <2>1. Gives(c, "no answer") /\ UNCHANGED <<source, data, cache, csv, part, own, raced>>
        /\ Abandons(c)
    BY <1>6 DEF TransferStalls
  <2>2. Forsakes(c)
    BY <2>1, AbandonedKnown
  <2> QED
    BY <1>g, <2>1, <2>2, GivesJustly
<1>7. NoCall \in Calls /\ NoCall.at = "idle" /\ NoCall.file = NoFile /\ Caused(NoCall.got)
  BY DEF NoCall, Calls, CallPlaces, Results, Caused
<1>8. CASE Return(c)
  <2>1. call' = [call EXCEPT ![c] = NoCall] /\ call[c].at = "ended"
        /\ UNCHANGED <<source, data, cache, csv, part, own, raced, stopped>>
    BY <1>8 DEF Return, Moves, ghosts
  <2>2. Forsakes(c)
    BY <2>1, NothingForsaken
  <2> QED
    BY <1>7, <2>1, <2>2, Quiet
<1>9. CASE Kill(c)
  <2>1. call' = [call EXCEPT ![c] = NoCall] /\ own' = [own EXCEPT ![c] = NoFile]
        /\ UNCHANGED <<source, data, cache, csv, part, raced>> /\ Abandons(c)
    BY <1>9 DEF Kill, Moves
  <2>2. Forsakes(c)
    BY <2>1, AbandonedKnown
  <2> QED
    BY <1>7, <2>1, <2>2, Quiet
<1> QED
  BY <1>1, <1>2, <1>3, <1>4, <1>5, <1>6, <1>8, <1>9

-----------------------------------------------------------------------------
(* A file is opened, which empties it: with one's own name, or without        *)
(* anybody else, it is not the one that stands at the cache's name.           *)
OpensFile(c, i) ==
    /\ i \in Inodes
    /\ data' = [data EXCEPT ![i] = Unwritten]
    /\ call' = [call EXCEPT ![c] = [call[c] EXCEPT !.at = "write", !.file = i, !.wrote = 0]]
    /\ raced' = (raced \/ \E d \in Callers \ {c} : call[d].file # NoFile)
    /\ stopped' = stopped \ {i}

LEMMA OpensEffect ==
    ASSUME CacheInv, NEW c \in Callers, NEW name \in Named, name \in Inodes \cup {NoFile},
           Opens(c, name, "write")
    PROVE  \E i \in Inodes :
              /\ OpensFile(c, i) /\ call'[c].file = i
              /\ i = name \/ (name = NoFile /\ i \notin Open \cup Named)
<1> DEFINE i == IF name = NoFile THEN Fresh ELSE name
<1>1. i \in Inodes /\ (i = name \/ (name = NoFile /\ i \notin Open \cup Named))
  <2>1. CASE name = NoFile
    BY <2>1, CallTypes, FreshExists
  <2>2. CASE name # NoFile
    BY <2>2
  <2> QED
    BY <2>1, <2>2
<1>2. /\ data' = [data EXCEPT ![i] = Unwritten]
      /\ call' = [call EXCEPT ![c] = [call[c] EXCEPT !.at = "write", !.file = i, !.wrote = 0]]
      /\ raced' = (raced \/ \E d \in Callers \ {c} : call[d].file # NoFile)
      /\ stopped' = stopped \ {i}
  BY DEF Opens, Moves
<1> HIDE DEF i
<1>3. call'[c].file = i
  BY <1>2, CallTypes DEF Calls
<1> QED
  BY <1>1, <1>2, <1>3 DEF OpensFile

LEMMA OpenedKeeps ==
    ASSUME CacheInv, NEW c \in Callers, NEW i \in Inodes, OpensFile(c, i),
           source' = source, csv' \in {csv, i}, cache' \in {cache, i},
           part' \in {part, i},
           own' \in [Callers -> Inodes \cup {NoFile}],
           \A d \in Callers : own'[d] # NoFile => T.temp = "own",
           \* a shared name
           T.temp = "shared" => cache' = cache /\ part' = i /\ i # cache /\ call[c].at # "write",
           \* a name of one's own
           T.temp = "own" =>
               /\ cache' = cache /\ i # cache /\ own' = [own EXCEPT ![c] = i]
               /\ \A d \in Callers \ {c} : own[d] # i
    PROVE  CacheInv'
<1>1. /\ call \in [Callers -> Calls] /\ source \in Sources /\ CacheTypeOK /\ NoFile \notin Inodes
      /\ stopped \subseteq Inodes
  BY CallTypes, InodeIsNoName
<1>2. T' = T
  BY DEF T
<1>3. i # NoFile
  <2>1. Cardinality(Callers) \in Nat
    BY CacheAssumption, FS_CardinalityType
  <2> QED
    BY <2>1 DEF Inodes, NoFile
<1>4. /\ call'[c].at = "write" /\ call'[c].file = i /\ call'[c].wrote = 0
      /\ call'[c].got = call[c].got /\ call'[c] \in Calls
      /\ \A d \in Callers \ {c} : call'[d] = call[d]
      /\ call' \in [Callers -> Calls]
  <2> DEFINE r == [call[c] EXCEPT !.at = "write", !.file = i, !.wrote = 0]
  <2>1. call' = [call EXCEPT ![c] = r]
    BY DEF OpensFile
  <2>2. call[c] \in Calls
    BY <1>1
  <2>3. r \in Calls /\ r.at = "write" /\ r.file = i /\ r.wrote = 0 /\ r.got = call[c].got
    BY <2>2 DEF Calls, CallPlaces
  <2> HIDE DEF r
  <2> QED
    BY <1>1, <2>1, <2>3
<1>5. /\ data' \in [Inodes -> [Chunks -> Kinds]]
      /\ \A j \in Inodes : j # i => data'[j] = data[j]
  <2>1. Unwritten \in [Chunks -> Kinds]
    BY DEF Unwritten, Kinds
  <2> QED
    BY <1>1, <2>1 DEF OpensFile, CacheTypeOK
<1>6. /\ raced' \in BOOLEAN /\ (raced => raced')
      /\ ~raced' => \A d \in Callers \ {c} : call[d].file = NoFile
  BY <1>1 DEF OpensFile, CacheTypeOK
<1>7. CacheTypeOK'
  <2>1. {cache', csv', part'} \subseteq Inodes \cup {NoFile}
    BY <1>1 DEF CacheTypeOK
  <2>2. raced' \in BOOLEAN /\ stopped' \subseteq Inodes
    BY <1>1, <1>6 DEF OpensFile
  <2> QED
    BY <1>1, <1>2, <1>4, <1>5, <2>1, <2>2 DEF CacheTypeOK, Calls
<1>8. OpenWhileWriting'
  BY <1>2, <1>3, <1>4 DEF CacheInv, FileInv, OpenWhileWriting
<1>9. PartIsMine'
  BY <1>2, <1>4, <1>6 DEF PartIsMine, Unshared
<1>10. OwnIsMine'
  <2> SUFFICES ASSUME T.temp = "own"
               PROVE  \A d \in Callers :
                        /\ call'[d].file # NoFile => call'[d].file = own'[d]
                        /\ own'[d] # NoFile =>
                              own'[d] # cache' /\ \A e \in Callers \ {d} : own'[e] # own'[d]
    BY <1>2 DEF OwnIsMine
  <2>1. cache' = cache /\ i # cache /\ own'[c] = i /\ \A d \in Callers \ {c} : own'[d] = own[d] /\ own[d] # i
    BY <1>1 DEF CacheTypeOK
  <2> QED
    BY <1>3, <1>4, <2>1 DEF CacheInv, FileInv, OwnIsMine
<1>11. Filled'
  <2> SUFFICES ASSUME (T.temp = "shared" /\ ~raced') \/ T.temp = "own",
                      NEW d \in Callers, call'[d].file # NoFile
               PROVE  /\ \A k \in Chunks : k <= call'[d].wrote => data'[call'[d].file][k] # "nothing"
                      /\ call'[d].at = "rename" => ~Torn(call[d].file)'
    BY <1>2, <1>4 DEF Filled, Unshared, Torn
  <2>1. CASE d = c
    BY <1>4, <2>1 DEF Chunks
  <2>2. CASE d # c
    <3>1. call'[d] = call[d] /\ call[d].file # NoFile
      BY <1>4, <2>2
    <3>2. T.temp = "own"
      BY <1>6, <2>2, <3>1
    <3>3. call[d].file = own[d] /\ call[d].file # i /\ call[d].file \in Inodes
      BY <1>1, <2>2, <3>1, <3>2 DEF CacheInv, FileInv, OwnIsMine, Calls
    <3>4. /\ \A k \in Chunks : k <= call[d].wrote => data[call[d].file][k] # "nothing"
          /\ call[d].at = "rename" => ~Torn(call[d].file)
      BY <3>1, <3>2 DEF CacheInv, FileInv, Filled
    <3>5. data'[call[d].file] = data[call[d].file]
      BY <1>5, <3>3
    <3>6. Torn(call[d].file)' <=> Torn(call[d].file)
      BY <3>1, <3>5 DEF Torn
    <3> QED
      BY <3>1, <3>4, <3>5, <3>6
  <2> QED
    BY <2>1, <2>2
<1>12. CacheWhole'
  <2> SUFFICES ASSUME (T.temp = "shared" /\ ~raced') \/ T.temp = "own", cache' # NoFile
               PROVE  ~Torn(cache)'
    BY <1>2 DEF CacheWhole, Unshared
  <2>1. cache' = cache /\ i # cache /\ cache \in Inodes
    BY <1>1 DEF CacheTypeOK
  <2>2. Torn(cache)' <=> Torn(cache)
    BY <1>5, <2>1 DEF Torn
  <2> QED
    BY <1>6, <2>1, <2>2 DEF CacheInv, FileInv, CacheWhole, Unshared
<1>13. Explained'
  <2> SUFFICES ASSUME T.temp = "shared", NEW j \in {cache', part'} \ {NoFile}, NEW k \in Chunks,
                      data'[j][k] = "nothing"
               PROVE  Missing(j, k)'
    BY <1>2 DEF Explained
  <2>1. CASE j = i
    <3>1. call'[c].wrote < k
      BY <1>4 DEF Chunks
    <3> QED
      BY <1>4, <2>1, <3>1 DEF Missing
  <2>2. CASE j # i
    <3>1. j = cache /\ cache \in Inodes
      BY <1>1, <2>2 DEF CacheTypeOK
    <3>2. Missing(j, k)
      BY <1>5, <2>2, <3>1 DEF CacheInv, FileInv, Explained
    <3>3. call[c].at # "write" /\ (j \in stopped => j \in stopped')
      BY <2>2 DEF OpensFile
    <3> QED
      BY <1>4, <3>2, <3>3 DEF Missing
  <2> QED
    BY <2>1, <2>2
<1>14. ShortHasCause' /\ UnreadableHasCause'
  BY <1>2, <1>3, <1>4, <1>6 DEF CacheInv, ShortHasCause, UnreadableHasCause
<1> QED
  BY <1>7, <1>8, <1>9, <1>10, <1>11, <1>12, <1>13, <1>14 DEF CacheInv, FileInv

LEMMA OpeningKeeps ==
    ASSUME CacheInv, NEW c \in Callers,
           OpenPart(c) \/ OpenOwnPart(c) \/ OpenTable(c) \/ OpenCsv(c)
    PROVE  CacheInv'
<1>1. /\ call \in [Callers -> Calls] /\ source \in Sources /\ CacheTypeOK
  BY CallTypes
<1>2. {cache, csv, part} \subseteq (Inodes \cup {NoFile}) \cap Named
      /\ own[c] \in (Inodes \cup {NoFile}) \cap Named
      /\ own \in [Callers -> Inodes \cup {NoFile}]
      /\ \A d \in Callers : own[d] # NoFile => T.temp = "own"
  BY <1>1 DEF CacheTypeOK, Named
<1>3. CASE OpenPart(c)
  <2>1. T.temp = "shared" /\ Opens(c, part, "write") /\ part' = call'[c].file
        /\ UNCHANGED <<source, cache, csv, own>> /\ call[c].at = "fetch"
    BY <1>3 DEF OpenPart
  <2>2. PICK i \in Inodes : OpensFile(c, i) /\ call'[c].file = i
              /\ (i = part \/ (part = NoFile /\ i \notin Open \cup Named))
    BY <1>2, <2>1, OpensEffect
  <2>3. i # cache
    <3>1. CASE i = part
      <4>1. part # NoFile
        BY <2>2, <3>1, InodeIsNoName
      <4> QED
        BY <2>1, <3>1, <4>1 DEF CacheInv, FileInv, PartIsMine
    <3>2. CASE i \notin Open \cup Named
      BY <3>2 DEF Named
    <3> QED
      BY <2>2, <3>1, <3>2
  <2> QED
    BY <1>2, <2>1, <2>2, <2>3, OpenedKeeps
<1>4. CASE OpenOwnPart(c)
  <2>1. T.temp = "own" /\ Opens(c, own[c], "write") /\ own' = [own EXCEPT ![c] = call'[c].file]
        /\ UNCHANGED <<source, cache, csv, part>>
    BY <1>4 DEF OpenOwnPart
  <2>2. PICK i \in Inodes : OpensFile(c, i) /\ call'[c].file = i
              /\ (i = own[c] \/ (own[c] = NoFile /\ i \notin Open \cup Named))
    BY <1>2, <2>1, OpensEffect
  <2>3. i # cache /\ \A d \in Callers \ {c} : own[d] # i
    <3>1. CASE i = own[c]
      <4>1. own[c] # NoFile
        BY <2>2, <3>1, InodeIsNoName
      <4> QED
        BY <2>1, <3>1, <4>1 DEF CacheInv, FileInv, OwnIsMine
    <3>2. CASE i \notin Open \cup Named
      BY <3>2 DEF Named
    <3> QED
      BY <2>2, <3>1, <3>2
  <2>4. own' \in [Callers -> Inodes \cup {NoFile}]
    BY <1>2, <2>1, <2>2
  <2> QED
    BY <2>1, <2>2, <2>3, <2>4, OpenedKeeps
<1>5. CASE OpenTable(c)
  <2>1. T.temp = "none" /\ Opens(c, cache, "write") /\ cache' = call'[c].file
        /\ UNCHANGED <<source, csv, part, own>>
    BY <1>5 DEF OpenTable
  <2>2. PICK i \in Inodes : OpensFile(c, i) /\ call'[c].file = i
    BY <1>2, <2>1, OpensEffect
  <2> QED
    BY <1>2, <2>1, <2>2, OpenedKeeps
<1>6. CASE OpenCsv(c)
  <2>1. T.heals = "unreadable" /\ Opens(c, csv, "write") /\ csv' = call'[c].file
        /\ UNCHANGED <<source, cache, part, own>>
    BY <1>6 DEF OpenCsv
  <2>2. T.temp = "none"
    BY <1>1, <2>1, TraitFacts
  <2>3. PICK i \in Inodes : OpensFile(c, i) /\ call'[c].file = i
    BY <1>2, <2>1, OpensEffect
  <2> QED
    BY <1>2, <2>1, <2>2, <2>3, OpenedKeeps
<1> QED
  BY <1>3, <1>4, <1>5, <1>6

-----------------------------------------------------------------------------
(* The file is written and closed. *)
LEMMA WriteKeeps == ASSUME CacheInv, NEW c \in Callers, Write(c) PROVE CacheInv'
<1> DEFINE f == call[c].file
           k == call[c].wrote + 1
           x == IF call[c].response = "whole" THEN "item" ELSE call[c].response
<1>1. /\ call \in [Callers -> Calls] /\ source \in Sources /\ CacheTypeOK
      /\ call[c].response \in {"whole", "cut", "page"} /\ x \in Kinds \ {"nothing"}
  <2>1. call \in [Callers -> Calls] /\ source \in Sources /\ CacheTypeOK
    BY CallTypes
  <2>2. call[c].response \in {"whole", "cut", "page"}
    BY <2>1 DEF Calls
  <2> QED
    BY <2>1, <2>2 DEF Kinds
<1> HIDE DEF x
<1>2. /\ call[c].at = "write" /\ k \in Chunks
      /\ data' = [data EXCEPT ![f] = [data[f] EXCEPT ![k] = x]]
      /\ call' = [call EXCEPT ![c] = [call[c] EXCEPT !.wrote = call[c].wrote + 1]]
      /\ UNCHANGED <<source, cache, csv, part, own, raced, stopped>>
  BY DEF Write, Moves, names, ghosts, x
<1>3. f \in Inodes /\ f # NoFile /\ T' = T /\ call[c].wrote \in 0..1
  <2>1. f # NoFile
    BY <1>2 DEF CacheInv, FileInv, OpenWhileWriting
  <2>2. f \in Inodes \cup {NoFile} /\ call[c].wrote \in Chunks \cup {0}
    BY <1>1 DEF Calls
  <2> QED
    BY <1>2, <2>1, <2>2 DEF T, Chunks
<1>4. /\ call'[c].at = "write" /\ call'[c].file = f /\ call'[c].wrote = k
      /\ call'[c].got = call[c].got /\ call'[c] \in Calls
      /\ \A d \in Callers \ {c} : call'[d] = call[d]
      /\ call' \in [Callers -> Calls]
  BY <1>1, <1>2 DEF Calls
<1>5. /\ data' \in [Inodes -> [Chunks -> Kinds]]
      /\ data'[f][k] = x /\ \A j \in Chunks : j # k => data'[f][j] = data[f][j]
      /\ \A i \in Inodes : i # f => data'[i] = data[i]
  BY <1>1, <1>2, <1>3 DEF CacheTypeOK
<1>6. CacheTypeOK'
  BY <1>1, <1>2, <1>3, <1>4, <1>5 DEF CacheTypeOK, Calls
<1>7. OpenWhileWriting' /\ PartIsMine' /\ OwnIsMine'
  BY <1>2, <1>3, <1>4 DEF CacheInv, FileInv, OpenWhileWriting, PartIsMine, OwnIsMine, Unshared
<1>8. ASSUME NEW i \in Inodes, NEW j \in Chunks, data'[i][j] = "nothing"
      PROVE  data[i][j] = "nothing" /\ (i = f => j # k)
  BY <1>1, <1>3, <1>5, <1>8
<1>n. \A i \in Inodes : Torn(i)' => Torn(i)
  BY <1>8 DEF Torn
<1>9. Filled'
  <2> SUFFICES ASSUME Unshared \/ T.temp = "own",
                      NEW d \in Callers, call'[d].file # NoFile
               PROVE  /\ \A j \in Chunks : j <= call'[d].wrote => data'[call'[d].file][j] # "nothing"
                      /\ call'[d].at = "rename" => ~Torn(call[d].file)'
    BY <1>2, <1>3 DEF Filled, Unshared, Torn
  <2>1. call[d].file # NoFile /\ call[d].file \in Inodes /\ call'[d].file = call[d].file
    <3>1. call[d].file # NoFile /\ call'[d].file = call[d].file
      BY <1>3, <1>4
    <3> QED
      BY <1>1, <3>1 DEF Calls
  <2>2. /\ \A j \in Chunks : j <= call[d].wrote => data[call[d].file][j] # "nothing"
        /\ call[d].at = "rename" => ~Torn(call[d].file)
    BY <2>1 DEF CacheInv, FileInv, Filled
  <2>3. CASE d = c
    <3>1. ASSUME NEW j \in Chunks, j <= k PROVE data'[f][j] # "nothing"
      <4>1. j = k \/ j <= call[c].wrote
        BY <1>3, <3>1 DEF Chunks
      <4> QED
        BY <1>3, <1>8, <2>2, <2>3, <4>1
    <3> QED
      BY <1>4, <2>3, <3>1
  <2>4. CASE d # c
    <3>1. call'[d] = call[d]
      BY <1>4, <2>4
    <3>2. \A j \in Chunks : j <= call'[d].wrote => data'[call'[d].file][j] # "nothing"
      BY <1>8, <2>1, <2>2, <3>1
    <3>3. call'[d].at = "rename" => ~Torn(call[d].file)'
      BY <1>n, <2>1, <2>2, <3>1
    <3> QED
      BY <2>1, <3>2, <3>3 DEF Torn
  <2> QED
    BY <2>3, <2>4
<1>10. CacheWhole'
  <2>1. cache \in Inodes \cup {NoFile}
    BY <1>1 DEF CacheTypeOK
  <2>2. cache # NoFile => (Torn(cache)' => Torn(cache))
    BY <1>2, <1>n, <2>1 DEF Torn
  <2> QED
    BY <1>2, <1>3, <2>2 DEF CacheInv, FileInv, CacheWhole, Unshared, Torn
<1>11. Explained'
  <2> SUFFICES ASSUME T.temp = "shared", NEW i \in {cache, part} \ {NoFile}, NEW j \in Chunks,
                      data'[i][j] = "nothing"
               PROVE  Missing(i, j)'
    BY <1>2, <1>3 DEF Explained
  <2>1. i \in Inodes
    BY <1>1 DEF CacheTypeOK
  <2>2. data[i][j] = "nothing" /\ (i = f => j # k)
    BY <1>8, <2>1
  <2>3. Missing(i, j)
    BY <2>2 DEF CacheInv, FileInv, Explained
  <2>4. CASE i \in stopped
    BY <1>2, <2>4 DEF Missing
  <2>5. ASSUME NEW d \in Callers, call[d].at = "write", call[d].file = i, call[d].wrote < j
        PROVE  Missing(i, j)'
    <3>1. CASE d = c
      <4>1. k < j
        BY <1>3, <2>2, <2>5, <3>1 DEF Chunks
      <4> QED
        BY <1>4, <2>5, <3>1, <4>1 DEF Missing
    <3>2. CASE d # c
      BY <1>4, <2>5, <3>2 DEF Missing
    <3> QED
      BY <3>1, <3>2
  <2> QED
    BY <2>3, <2>4, <2>5 DEF Missing
<1>12. ShortHasCause' /\ UnreadableHasCause'
  BY <1>2, <1>3, <1>4 DEF CacheInv, ShortHasCause, UnreadableHasCause
<1> QED
  BY <1>6, <1>7, <1>9, <1>10, <1>11, <1>12 DEF CacheInv, FileInv

(* It is complete, or what is missing is taken for the end.                   *)
LEMMA ClosedKeeps ==
    ASSUME CacheInv, NEW c \in Callers, call[c].at = "write", Goes(c, "rename"),
           UNCHANGED <<source, cache, csv, part, own, raced, stopped>>, T.temp # "none",
           data' \in [Inodes -> [Chunks -> Kinds]],
           \A i \in Inodes, k \in Chunks : data'[i][k] = "nothing" => data[i][k] = "nothing",
           \A k \in Chunks : k > call[c].wrote => data'[call[c].file][k] # "nothing"
    PROVE  CacheInv'
<1>1. /\ call \in [Callers -> Calls] /\ source \in Sources /\ CacheTypeOK /\ T' = T
  BY CallTypes DEF T
<1>2. /\ call'[c].at = "rename" /\ call'[c].file = call[c].file /\ call'[c].wrote = call[c].wrote
      /\ call'[c].got = call[c].got
      /\ \A d \in Callers \ {c} : call'[d] = call[d]
      /\ call' \in [Callers -> Calls]
  <2>1. call[c] \in Calls /\ "rename" \in CallPlaces
    BY <1>1 DEF CallPlaces
  <2> QED
    BY <1>1, <2>1, Going DEF Goes, Moves
<1>3. CacheTypeOK'
  BY <1>1, <1>2 DEF CacheTypeOK, Calls
<1>4. OpenWhileWriting' /\ PartIsMine' /\ OwnIsMine'
  BY <1>1, <1>2 DEF CacheInv, FileInv, OpenWhileWriting, PartIsMine, OwnIsMine, Unshared
<1>n. \A i \in Inodes : Torn(i)' => Torn(i)
  BY DEF Torn
<1>5. Filled'
  <2> SUFFICES ASSUME Unshared \/ T.temp = "own",
                      NEW d \in Callers, call'[d].file # NoFile
               PROVE  /\ \A j \in Chunks : j <= call'[d].wrote => data'[call'[d].file][j] # "nothing"
                      /\ call'[d].at = "rename" => ~Torn(call[d].file)'
    BY <1>1 DEF Filled, Unshared, Torn
  <2>1. call[d].file # NoFile /\ call'[d].file = call[d].file /\ call'[d].wrote = call[d].wrote
        /\ call[d].wrote \in Chunks \cup {0}
    BY <1>1, <1>2 DEF Calls
  <2>2. call[d].file \in Inodes
    BY <1>1, <2>1 DEF Calls
  <2>3. /\ \A j \in Chunks : j <= call[d].wrote => data[call[d].file][j] # "nothing"
        /\ call[d].at = "rename" => ~Torn(call[d].file)
    BY <2>1 DEF CacheInv, FileInv, Filled
  <2>4. \A j \in Chunks : j <= call[d].wrote => data'[call[d].file][j] # "nothing"
    BY <2>2, <2>3
  <2>5. CASE d = c
    <3>1. \A j \in Chunks : data'[call[d].file][j] # "nothing"
      BY <2>1, <2>4, <2>5 DEF Chunks
    <3> QED
      BY <2>1, <3>1 DEF Torn
  <2>6. CASE d # c
    <3>1. call'[d].at = "rename" => ~Torn(call[d].file)'
      BY <1>2, <1>n, <2>2, <2>3, <2>6
    <3> QED
      BY <2>1, <2>4, <3>1 DEF Torn
  <2> QED
    BY <2>5, <2>6
<1>6. CacheWhole'
  <2>1. cache \in Inodes \cup {NoFile}
    BY <1>1 DEF CacheTypeOK
  <2>2. cache # NoFile => (Torn(cache)' => Torn(cache))
    BY <1>n, <2>1
  <2> QED
    BY <1>1, <2>2 DEF CacheInv, FileInv, CacheWhole, Unshared, Torn
<1>7. Explained'
  <2> SUFFICES ASSUME T.temp = "shared", NEW i \in {cache, part} \ {NoFile}, NEW j \in Chunks,
                      data'[i][j] = "nothing"
               PROVE  Missing(i, j)'
    BY <1>1 DEF Explained
  <2>1. i \in Inodes
    BY <1>1 DEF CacheTypeOK
  <2>2. Missing(i, j)
    BY <2>1 DEF CacheInv, FileInv, Explained
  <2>3. ASSUME NEW d \in Callers, call[d].at = "write", call[d].file = i, call[d].wrote < j
        PROVE  Missing(i, j)'
    <3>1. d # c
      BY <1>1, <2>3 DEF Calls, Chunks
    <3> QED
      BY <1>2, <2>3, <3>1 DEF Missing
  <2> QED
    BY <2>2, <2>3 DEF Missing
<1>8. ShortHasCause' /\ UnreadableHasCause'
  BY <1>1, <1>2 DEF CacheInv, ShortHasCause, UnreadableHasCause
<1> QED
  BY <1>3, <1>4, <1>5, <1>6, <1>7, <1>8 DEF CacheInv, FileInv

LEMMA FetchedIsGiven ==
    ASSUME CacheInv, NEW c \in Callers, GivesFetched(c)
    PROVE  \E got \in {"whole", "refused", "short"} : Gives(c, got)
BY CallTypes, TraitFacts DEF GivesFetched

LEMMA ClosingKeeps == ASSUME CacheInv, NEW c \in Callers, EndsEarly(c) \/ Close(c) PROVE CacheInv'
<1>1. /\ call \in [Callers -> Calls] /\ source \in Sources /\ CacheTypeOK
      /\ call[c].wrote \in Chunks \cup {0}
  <2>1. call \in [Callers -> Calls] /\ source \in Sources /\ CacheTypeOK
    BY CallTypes
  <2> QED
    BY <2>1 DEF Calls
<1>2. CASE EndsEarly(c)
  <2>1. call[c].at = "write" /\ T.streams /\ UNCHANGED <<source, cache, csv, own, raced>>
    BY <1>2 DEF EndsEarly
  <2>2. CASE Gives(c, "no answer") /\ part' = NoFile /\ Abandons(c) /\ UNCHANGED data
    <3>1. Forsakes(c) /\ "no answer" \in Results /\ Caused("no answer")
      BY <2>2, AbandonedKnown DEF Results, Caused
    <3> QED
      BY <2>1, <2>2, <3>1, GivesJustly
  <2>3. CASE /\ data' = [data EXCEPT ![call[c].file] =
                  [k \in Chunks |-> IF k > call[c].wrote /\ @[k] = "nothing" THEN "cut" ELSE @[k]]]
             /\ Goes(c, "rename") /\ UNCHANGED <<part, stopped>>
    <3> DEFINE f == call[c].file
               g == [k \in Chunks |-> IF k > call[c].wrote /\ data[f][k] = "nothing" THEN "cut"
                                      ELSE data[f][k]]
    <3>1. data' = [data EXCEPT ![f] = g]
      BY <2>3
    <3>2. f \in Inodes
      BY <1>1, <2>1 DEF Calls, CacheInv, FileInv, OpenWhileWriting
    <3>3. data \in [Inodes -> [Chunks -> Kinds]] /\ data[f] \in [Chunks -> Kinds]
      BY <1>1, <3>2 DEF CacheTypeOK
    <3>4. /\ g \in [Chunks -> Kinds] /\ \A k \in Chunks : g[k] = "nothing" => data[f][k] = "nothing"
          /\ \A k \in Chunks : k > call[c].wrote => g[k] # "nothing"
      BY <3>3 DEF Kinds
    <3> HIDE DEF f, g
    <3>5. /\ data' \in [Inodes -> [Chunks -> Kinds]] /\ data'[f] = g
          /\ \A i \in Inodes : i # f => data'[i] = data[i]
      BY <3>1, <3>2, <3>3, <3>4
    <3>6. \A i \in Inodes, k \in Chunks : data'[i][k] = "nothing" => data[i][k] = "nothing"
      BY <3>4, <3>5
    <3>7. \A k \in Chunks : k > call[c].wrote => data'[call[c].file][k] # "nothing"
      BY <3>4, <3>5 DEF f
    <3>8. T.temp # "none"
      BY <1>1, <2>1, TraitFacts
    <3> QED
      BY <2>1, <2>3, <3>5, <3>6, <3>7, <3>8, ClosedKeeps
  <2> QED
    BY <1>2, <2>2, <2>3 DEF EndsEarly
<1>3. CASE Close(c)
  <2>1. /\ call[c].at = "write" /\ Complete(c)
        /\ UNCHANGED <<source, data, cache, csv, part, own, raced, stopped>>
        /\ \/ T.temp = "none" /\ GivesFetched(c)
           \/ T.temp # "none" /\ Goes(c, "rename")
    BY <1>3 DEF Close, names, ghosts
  <2>2. CASE T.temp = "none" /\ GivesFetched(c)
    <3>1. PICK got \in {"whole", "refused", "short"} : Gives(c, got)
      BY <2>2, FetchedIsGiven
    <3>2. Forsakes(c)
      BY <2>1, <2>2, NothingForsaken
    <3>3. got \in Results /\ Caused(got)
      BY DEF Results, Caused
    <3> QED
      BY <2>1, <3>1, <3>2, <3>3, GivesJustly
  <2>3. CASE T.temp # "none" /\ Goes(c, "rename")
    <3>1. call[c].wrote = 2
      BY <1>1, <2>1 DEF Complete, Chunks
    <3>2. data' \in [Inodes -> [Chunks -> Kinds]]
      BY <1>1, <2>1 DEF CacheTypeOK
    <3>3. \A k \in Chunks : ~(k > call[c].wrote)
      BY <3>1 DEF Chunks
    <3> QED
      BY <2>1, <2>3, <3>2, <3>3, ClosedKeeps
  <2> QED
    BY <2>1, <2>2, <2>3
<1> QED
  BY <1>2, <1>3

-----------------------------------------------------------------------------
(* What stands at the temporary name takes the cache's name. *)
LEMMA Handing ==
    ASSUME CacheInv, NEW c \in Callers, Handed(c)
    PROVE  /\ call' \in [Callers -> Calls] /\ \A d \in Callers \ {c} : call'[d] = call[d]
           /\ call'[c].file = NoFile /\ call'[c].at \notin {"write", "rename"}
           /\ call'[c].got \notin {"torn", "unreadable"}
<1>1. call \in [Callers -> Calls]
  BY CallTypes
<1>2. CASE T.reads /\ Moves(c, [NoCall EXCEPT !.at = "read"])
  <2> DEFINE r == [NoCall EXCEPT !.at = "read"]
  <2>1. call' = [call EXCEPT ![c] = r]
    BY <1>2 DEF Moves
  <2>2. r \in Calls /\ r.file = NoFile /\ r.at = "read" /\ r.got = "nothing"
    BY DEF NoCall, Calls, CallPlaces, Results
  <2> HIDE DEF r
  <2> QED
    BY <1>1, <2>1, <2>2
<1>3. ASSUME NEW got \in {"whole", "refused", "short"}, Gives(c, got)
      PROVE  /\ call' \in [Callers -> Calls] /\ \A d \in Callers \ {c} : call'[d] = call[d]
             /\ call'[c].file = NoFile /\ call'[c].at \notin {"write", "rename"}
             /\ call'[c].got \notin {"torn", "unreadable"}
  <2> DEFINE r == [NoCall EXCEPT !.at = "ended", !.got = got]
  <2>1. call' = [call EXCEPT ![c] = r]
    BY <1>3 DEF Gives, Moves
  <2>2. r \in Calls /\ r.file = NoFile /\ r.at = "ended" /\ r.got = got
    BY DEF NoCall, Calls, CallPlaces, Results
  <2> HIDE DEF r
  <2> QED
    BY <1>1, <2>1, <2>2
<1> QED
  BY <1>2, <1>3, FetchedIsGiven DEF Handed

LEMMA RenamingKeeps ==
    ASSUME CacheInv, NEW c \in Callers, Rename(c) \/ RenameOwn(c)
    PROVE  CacheInv'
<1>1. /\ call \in [Callers -> Calls] /\ source \in Sources /\ CacheTypeOK
      /\ data \in [Inodes -> [Chunks -> Kinds]]
  BY CallTypes DEF CacheTypeOK
<1>2. call[c].at = "rename" /\ UNCHANGED <<source, data, csv, raced, stopped>>
  BY DEF Rename, RenameOwn, ghosts
<1>3. T' = T /\ call[c].file # NoFile
  BY <1>2 DEF T, CacheInv, FileInv, OpenWhileWriting
<1>w. ASSUME Unshared \/ T.temp = "own"
      PROVE  ~Torn(call[c].file)
  BY <1>2, <1>3, <1>w DEF CacheInv, FileInv, Filled
<1>4. CASE Rename(c)
  <2>1. T.temp = "shared" /\ UNCHANGED own
    BY <1>4 DEF Rename
  <2>2. CASE part = NoFile
    <3>1. Gives(c, "gone") /\ UNCHANGED <<cache, part>>
      BY <1>4, <2>2 DEF Rename
    <3>2. Forsakes(c) /\ "gone" \in Results /\ Caused("gone")
      BY <1>2, NothingForsaken DEF Results, Caused
    <3> QED
      BY <1>2, <2>1, <3>1, <3>2, GivesJustly
  <2>3. CASE part # NoFile
    <3>1. Handed(c) /\ cache' = part /\ part' = NoFile
      BY <1>4, <2>3 DEF Rename
    <3>2. /\ call' \in [Callers -> Calls] /\ \A d \in Callers \ {c} : call'[d] = call[d]
          /\ call'[c].file = NoFile /\ call'[c].at \notin {"write", "rename"}
          /\ call'[c].got \notin {"torn", "unreadable"}
      BY <3>1, Handing
    <3>3. CacheTypeOK'
      BY <1>1, <1>2, <1>3, <2>1, <3>1, <3>2 DEF CacheTypeOK, Calls
    <3>4. OpenWhileWriting'
      BY <1>2, <1>3, <3>2 DEF CacheInv, FileInv, OpenWhileWriting
    <3>5. ~raced => part = call[c].file /\ \A d \in Callers \ {c} : call[d].file = NoFile
      BY <1>3, <2>1, <2>3 DEF CacheInv, FileInv, PartIsMine, Unshared
    <3>6. PartIsMine' /\ OwnIsMine' /\ Filled'
      BY <1>2, <1>3, <2>1, <3>1, <3>2, <3>5 DEF PartIsMine, OwnIsMine, Filled, Unshared
    <3>7. CacheWhole'
      <4>1. ~raced => ~Torn(part)
        BY <1>w, <2>1, <3>5 DEF Unshared
      <4> QED
        BY <1>2, <1>3, <2>1, <3>1, <4>1 DEF CacheWhole, Unshared, Torn
    <3>8. Explained'
      <4> SUFFICES ASSUME NEW k \in Chunks, data[part][k] = "nothing" PROVE Missing(cache, k)'
        BY <1>2, <1>3, <3>1 DEF Explained
      <4>1. Missing(part, k)
        BY <2>1, <2>3 DEF CacheInv, FileInv, Explained
      <4> QED
        BY <1>2, <3>1, <3>2, <4>1 DEF Missing
    <3>9. ShortHasCause' /\ UnreadableHasCause'
      BY <1>2, <1>3, <3>2 DEF CacheInv, ShortHasCause, UnreadableHasCause
    <3> QED
      BY <3>3, <3>4, <3>6, <3>7, <3>8, <3>9 DEF CacheInv, FileInv
  <2> QED
    BY <2>2, <2>3
<1>5. CASE RenameOwn(c)
  <2>1. T.temp = "own" /\ cache' = own[c] /\ own' = [own EXCEPT ![c] = NoFile] /\ Handed(c)
        /\ UNCHANGED part
    BY <1>5 DEF RenameOwn
  <2>3. /\ call' \in [Callers -> Calls] /\ \A d \in Callers \ {c} : call'[d] = call[d]
        /\ call'[c].file = NoFile /\ call'[c].at \notin {"write", "rename"}
        /\ call'[c].got \notin {"torn", "unreadable"}
    BY <2>1, Handing
  <2>4. /\ own' \in [Callers -> Inodes \cup {NoFile}] /\ own'[c] = NoFile
        /\ own[c] \in Inodes \cup {NoFile}
        /\ \A d \in Callers \ {c} : own'[d] = own[d]
    BY <1>1, <2>1 DEF CacheTypeOK
  <2>5. own[c] = call[c].file /\ \A d \in Callers \ {c} : own[d] # own[c]
    BY <1>3, <2>1 DEF CacheInv, FileInv, OwnIsMine
  <2>6. CacheTypeOK'
    <3>1. {cache', csv', part'} \subseteq Inodes \cup {NoFile}
      BY <1>1, <1>2, <2>1, <2>4 DEF CacheTypeOK
    <3>2. \A d \in Callers : own'[d] # NoFile => T'.temp = "own"
      BY <1>3, <2>1
    <3> QED
      BY <1>1, <1>2, <2>3, <2>4, <3>1, <3>2 DEF CacheTypeOK, Calls
  <2>7. OpenWhileWriting' /\ PartIsMine'
    BY <1>2, <1>3, <2>1, <2>3 DEF CacheInv, FileInv, OpenWhileWriting, PartIsMine, Unshared
  <2>8. OwnIsMine'
    BY <1>3, <2>1, <2>3, <2>4, <2>5 DEF CacheInv, FileInv, OwnIsMine
  <2>9. Filled'
    BY <1>2, <1>3, <2>3 DEF CacheInv, FileInv, Filled, Unshared, Torn
  <2>10. CacheWhole'
    BY <1>2, <1>3, <1>w, <2>1, <2>5 DEF CacheWhole, Unshared, Torn
  <2>11. Explained'
    BY <1>3, <2>1 DEF Explained
  <2>12. ShortHasCause' /\ UnreadableHasCause'
    BY <1>2, <1>3, <2>3 DEF CacheInv, ShortHasCause, UnreadableHasCause
  <2> QED
    BY <2>6, <2>7, <2>8, <2>9, <2>10, <2>11, <2>12 DEF CacheInv, FileInv
<1> QED
  BY <1>4, <1>5

-----------------------------------------------------------------------------
LEMMA CacheInvKept == CacheInv /\ [CacheNext]_cacheVars => CacheInv'
<1> SUFFICES ASSUME CacheInv, [CacheNext]_cacheVars PROVE CacheInv'
  OBVIOUS
<1>1. CASE UNCHANGED cacheVars
  BY <1>1 DEF cacheVars, names, ghosts, CacheInv, CacheTypeOK, FileInv, OpenWhileWriting, PartIsMine,
              OwnIsMine, Filled, Unshared, CacheWhole, Explained, Missing, ShortHasCause,
              UnreadableHasCause, Torn, T
<1>2. ASSUME NEW c \in Callers,
             Enter(c) \/ Read(c) \/ RemoveUseless(c)
             \/ Clear(c) \/ NoAnswer(c) \/ EndsUnnoticed(c) \/ ServesPage(c) \/ TransferStalls(c)
             \/ OpenPart(c) \/ OpenOwnPart(c) \/ OpenTable(c) \/ OpenCsv(c)
             \/ Write(c) \/ EndsEarly(c) \/ Close(c) \/ Rename(c) \/ RenameOwn(c)
             \/ Return(c) \/ Kill(c)
      PROVE  CacheInv'
  BY <1>2, ReadKeeps, FilelessKeeps, OpeningKeeps, WriteKeeps, ClosingKeeps, RenamingKeeps
<1> QED
  BY <1>1, <1>2 DEF CacheNext

LEMMA CacheInvHolds == CacheSpec => []CacheInv
<1> QED
  BY CacheInvInit, CacheInvKept, PTL DEF CacheSpec

(* The names, files and calls of the download helpers stay what they are.     *)
THEOREM CacheTypeCorrect == CacheSpec => []CacheTypeOK
<1>1. CacheInv => CacheTypeOK
  BY DEF CacheInv
<1> QED
  BY <1>1, CacheInvHolds, PTL

(* A helper that renames a temporary file into place leaves an incomplete one *)
(* at the cache's name only after two processes shared the temporary name,    *)
(* and while one of them still writes it, or was stopped (the helpers'        *)
(* _download).                                                                *)
THEOREM RenamedIsWholeHolds == CacheSpec => []RenamedIsWhole
<1>1. ASSUME CacheInv PROVE RenamedIsWhole
  <2> SUFFICES ASSUME cache # NoFile, T.temp # "none", Torn(cache)
               PROVE  /\ T.temp = "shared" /\ raced
                      /\ \/ cache \in stopped
                         \/ \E c \in Callers : call[c].at = "write" /\ call[c].file = cache
    BY DEF RenamedIsWhole
  <2>1. T.temp = "shared" /\ raced
    BY <1>1, CallTypes, TraitFacts DEF CacheInv, FileInv, CacheWhole, Unshared
  <2>2. PICK k \in Chunks : data[cache][k] = "nothing"
    BY DEF Torn
  <2>3. Missing(cache, k)
    BY <1>1, <2>1, <2>2 DEF CacheInv, FileInv, Explained
  <2> QED
    BY <2>1, <2>3 DEF Missing
<1> QED
  BY <1>1, CacheInvHolds, PTL

(* Nobody is given the table of an incomplete file, but from the CSV that     *)
(* stands in for a table (treasury_yields_utils._download, _cache_load).      *)
THEOREM ShortHasCauseHolds == CacheSpec => []ShortHasCause
<1>1. CacheInv => ShortHasCause
  BY DEF CacheInv
<1> QED
  BY <1>1, CacheInvHolds, PTL

(* A file that cannot be read fails a call only where tables are written in   *)
(* place, a CSV stands in for one, or a temporary name was shared             *)
(* (_cache_load, the helpers' _download).                                     *)
THEOREM UnreadableHasCauseHolds == CacheSpec => []UnreadableHasCause
<1>1. CacheInv => UnreadableHasCause
  BY DEF CacheInv
<1> QED
  BY <1>1, CacheInvHolds, PTL

-----------------------------------------------------------------------------
(* The client library and the relay (WrdsClient).                          *)

(* A process has a request under way at the relay only inside a sandbox    *)
(* and while it waits for an answer; its statement is at the daemon only   *)
(* while its command waits for one, and passes through its own relay       *)
(* thread.                                                                 *)
Linked ==
    \A p \in Procs :
        /\ line[p] # "none" => p \in boxed /\ (Asks(p) \/ Commands(p))
        /\ flight[p] # "none" => Commands(p)
        /\ p \in boxed /\ flight[p] # "none" => line[p] = "relayed"

(* A statement that may still be sent, or executed, has been executed at   *)
(* most twice for each time it was re-sent after a lost endpoint, and once *)
(* more if its session broke under it.                                     *)
Budgeted ==
    \A p \in Procs :
        /\ ran[p] <= 2 * (1 + heals[p])
        /\ Place(p) = "call" /\ flight[p] \in {"none", "queued"} /\ line[p] # "cut"
             => ran[p] <= 2 * heals[p]
        /\ flight[p] = "broken" => ran[p] <= 1 + 2 * heals[p]
        /\ Place(p) = "idle" => ran[p] = 0
        /\ Place(p) = "await" => heals[p] < MaxHeals

(* What the latch on disk says of a server that runs. *)
ServerLatch ==
    /\ server = "login" => latch = "attempt"
    /\ latch = "blocked" => server \in {"latched", "down", "older"}
    /\ server = "latched" => latch = "blocked"

(* A latch that stood through a poll stands until an operator approves. *)
StoodBlocked == \A p \in Procs : Place(p) = "await" /\ stood[p] => latch = "blocked"

(* The query slots bound the relay's threads, also those whose client left. *)
SlotsHeld == QueryHeld <= QuerySlots

(* Only an operator is in wrds_start() or wrds_unblock(). *)
ClientsOnlyCall ==
    \A p \in Clients : Place(p) \in {"idle", "call", "await", "done"}

ClientInv ==
    /\ ClientTypeOK /\ Linked /\ Budgeted /\ ServerLatch /\ StoodBlocked /\ SlotsHeld
    /\ ClientsOnlyCall

-----------------------------------------------------------------------------
(* Places, and what moves between them *)

AwaitSteps == Waits \cup {"status", "nap"}
ReadySteps == Waits \cup {"nap", "proc"}
StartSteps == Waits \cup {"join"}
UnblockSteps == {"hello", "ping", "stop", "spawn"}
CallSteps == {"hello", "command", "hello backoff", "command backoff"}
Outcomes == {"answered", "latched", "blocked", "lost", "timeout", "saturated", "ready",
             "refused", "down"}

LEMMA PlacesAre ==
    \A place, step :
        <<place, step>> \in Places <=>
            \/ place = "idle" /\ step = "-"
            \/ place = "call" /\ step \in CallSteps
            \/ place = "await" /\ step \in AwaitSteps
            \/ place = "ready" /\ step \in ReadySteps
            \/ place = "start" /\ step \in StartSteps
            \/ place = "unblock" /\ step \in UnblockSteps
            \/ place = "done" /\ step \in Outcomes
<1> TAKE place, step
<1>1. <<place, step>> \in {<<"idle", "-">>} <=> place = "idle" /\ step = "-"
  OBVIOUS
<1>2. <<place, step>> \in {<<"call", s>> : s \in CallSteps} <=> place = "call" /\ step \in CallSteps
  OBVIOUS
<1>3. <<place, step>> \in {<<"await", s>> : s \in AwaitSteps} <=> place = "await" /\ step \in AwaitSteps
  OBVIOUS
<1>6. <<place, step>> \in {<<"ready", s>> : s \in ReadySteps} <=> place = "ready" /\ step \in ReadySteps
  OBVIOUS
<1>7. <<place, step>> \in {<<"start", s>> : s \in StartSteps} <=> place = "start" /\ step \in StartSteps
  OBVIOUS
<1>4. <<place, step>> \in {<<"unblock", s>> : s \in UnblockSteps}
         <=> place = "unblock" /\ step \in UnblockSteps
  OBVIOUS
<1>5. <<place, step>> \in {<<"done", s>> : s \in Outcomes} <=> place = "done" /\ step \in Outcomes
  OBVIOUS
<1> QED
  BY <1>1, <1>2, <1>3, <1>4, <1>5, <1>6, <1>7
  DEF Places, CallSteps, AwaitSteps, ReadySteps, StartSteps, UnblockSteps, Outcomes

LEMMA PlaceIs ==
    ASSUME ClientTypeOK, NEW p \in Procs
    PROVE  /\ at[p] = <<Place(p), Step(p)>>
           /\ \/ Place(p) = "idle" /\ Step(p) = "-"
              \/ Place(p) = "call" /\ Step(p) \in CallSteps
              \/ Place(p) = "await" /\ Step(p) \in AwaitSteps
              \/ Place(p) = "ready" /\ Step(p) \in ReadySteps
              \/ Place(p) = "start" /\ Step(p) \in StartSteps
              \/ Place(p) = "unblock" /\ Step(p) \in UnblockSteps
              \/ Place(p) = "done" /\ Step(p) \in Outcomes
<1>1. at[p] \in Places
  BY DEF ClientTypeOK
<1>2. \A t \in Places : t = <<t[1], t[2]>>
  <2> TAKE t \in Places
  <2>1. CASE t \in {<<"idle", "-">>}
    BY <2>1
  <2>2. CASE t \in {<<"call", s>> : s \in CallSteps}
    BY <2>2
  <2>3. CASE t \in {<<"await", s>> : s \in AwaitSteps}
    BY <2>3
  <2>6. CASE t \in {<<"ready", s>> : s \in ReadySteps}
    BY <2>6
  <2>7. CASE t \in {<<"start", s>> : s \in StartSteps}
    BY <2>7
  <2>4. CASE t \in {<<"unblock", s>> : s \in UnblockSteps}
    BY <2>4
  <2>5. CASE t \in {<<"done", s>> : s \in Outcomes}
    BY <2>5
  <2> QED
    BY <2>1, <2>2, <2>3, <2>4, <2>5, <2>6, <2>7
    DEF Places, CallSteps, AwaitSteps, ReadySteps, StartSteps, UnblockSteps, Outcomes
<1>3. at[p] = <<Place(p), Step(p)>>
  BY <1>1, <1>2 DEF Place, Step
<1> QED
  BY <1>1, <1>3, PlacesAre

(* The types that the constants bound. *)
LEMMA BudgetTypes ==
    /\ MaxCalls \in Nat /\ MaxHeals \in Nat /\ HealPolls \in Nat /\ BusyRetries \in Nat
    /\ ReadyPolls \in Nat /\ QuerySlots \in Nat \ {0} /\ AuthSlots \in Nat \ {0}
    /\ Clients \cap Hosts = {} /\ IsFiniteSet(Procs)
<1>1. IsFiniteSet(Procs)
  BY ClientAssumption, FS_Union DEF Procs
<1> QED
  BY <1>1, ClientAssumption

(* One process moves. *)
MovesTo(p, place, step) ==
    /\ at' \in [Procs -> Places] /\ Place(p)' = place /\ Step(p)' = step
    /\ at'[p] = <<place, step>>
    /\ \A q \in Procs : q = p => Place(q)' = place /\ Step(q)' = step
    /\ \A q \in Procs \ {p} : at'[q] = at[q]

LEMMA Moved ==
    ASSUME ClientTypeOK, NEW p \in Procs, NEW place, NEW step,
           <<place, step>> \in Places, at' = [at EXCEPT ![p] = <<place, step>>]
    PROVE  MovesTo(p, place, step)
<1>1. at \in [Procs -> Places]
  BY DEF ClientTypeOK
<1> QED
  BY <1>1 DEF MovesTo, Place, Step

Counts(p) ==
    /\ heals' \in [Procs -> 0..MaxHeals]
    /\ rounds' \in [Procs -> 0..(HealPolls + BusyRetries + ReadyPolls)]
    /\ \A q \in Procs \ {p} : heals'[q] = heals[q]

LEMMA CountsUnchanged ==
    ASSUME ClientTypeOK, NEW p \in Procs, UNCHANGED <<heals, rounds>>
    PROVE  Counts(p) /\ heals'[p] = heals[p]
  BY DEF ClientTypeOK, Counts

LEMMA CountsRound ==
    ASSUME ClientTypeOK, NEW p \in Procs, UNCHANGED heals,
           rounds' = [rounds EXCEPT ![p] = @ + 1],
           rounds[p] < HealPolls \/ rounds[p] < BusyRetries \/ rounds[p] < ReadyPolls
    PROVE  Counts(p) /\ heals'[p] = heals[p]
<1>1. rounds \in [Procs -> 0..(HealPolls + BusyRetries + ReadyPolls)]
  BY DEF ClientTypeOK
<1>2. rounds[p] + 1 \in 0..(HealPolls + BusyRetries + ReadyPolls)
  BY <1>1, BudgetTypes
<1> QED
  BY <1>1, <1>2 DEF ClientTypeOK, Counts

LEMMA CountsReset ==
    ASSUME ClientTypeOK, NEW p \in Procs, rounds' = [rounds EXCEPT ![p] = 0],
           \/ UNCHANGED heals
           \/ heals' = [heals EXCEPT ![p] = @ + 1] /\ heals[p] < MaxHeals
           \/ heals' = [heals EXCEPT ![p] = 0]
    PROVE  Counts(p)
<1>1. rounds \in [Procs -> 0..(HealPolls + BusyRetries + ReadyPolls)]
      /\ heals \in [Procs -> 0..MaxHeals]
  BY DEF ClientTypeOK
<1>2. rounds' \in [Procs -> 0..(HealPolls + BusyRetries + ReadyPolls)]
  BY <1>1, BudgetTypes
<1> QED
  BY <1>1, <1>2, BudgetTypes DEF Counts

-----------------------------------------------------------------------------
(* Where a response takes a process *)
Pings(p) == Place(p) \in {"await", "ready", "start"} /\ Step(p) \in {"ping hello", "ping"}
AsksAuth(p) == Place(p) \in {"await", "ready", "start"} /\ Step(p) \in {"auth hello", "auth"}

Fits(p, answer, place, step, more) ==
    /\ \/ /\ place = "await" /\ more = heals[p] /\ more < MaxHeals
          /\ Place(p) = "await" \/ step = "ping hello"
       \/ /\ place = "call" /\ Place(p) = "call" /\ more = heals[p]
          /\ answer = "busy" \/ (answer = "ok" /\ Step(p) = "hello")
       \/ place = "call" /\ Place(p) = "await" /\ more = heals[p] + 1
       \/ place \in {"ready", "start", "done", "unblock"} /\ more = heals[p]
    /\ Place(p) \in {"call", "await"} => place \in {"call", "await", "done"}
    /\ step = "stop" => answer = "auth" /\ Place(p) = "unblock" /\ Step(p) = "ping"
    /\ place = "await" /\ step = "nap" =>
         /\ Place(p) = "await" /\ Step(p) \in {"auth hello", "auth"} /\ ~Latched(answer)
         /\ ~(Step(p) = "auth hello" /\ answer = "ok")

Lands(p, answer) ==
    /\ Counts(p)
    /\ \E place, step : MovesTo(p, place, step) /\ Fits(p, answer, place, step, heals'[p])

LEMMA LandsInCall ==
    ASSUME ClientInv, NEW p \in Procs, NEW answer, Place(p) = "call",
           Asks(p) \/ Commands(p), InCall(p, answer)
    PROVE  Lands(p, answer)
<1> DEFINE Last(step) == step \in Outcomes /\ Ends(p, step)
<1>0. ClientTypeOK /\ heals[p] \in 0..MaxHeals /\ rounds[p] \in Nat
  BY BudgetTypes DEF ClientInv, ClientTypeOK
<1>1. ASSUME NEW step, Last(step) PROVE Lands(p, answer)
  <2>1. MovesTo(p, "done", step)
    BY <1>0, <1>1, Moved, PlacesAre DEF Ends, GoTo
  <2>2. Counts(p) /\ heals'[p] = heals[p]
    BY <1>0, <1>1, CountsUnchanged DEF Ends, GoTo
  <2> QED
    BY <1>1, <2>1, <2>2 DEF Lands, Fits, Outcomes
<1>2. CASE answer = "busy" /\ rounds[p] < BusyRetries /\ Counting(p, "call", Again(p))
  <2>1. MovesTo(p, "call", Again(p))
    BY <1>0, <1>2, Moved, PlacesAre DEF Counting, Again, CallSteps
  <2>2. Counts(p) /\ heals'[p] = heals[p]
    BY <1>0, <1>2, CountsRound DEF Counting
  <2>3. Again(p) \in {"hello backoff", "command backoff"}
    BY DEF Again
  <2> QED
    BY <1>2, <2>1, <2>2, <2>3 DEF Lands, Fits
<1>3. CASE answer = "ok" /\ Step(p) = "hello" /\ GoTo(p, "call", "command")
  <2>1. MovesTo(p, "call", "command")
    BY <1>0, <1>3, Moved, PlacesAre DEF GoTo, CallSteps
  <2>2. Counts(p) /\ heals'[p] = heals[p]
    BY <1>0, <1>3, CountsUnchanged DEF GoTo
  <2> QED
    BY <1>3, <2>1, <2>2 DEF Lands, Fits
<1>4. CASE answer = "gone" /\ Lost(p)
  <2>1. CASE /\ heals[p] < MaxHeals /\ at' = [at EXCEPT ![p] = <<"await", "ping hello">>]
             /\ rounds' = [rounds EXCEPT ![p] = 0] /\ UNCHANGED heals
    <3>1. MovesTo(p, "await", "ping hello")
      BY <1>0, <2>1, Moved, PlacesAre DEF AwaitSteps, Waits
    <3>2. Counts(p) /\ heals'[p] = heals[p]
      BY <1>0, <2>1, CountsReset
    <3>3. heals[p] < MaxHeals
      BY <2>1
    <3>4. Fits(p, answer, "await", "ping hello", heals[p])
      BY <3>3 DEF Fits
    <3> QED
      BY <3>1, <3>2, <3>4 DEF Lands
  <2>2. CASE heals[p] = MaxHeals /\ Ends(p, "lost")
    BY <1>1, <2>2 DEF Outcomes
  <2> QED
    BY <1>4, <2>1, <2>2 DEF Lost
<1>5. CASE \E step \in Outcomes : Ends(p, step)
  BY <1>1, <1>5
<1> QED
  BY <1>2, <1>3, <1>4, <1>5 DEF InCall, Outcomes

LEMMA LandsInUnblock ==
    ASSUME ClientInv, NEW p \in Procs, NEW answer, Place(p) = "unblock", Asks(p),
           InUnblock(p, answer)
    PROVE  Lands(p, answer)
<1>0. ClientTypeOK /\ heals[p] \in 0..MaxHeals /\ at[p] = <<"unblock", Step(p)>>
  BY PlaceIs DEF ClientInv, ClientTypeOK
<1>1. ASSUME NEW place \in {"unblock", "done"}, NEW step, <<place, step>> \in Places,
             GoTo(p, place, step),
             step = "stop" => answer = "auth" /\ Step(p) = "ping"
      PROVE  Lands(p, answer)
  <2>1. MovesTo(p, place, step)
    BY <1>0, <1>1, Moved DEF GoTo
  <2>2. Counts(p) /\ heals'[p] = heals[p]
    BY <1>0, <1>1, CountsUnchanged DEF GoTo
  <2> QED
    BY <1>0, <1>1, <2>1, <2>2 DEF Lands, Fits
<1>2. \A step \in {"ping", "stop", "spawn"} : <<"unblock", step>> \in Places
  BY PlacesAre DEF UnblockSteps
<1>3. <<"done", "refused">> \in Places
  BY PlacesAre DEF Outcomes
<1>4. CASE Step(p) = "hello" /\ answer = "ok" /\ GoTo(p, "unblock", "ping")
  BY <1>0, <1>1, <1>2, <1>4
<1>5. CASE Step(p) = "hello" /\ answer = "gone" /\ GoTo(p, "unblock", "spawn")
  BY <1>0, <1>1, <1>2, <1>5
<1>6. CASE Step(p) = "ping" /\ answer = "auth" /\ GoTo(p, "unblock", "stop")
  BY <1>0, <1>1, <1>2, <1>6
<1>7. CASE GoTo(p, "done", "refused")
  BY <1>0, <1>1, <1>3, <1>7
<1> QED
  BY <1>4, <1>5, <1>6, <1>7 DEF InUnblock, Ends

LEMMA LandsInPing ==
    ASSUME ClientInv, NEW p \in Procs, NEW answer, Pings(p),
           InPing(p, answer)
    PROVE  Lands(p, answer)
<1>0. /\ ClientTypeOK /\ heals[p] \in 0..MaxHeals
      /\ Place(p) \in {"await", "ready", "start"} /\ Step(p) \in {"ping hello", "ping"}
  BY DEF ClientInv, ClientTypeOK, Pings
<1>h. Place(p) = "await" => heals[p] < MaxHeals
  BY DEF ClientInv, Budgeted
<1>1. ASSUME NEW place, NEW step, <<place, step>> \in Places, GoTo(p, place, step),
             step \in {"ping", "status", "auth hello", "ready"},
             place = Place(p) \/ place = "done"
      PROVE  Lands(p, answer)
  <2>1. MovesTo(p, place, step)
    BY <1>0, <1>1, Moved DEF GoTo
  <2>2. Counts(p) /\ heals'[p] = heals[p]
    BY <1>0, <1>1, CountsUnchanged DEF GoTo
  <2> QED
    BY <1>0, <1>h, <1>1, <2>1, <2>2 DEF Lands, Fits
<1>2. /\ \A step \in {"ping", "auth hello"} : <<Place(p), step>> \in Places
      /\ <<"await", "status">> \in Places
  BY <1>0, PlacesAre DEF AwaitSteps, ReadySteps, StartSteps, Waits
<1>3. CASE Step(p) = "ping hello" /\ answer = "ok" /\ GoTo(p, Place(p), "ping")
  BY <1>1, <1>2, <1>3
<1>4. CASE Place(p) = "await" /\ Resend(p)
  <2>1. MovesTo(p, "call", "hello")
    BY <1>0, <1>4, Moved, PlacesAre DEF Resend, CallSteps
  <2>2. Counts(p) /\ heals'[p] = heals[p] + 1
    BY <1>0, <1>h, <1>4, CountsReset DEF Resend, ClientTypeOK
  <2> QED
    BY <1>4, <2>1, <2>2 DEF Lands, Fits
<1>5. CASE Place(p) # "await" /\ Ends(p, "ready")
  <2>1. <<"done", "ready">> \in Places
    BY PlacesAre DEF Outcomes
  <2> QED
    BY <1>1, <1>5, <2>1 DEF Ends
<1>6. CASE GoTo(p, Place(p), IF Place(p) = "await" THEN "status" ELSE "auth hello")
  BY <1>1, <1>2, <1>6
<1> QED
  BY <1>3, <1>4, <1>5, <1>6 DEF InPing

LEMMA LandsInAuth ==
    ASSUME ClientInv, NEW p \in Procs, NEW answer, AsksAuth(p),
           InAuth(p, answer)
    PROVE  Lands(p, answer)
<1>0. /\ ClientTypeOK /\ heals[p] \in 0..MaxHeals
      /\ Place(p) \in {"await", "ready", "start"} /\ Step(p) \in {"auth hello", "auth"}
  BY DEF ClientInv, ClientTypeOK, AsksAuth
<1>h. Place(p) = "await" => heals[p] < MaxHeals
  BY DEF ClientInv, Budgeted
<1>1. ASSUME NEW place, NEW step, <<place, step>> \in Places, GoTo(p, place, step),
             step \in {"auth", "proc", "join", "lost", "latched"},
             place = Place(p) \/ place = "done"
      PROVE  Lands(p, answer)
  <2>1. MovesTo(p, place, step)
    BY <1>0, <1>1, Moved DEF GoTo
  <2>2. Counts(p) /\ heals'[p] = heals[p]
    BY <1>0, <1>1, CountsUnchanged DEF GoTo
  <2> QED
    BY <1>0, <1>h, <1>1, <2>1, <2>2 DEF Lands, Fits
<1>2. /\ <<Place(p), "auth">> \in Places
      /\ <<"ready", "proc">> \in Places /\ <<"start", "join">> \in Places
  BY <1>0, PlacesAre DEF AwaitSteps, ReadySteps, StartSteps, Waits
<1>3. <<"done", "lost">> \in Places /\ <<"done", "latched">> \in Places
  BY PlacesAre DEF Outcomes
<1>4. CASE Step(p) = "auth hello" /\ answer = "ok" /\ GoTo(p, Place(p), "auth")
  BY <1>1, <1>2, <1>4
<1>5. CASE Ends(p, IF Place(p) = "await" THEN "lost" ELSE "latched")
  BY <1>1, <1>3, <1>5 DEF Ends
<1>6. CASE /\ ~(Step(p) = "auth hello" /\ answer = "ok") /\ ~Latched(answer)
           /\ Place(p) = "await" /\ rounds[p] < HealPolls /\ Counting(p, "await", "nap")
  <2>1. MovesTo(p, "await", "nap")
    BY <1>0, <1>6, Moved, PlacesAre DEF Counting, AwaitSteps
  <2>2. Counts(p) /\ heals'[p] = heals[p]
    BY <1>0, <1>6, CountsRound DEF Counting
  <2>3. Fits(p, answer, "await", "nap", heals[p])
    BY <1>0, <1>h, <1>6 DEF Fits
  <2> QED
    BY <2>1, <2>2, <2>3 DEF Lands
<1>7. CASE Ends(p, "lost")
  BY <1>1, <1>3, <1>7 DEF Ends
<1>8. CASE Place(p) = "ready" /\ GoTo(p, "ready", "proc")
  BY <1>1, <1>2, <1>8
<1>9. CASE Place(p) = "start" /\ GoTo(p, "start", "join")
  BY <1>1, <1>2, <1>9
<1> QED
  BY <1>4, <1>5, <1>6, <1>7, <1>8, <1>9 DEF InAuth

(* A response as a whole. *)
LEMMA ReceiveLands ==
    ASSUME ClientInv, NEW p \in Procs, NEW answer, Asks(p) \/ Commands(p),
           Receive(p, answer)
    PROVE  Lands(p, answer)
<1>0. ClientTypeOK
  BY DEF ClientInv
<1>1. \/ Place(p) = "call"
      \/ Place(p) = "unblock" /\ Asks(p)
      \/ Place(p) \in {"await", "ready", "start"} /\ Step(p) \in Waits
  <2>1. CASE Asks(p)
    BY <1>0, <2>1, PlaceIs DEF Asks, AwaitSteps, ReadySteps, StartSteps, Waits
  <2>2. CASE Commands(p)
    BY <1>0, <2>2, PlaceIs DEF Commands
  <2> QED
    BY <2>1, <2>2
<1>a. /\ Place(p) = "call" => InCall(p, answer)
      /\ Place(p) = "unblock" => InUnblock(p, answer)
      /\ Place(p) \notin {"call", "unblock"} /\ Step(p) \in {"ping hello", "ping"}
            => InPing(p, answer)
      /\ Place(p) \notin {"call", "unblock"} /\ Step(p) \notin {"ping hello", "ping"}
            => InAuth(p, answer)
  BY DEF Receive
<1>2. CASE Place(p) = "call"
  BY <1>a, <1>2, LandsInCall
<1>3. CASE Place(p) = "unblock" /\ Asks(p)
  BY <1>a, <1>3, LandsInUnblock
<1>4. CASE Pings(p)
  <2>1. InPing(p, answer)
    BY <1>a, <1>4 DEF Pings
  <2> QED
    BY <1>4, <2>1, LandsInPing
<1>5. CASE AsksAuth(p)
  <2>1. InAuth(p, answer)
    BY <1>a, <1>5 DEF AsksAuth
  <2> QED
    BY <1>5, <2>1, LandsInAuth
<1> QED
  BY <1>1, <1>2, <1>3, <1>4, <1>5 DEF Waits, Pings, AsksAuth

-----------------------------------------------------------------------------
(* What a process may be told *)

(* An answer that the server, or the relay for it, can give now; busy and  *)
(* the end of a handshake leave the statement to be sent again.            *)
Plausible(p, answer) ==
    /\ answer = "ok" /\ Step(p) \in {"ping", "auth"} => server = "serving"
    /\ answer = "unhealthy" => server \in {"serving", "stalled"}
    /\ answer = "auth" => server = "latched"
    /\ Place(p) = "call" /\ (answer = "busy" \/ (answer = "ok" /\ Step(p) = "hello"))
         => ran[p] <= 2 * heals[p]
    /\ answer \in {"busy", "gone", "timeout", "safety", "auth", "ok", "unhealthy"}

(* The answer arrives, and nothing of the request is left. *)
Served(p, answer) ==
    /\ Receive(p, answer) /\ Plausible(p, answer) /\ (Asks(p) \/ Commands(p))
    /\ line' = [line EXCEPT ![p] = "none"]
    /\ UNCHANGED <<env, ran>>

LEMMA ServedEffect ==
    ASSUME ClientInv, NEW p \in Procs, NEW answer, Served(p, answer)
    PROVE  /\ Lands(p, answer)
           /\ stood' \in [Procs -> BOOLEAN] /\ flight' = [flight EXCEPT ![p] = "none"]
           /\ \A q \in Procs \ {p} : stood'[q] = stood[q]
           /\ stood'[p] => /\ at'[p] = <<"await", "ping hello">> => latch = "blocked"
                           /\ at'[p] \notin {<<"await", "ping hello">>, <<"unblock", "stop">>}
                                => stood[p] /\ answer # "busy"
           /\ UNCHANGED <<proc, server, latch, watch, boxed, ran>>
<1>1. Lands(p, answer)
  BY ReceiveLands DEF Served
<1>2. stood \in [Procs -> BOOLEAN]
  BY DEF ClientInv, ClientTypeOK
<1>3. stood' = [stood EXCEPT ![p] =
                   IF at'[p] = <<"await", "ping hello">> THEN latch = "blocked"
                   ELSE at'[p] = <<"unblock", "stop">> \/ (stood[p] /\ answer # "busy")]
  BY DEF Served, Receive
<1>4. (IF at'[p] = <<"await", "ping hello">> THEN latch = "blocked"
       ELSE at'[p] = <<"unblock", "stop">> \/ (stood[p] /\ answer # "busy")) \in BOOLEAN
  BY <1>2
<1>5. stood' \in [Procs -> BOOLEAN] /\ \A q \in Procs \ {p} : stood'[q] = stood[q]
  BY <1>2, <1>3, <1>4
<1>6. stood'[p] = (IF at'[p] = <<"await", "ping hello">> THEN latch = "blocked"
                   ELSE at'[p] = <<"unblock", "stop">> \/ (stood[p] /\ answer # "busy"))
  BY <1>2, <1>3
<1>7. stood'[p] => /\ at'[p] = <<"await", "ping hello">> => latch = "blocked"
                   /\ at'[p] \notin {<<"await", "ping hello">>, <<"unblock", "stop">>}
                        => stood[p] /\ answer # "busy"
  BY <1>6, Zenon
<1>8. flight' = [flight EXCEPT ![p] = "none"] /\ UNCHANGED <<proc, server, latch, watch, boxed, ran>>
  BY DEF Served, Receive, env
<1> QED
  BY <1>1, <1>5, <1>7, <1>8

(* The invariant but for what concerns the relay's threads and tokens. *)
Core == Linked /\ Budgeted /\ ServerLatch /\ StoodBlocked /\ ClientsOnlyCall

CoreTypes ==
    /\ server \in {"down", "login", "serving", "stalled", "latched", "older"}
    /\ latch \in {"none", "attempt", "blocked"}
    /\ watch \in {"none", "repairing", "operator_required"}
    /\ boxed \subseteq Clients
    /\ at \in [Procs -> Places]
    /\ line \in [Procs -> {"none", "token", "dialed", "relayed", "cut"}]
    /\ stood \in [Procs -> BOOLEAN]
    /\ flight \in [Procs -> {"none", "queued", "broken", "ran", "cut"}]
    /\ ran \in [Procs -> 0..2 * MaxHeals + 2] /\ heals \in [Procs -> 0..MaxHeals]
    /\ rounds \in [Procs -> 0..(HealPolls + BusyRetries + ReadyPolls)]
    /\ proc \in [Procs -> {"none", "running", "stopped", "exited"}]

RelayTypes ==
    /\ bridge \in {"down", "bound", "up"} /\ tokenFile \in {"none", "stale", "current"}
    /\ waiting \in Nat /\ fresh \in [Procs -> BOOLEAN]

Slots == lingering \in 0..QuerySlots /\ SlotsHeld

LEMMA InvParts == ClientInv <=> Core /\ CoreTypes /\ RelayTypes /\ Slots
  BY DEF ClientInv, ClientTypeOK, Core, CoreTypes, RelayTypes, Slots

LEMMA InvPartsNext == ClientInv' <=> Core' /\ CoreTypes' /\ RelayTypes' /\ Slots'
  BY DEF ClientInv, ClientTypeOK, Core, CoreTypes, RelayTypes, Slots, Linked, Budgeted,
         ServerLatch, StoodBlocked, ClientsOnlyCall, SlotsHeld

LEMMA ServedTypes ==
    ASSUME ClientInv, NEW p \in Procs, NEW answer, Served(p, answer)
    PROVE  CoreTypes'
<1>1. CoreTypes
  BY InvParts
<1>2. /\ at' \in [Procs -> Places] /\ Counts(p)
      /\ stood' \in [Procs -> BOOLEAN] /\ flight' = [flight EXCEPT ![p] = "none"]
      /\ UNCHANGED <<proc, server, latch, watch, boxed, ran>>
  BY ServedEffect DEF Lands, MovesTo
<1>3. line' = [line EXCEPT ![p] = "none"]
  BY DEF Served
<1> QED
  BY <1>1, <1>2, <1>3 DEF CoreTypes, Counts

LEMMA ServedCore ==
    ASSUME ClientInv, NEW p \in Procs, NEW answer, Served(p, answer)
    PROVE  Core'
<1>1. Core /\ CoreTypes
  BY InvParts
<1>2. PICK place, step : MovesTo(p, place, step) /\ Fits(p, answer, place, step, heals'[p])
  BY ServedEffect DEF Lands
<1>3. /\ flight' = [flight EXCEPT ![p] = "none"] /\ Counts(p)
      /\ \A q \in Procs \ {p} : stood'[q] = stood[q]
      /\ stood'[p] => /\ at'[p] = <<"await", "ping hello">> => latch = "blocked"
                      /\ at'[p] \notin {<<"await", "ping hello">>, <<"unblock", "stop">>}
                           => stood[p] /\ answer # "busy"
      /\ UNCHANGED <<proc, server, latch, watch, boxed, ran>>
  BY ServedEffect DEF Lands
<1>4. line' = [line EXCEPT ![p] = "none"] /\ Plausible(p, answer)
  BY DEF Served
<1>5. \A q \in Procs \ {p} :
         /\ Place(q)' = Place(q) /\ Step(q)' = Step(q) /\ at'[q] = at[q]
         /\ heals'[q] = heals[q] /\ stood'[q] = stood[q]
         /\ flight'[q] = flight[q] /\ line'[q] = line[q] /\ ran'[q] = ran[q]
  BY <1>1, <1>2, <1>3, <1>4 DEF MovesTo, Counts, CoreTypes, Place, Step
<1>6. /\ flight'[p] = "none" /\ line'[p] = "none" /\ ran'[p] = ran[p]
      /\ Place(p)' = place /\ Step(p)' = step
  BY <1>1, <1>2, <1>3, <1>4 DEF MovesTo, CoreTypes
<1>7. Linked'
  <2>1. \A q \in Procs : Asks(q)' <=> Place(q)' \notin {"idle", "done"}
                                      /\ Step(q)' \in Waits \cup {"hello"}
    BY DEF Asks
  <2>2. \A q \in Procs \ {p} : (Asks(q)' <=> Asks(q)) /\ (Commands(q)' <=> Commands(q))
    BY <1>5, <2>1 DEF Asks, Commands
  <2> QED
    BY <1>1, <1>3, <1>5, <1>6, <2>2 DEF Core, Linked
<1>8. Budgeted'
  <2>1. /\ ran[p] <= 2 * (1 + heals[p]) /\ ran[p] \in Nat /\ heals[p] \in Nat /\ MaxHeals \in Nat
        /\ Place(p) = "await" => heals[p] < MaxHeals
    BY <1>1, BudgetTypes DEF Core, Budgeted, CoreTypes
  <2>2. /\ place # "idle" /\ (place = "await" => heals'[p] < MaxHeals)
        /\ heals'[p] = heals[p] \/ heals'[p] = heals[p] + 1
        /\ place = "call" => heals'[p] = heals[p] + 1
                             \/ (heals'[p] = heals[p] /\ ran[p] <= 2 * heals[p])
    BY <1>2, <1>4 DEF Fits, Plausible
  <2>3. /\ ran'[p] <= 2 * (1 + heals'[p]) /\ Place(p)' # "idle"
        /\ Place(p)' = "call" => ran'[p] <= 2 * heals'[p]
        /\ Place(p)' = "await" => heals'[p] < MaxHeals
    BY <1>6, <2>1, <2>2
  <2> QED
    BY <1>1, <1>5, <1>6, <2>3 DEF Core, Budgeted
<1>9. ServerLatch'
  BY <1>1, <1>3 DEF Core, ServerLatch
<1>10. StoodBlocked'
  <2>1. Place(p)' = "await" /\ stood'[p] => latch = "blocked"
    <3>1. CASE at'[p] = <<"await", "ping hello">>
      BY <1>3, <3>1
    <3>2. CASE at'[p] # <<"await", "ping hello">> /\ Place(p) = "await" /\ Place(p)' = "await"
      <4>1. at'[p] = <<"await", step>>
        BY <1>1, <1>2, <1>6, <3>2 DEF MovesTo, CoreTypes
      <4>2. at'[p] # <<"unblock", "stop">>
        BY <4>1
      <4> QED
        BY <1>1, <1>3, <3>2, <4>2 DEF Core, StoodBlocked
    <3>3. CASE Place(p) # "await" /\ place = "await" /\ at'[p] # <<"await", "ping hello">>
      BY <1>2, <3>3 DEF Fits, MovesTo
    <3> QED
      BY <1>6, <3>1, <3>2, <3>3
  <2> QED
    BY <1>1, <1>3, <1>5, <2>1 DEF Core, StoodBlocked
<1>11. ClientsOnlyCall'
  <2>1. Place(p) \notin {"idle", "done"}
    <3>1. Asks(p) \/ Commands(p)
      BY DEF Served
    <3> QED
      BY <3>1 DEF Asks, Commands, Place
  <2>2. Place(p) \in {"call", "await"} => place \in {"call", "await", "done"}
    BY <1>2 DEF Fits
  <2> QED
    BY <1>1, <1>5, <1>6, <2>1, <2>2 DEF Core, ClientsOnlyCall, Procs
<1> QED
  BY <1>7, <1>8, <1>9, <1>10, <1>11 DEF Core

-----------------------------------------------------------------------------
(* The relay's threads *)

Relayed == {p \in Procs : line[p] = "relayed"}

LEMMA RelayedFinite == IsFiniteSet(Relayed) /\ Cardinality(Relayed) \in Nat
<1>1. Relayed \in SUBSET Procs
  BY DEF Relayed
<1>2. IsFiniteSet(Relayed)
  BY <1>1, BudgetTypes, FS_Subset
<1> QED
  BY <1>2, FS_CardinalityType

LEMMA QueryHeldIs == /\ QueryHeld = Cardinality(Relayed) + lingering
                     /\ QueryHeld' = Cardinality(Relayed') + lingering'
  BY DEF QueryHeld, Relayed

LEMMA SlotsUnmoved ==
    ASSUME ClientInv, \A q \in Procs : line'[q] = "relayed" <=> line[q] = "relayed",
           UNCHANGED lingering
    PROVE  Slots'
<1>1. Relayed' = Relayed
  BY DEF Relayed
<1>2. Slots
  BY InvParts
<1> QED
  BY <1>1, <1>2, QueryHeldIs DEF Slots, SlotsHeld

LEMMA SlotsPassOn ==
    ASSUME ClientInv, NEW p \in Procs, line[p] = "relayed",
           line' = [line EXCEPT ![p] = "none"], lingering' = lingering + 1
    PROVE  Slots'
<1>1. Slots /\ line \in [Procs -> {"none", "token", "dialed", "relayed", "cut"}]
  BY InvParts DEF CoreTypes
<1>2. Relayed' = Relayed \ {p} /\ p \in Relayed
  BY <1>1 DEF Relayed
<1>3. Cardinality(Relayed') = Cardinality(Relayed) - 1 /\ Cardinality(Relayed') \in Nat
  <2> DEFINE Before == Relayed
             After == Relayed'
  <2>1. IsFiniteSet(Before) /\ Cardinality(Before) \in Nat /\ p \in Before /\ After = Before \ {p}
    BY <1>2, RelayedFinite
  <2> HIDE DEF Before, After
  <2>2. IsFiniteSet(After) /\ Cardinality(After) = Cardinality(Before) - 1
    BY <2>1, FS_RemoveElement
  <2>3. Cardinality(After) \in Nat
    BY <2>2, FS_CardinalityType
  <2> QED
    BY <2>2, <2>3 DEF Before, After
<1>4. Cardinality(Relayed) \in Nat /\ QuerySlots \in Nat
  BY RelayedFinite, BudgetTypes
<1> QED
  BY <1>1, <1>3, <1>4, QueryHeldIs DEF Slots, SlotsHeld

LEMMA SlotsEntered ==
    ASSUME ClientInv, NEW p \in Procs, line[p] = "dialed", QueryHeld < QuerySlots,
           line' = [line EXCEPT ![p] = "relayed"], UNCHANGED lingering
    PROVE  Slots'
<1>1. Slots /\ line \in [Procs -> {"none", "token", "dialed", "relayed", "cut"}]
  BY InvParts DEF CoreTypes
<1>2. Relayed' = Relayed \cup {p} /\ p \notin Relayed
  BY <1>1 DEF Relayed
<1>3. Cardinality(Relayed') = Cardinality(Relayed) + 1
  <2> DEFINE Before == Relayed
             After == Relayed'
  <2>1. IsFiniteSet(Before) /\ p \notin Before /\ After = Before \cup {p}
    BY <1>2, RelayedFinite
  <2> HIDE DEF Before, After
  <2> QED
    <3>1. Cardinality(After) = Cardinality(Before) + 1
      BY <2>1, FS_AddElement
    <3> QED
      BY <3>1 DEF Before, After
<1>4. Cardinality(Relayed) \in Nat /\ QuerySlots \in Nat
  BY RelayedFinite, BudgetTypes
<1> QED
  BY <1>1, <1>3, <1>4, QueryHeldIs DEF Slots, SlotsHeld

LEMMA SlotsGivenBack ==
    ASSUME ClientInv, lingering > 0, lingering' = lingering - 1, UNCHANGED line
    PROVE  Slots'
<1>1. Slots /\ Relayed' = Relayed
  BY InvParts DEF Relayed
<1>2. Cardinality(Relayed) \in Nat /\ QuerySlots \in Nat
  BY RelayedFinite, BudgetTypes
<1> QED
  BY <1>1, <1>2, QueryHeldIs DEF Slots, SlotsHeld

LEMMA SlotsCleared ==
    ASSUME ClientInv, \A q \in Procs : line'[q] # "relayed", lingering' = 0
    PROVE  Slots'
<1>1. Relayed' = {}
  BY DEF Relayed
<1>2. Cardinality(Relayed') = 0
  BY <1>1, FS_EmptySet
<1> QED
  BY <1>2, QueryHeldIs, BudgetTypes DEF Slots, SlotsHeld

-----------------------------------------------------------------------------
(* The answers of the model are plausible. *)

LEMMA Unsent ==
    ASSUME ClientInv, NEW p \in Procs, Asks(p) \/ Commands(p)
    PROVE  /\ Asks(p) => flight[p] = "none"
           /\ Direct(p) => line[p] = "none"
           /\ line[p] # "none" => ~Direct(p)
           /\ ~Direct(p) /\ line[p] # "relayed" => flight[p] = "none"
           /\ Place(p) = "call" /\ flight[p] \in {"none", "queued"} /\ line[p] # "cut"
                => ran[p] <= 2 * heals[p]
           /\ Commands(p) => Place(p) = "call" /\ Step(p) = "command"
<1>1. Linked /\ Budgeted
  BY DEF ClientInv
<1>2. Commands(p) => Place(p) = "call" /\ Step(p) = "command"
  BY DEF Commands, Place, Step
<1>3. Asks(p) => ~Commands(p)
  BY <1>2 DEF Asks, Waits
<1> QED
  BY <1>1, <1>2, <1>3 DEF Linked, Budgeted, Direct

LEMMA AtOnceIs ==
    AtOnce \subseteq {"gone", "timeout", "safety", "busy"}
  BY DEF AtOnce

LEMMA ControlPlausible ==
    ASSUME ClientInv, NEW p \in Procs, Asks(p), line[p] # "cut",
           NEW answer \in ControlAnswers(p)
    PROVE  Plausible(p, answer)
<1>1. Place(p) = "call" => ran[p] <= 2 * heals[p]
  BY Unsent
<1>2. /\ answer \in {"busy", "gone", "timeout", "safety", "auth", "ok", "unhealthy"}
      /\ answer = "unhealthy" => server \in {"serving", "stalled"}
      /\ answer = "auth" => server = "latched"
      /\ answer = "ok" /\ Step(p) \in {"ping", "auth"} => server = "serving"
  BY AtOnceIs DEF ControlAnswers, PingAnswers, HelloAnswers
<1> QED
  BY <1>1, <1>2 DEF Plausible

LEMMA AtOncePlausible ==
    ASSUME ClientInv, NEW p \in Procs, Commands(p), flight[p] = "none", line[p] # "cut",
           NEW answer \in AtOnce
    PROVE  Plausible(p, answer) /\ Plausible(p, Unavailable(answer))
<1>1. ran[p] <= 2 * heals[p]
  BY Unsent
<1> QED
  BY <1>1, AtOnceIs DEF Plausible, Unavailable

LEMMA CommandPlausible ==
    ASSUME ClientInv, NEW p \in Procs, Commands(p), line[p] # "cut",
           NEW answer \in CommandAnswers(p)
    PROVE  Plausible(p, answer) /\ Plausible(p, Unavailable(answer))
<1>1. /\ flight[p] = "queued" => ran[p] <= 2 * heals[p]
      /\ Step(p) = "command"
  BY Unsent
<1>2. /\ answer \in {"gone", "ok", "timeout", "busy", "auth"}
      /\ answer = "auth" => server = "latched"
      /\ answer = "busy" => flight[p] = "queued"
  BY DEF CommandAnswers
<1> QED
  BY <1>1, <1>2 DEF Plausible, Unavailable

LEMMA RefusalPlausible ==
    ASSUME NEW p, NEW answer \in {"gone", "timeout", "safety"}
    PROVE  Plausible(p, answer)
  BY DEF Plausible

LEMMA ServedKeeps ==
    ASSUME ClientInv, NEW p \in Procs, NEW answer, Served(p, answer), RelayTypes', Slots'
    PROVE  ClientInv'
  BY ServedCore, ServedTypes, InvPartsNext

(* An answer on the daemon's own socket, or none of the relay's threads     *)
(* involved.                                                                *)
LEMMA ServedDirectly ==
    ASSUME ClientInv, NEW p \in Procs, NEW answer, Receive(p, answer), Plausible(p, answer),
           Asks(p) \/ Commands(p), line[p] # "relayed",
           line' = [line EXCEPT ![p] = "none"] \/ (line[p] = "none" /\ UNCHANGED line),
           UNCHANGED <<env, ran, lingering>>, RelayTypes'
    PROVE  Served(p, answer) /\ ClientInv'
<1>1. line \in [Procs -> {"none", "token", "dialed", "relayed", "cut"}]
  BY InvParts DEF CoreTypes
<1>2. line' = [line EXCEPT ![p] = "none"]
  BY <1>1
<1>3. Served(p, answer)
  BY <1>2 DEF Served
<1>4. Slots'
  BY <1>1, <1>2, SlotsUnmoved
<1> QED
  BY <1>3, <1>4, ServedKeeps

-----------------------------------------------------------------------------
(* The requests, one by one.  Each of these steps is an answer, for some    *)
(* answer that the environment can give, or the request getting further.    *)
Told(p) == \E answer : Served(p, answer)

LEMMA RelayTypesKept ==
    ASSUME ClientInv, UNCHANGED <<bridge, tokenFile, waiting, fresh>>
    PROVE  RelayTypes'
<1>1. RelayTypes
  BY InvParts
<1> QED
  BY <1>1 DEF RelayTypes

LEMMA AskKeeps ==
    ASSUME ClientInv, NEW p \in Procs, Ask(p)
    PROVE  Told(p) /\ ClientInv'
<1>1. PICK answer \in ControlAnswers(p) : Receive(p, answer)
  BY DEF Ask
<1>2. /\ Direct(p) /\ Asks(p) /\ UNCHANGED <<env, relay, line, fresh, ran>>
      /\ line[p] = "none"
  BY Unsent DEF Ask
<1>3. Plausible(p, answer) /\ RelayTypes'
  BY <1>2, ControlPlausible, RelayTypesKept DEF relay
<1>4. UNCHANGED lingering
  BY <1>2 DEF relay
<1> QED
  BY <1>1, <1>2, <1>3, <1>4, ServedDirectly DEF Told

LEMMA AnswerKeeps ==
    ASSUME ClientInv, NEW p \in Procs, Answer(p)
    PROVE  Told(p) /\ ClientInv'
<1>1. PICK answer \in CommandAnswers(p) : Receive(p, answer)
  BY DEF Answer
<1>2. /\ Direct(p) /\ Commands(p) /\ UNCHANGED <<env, relay, line, fresh, ran>>
      /\ line[p] = "none"
  BY Unsent DEF Answer
<1>3. Plausible(p, answer) /\ RelayTypes'
  BY <1>2, CommandPlausible, RelayTypesKept DEF relay
<1>4. UNCHANGED lingering
  BY <1>2 DEF relay
<1> QED
  BY <1>1, <1>2, <1>3, <1>4, ServedDirectly DEF Told

(* The statement is passed to a thread of the daemon. *)
Passed(p) == Reaches(p) /\ Commands(p) /\ (Direct(p) \/ line[p] = "relayed")
             /\ UNCHANGED <<env, relay, line, fresh, ran>>

LEMMA PassedKeeps ==
    ASSUME ClientInv, NEW p \in Procs, Passed(p)
    PROVE  ClientInv'
<1>1. Core /\ CoreTypes
  BY InvParts
<1>2. /\ flight[p] = "none" /\ flight' = [flight EXCEPT ![p] = "queued"] /\ Commands(p)
      /\ Direct(p) \/ line[p] = "relayed"
      /\ UNCHANGED <<server, latch, watch, boxed, at, line, ran, heals, rounds, stood, proc,
                     bridge, tokenFile, lingering, waiting, fresh>>
  BY DEF Passed, Reaches, env, relay
<1>3. CoreTypes' /\ RelayTypes' /\ Slots'
  <2>1. CoreTypes'
    BY <1>1, <1>2 DEF CoreTypes
  <2> QED
    BY <1>2, <2>1, RelayTypesKept, SlotsUnmoved
<1>4. /\ \A q \in Procs : flight'[q] = IF q = p THEN "queued" ELSE flight[q]
      /\ \A q \in Procs : (Asks(q)' <=> Asks(q)) /\ (Commands(q)' <=> Commands(q))
                          /\ Place(q)' = Place(q)
  BY <1>1, <1>2 DEF CoreTypes, Asks, Commands, Place, Step
<1>5. Linked'
  BY <1>1, <1>2, <1>4 DEF Core, Linked, Direct
<1>6. Budgeted' /\ ServerLatch' /\ StoodBlocked' /\ ClientsOnlyCall'
  BY <1>1, <1>2, <1>4 DEF Core, Budgeted, ServerLatch, StoodBlocked, ClientsOnlyCall, Procs
<1> QED
  BY <1>3, <1>5, <1>6, InvPartsNext DEF Core

LEMMA SubmitKeeps ==
    ASSUME ClientInv, NEW p \in Procs, Submit(p)
    PROVE  (Passed(p) \/ Told(p)) /\ ClientInv'
<1>1. /\ Direct(p) /\ Commands(p) /\ flight[p] = "none"
      /\ UNCHANGED <<env, relay, line, fresh, ran>> /\ line[p] = "none"
  BY Unsent DEF Submit
<1>2. CASE Reaches(p)
  BY <1>1, <1>2, PassedKeeps DEF Passed
<1>3. CASE \E answer \in AtOnce : Receive(p, answer)
  <2>1. PICK answer \in AtOnce : Receive(p, answer)
    BY <1>3
  <2>2. Plausible(p, answer) /\ RelayTypes' /\ UNCHANGED lingering
    BY <1>1, AtOncePlausible, RelayTypesKept DEF relay
  <2> QED
    BY <1>1, <2>1, <2>2, ServedDirectly DEF Told
<1> QED
  BY <1>2, <1>3 DEF Submit

(* A relayed request gets to its next station. *)
Advances(p) ==
    /\ \E station \in {"token", "dialed", "relayed"} : Progress(p, station)
    /\ ~Direct(p) /\ (Asks(p) \/ Commands(p)) /\ line[p] \notin {"relayed", "cut"}
    /\ Keeps(p) /\ UNCHANGED <<env, ran>>

LEMMA AdvancesKeeps ==
    ASSUME ClientInv, NEW p \in Procs, Advances(p), RelayTypes', Slots'
    PROVE  ClientInv'
<1>1. Core /\ CoreTypes
  BY InvParts
<1>2. PICK station \in {"token", "dialed", "relayed"} : Progress(p, station)
  BY DEF Advances
<1>3. /\ p \in boxed /\ (Asks(p) \/ Commands(p)) /\ line[p] \notin {"relayed", "cut"}
      /\ flight[p] = "none" /\ line' = [line EXCEPT ![p] = station]
      /\ UNCHANGED <<server, latch, watch, boxed, at, flight, heals, rounds, stood, proc, ran>>
  BY <1>2, Unsent DEF Advances, Progress, Keeps, env, Direct
<1>4. CoreTypes'
  BY <1>1, <1>3 DEF CoreTypes
<1>5. /\ \A q \in Procs : line'[q] = IF q = p THEN station ELSE line[q]
      /\ \A q \in Procs : (Asks(q)' <=> Asks(q)) /\ (Commands(q)' <=> Commands(q))
                          /\ Place(q)' = Place(q)
  BY <1>1, <1>3 DEF CoreTypes, Asks, Commands, Place, Step
<1>6. Linked'
  BY <1>1, <1>3, <1>5 DEF Core, Linked
<1>7. Budgeted' /\ ServerLatch' /\ StoodBlocked' /\ ClientsOnlyCall'
  BY <1>1, <1>3, <1>5 DEF Core, Budgeted, ServerLatch, StoodBlocked, ClientsOnlyCall, Procs
<1> QED
  BY <1>4, <1>6, <1>7, InvPartsNext DEF Core

LEMMA ReadTokenKeeps ==
    ASSUME ClientInv, NEW p \in Procs, ReadToken(p)
    PROVE  (Advances(p) \/ Told(p)) /\ ClientInv'
<1>1. /\ ~Direct(p) /\ (Asks(p) \/ Commands(p)) /\ line[p] = "none"
      /\ UNCHANGED <<env, bridge, tokenFile, lingering, waiting, ran>>
  BY DEF ReadToken, relay
<1>2. CASE Receive(p, "gone") /\ UNCHANGED <<line, fresh>>
  <2>1. Plausible(p, "gone") /\ RelayTypes'
    BY <1>1, <1>2, RefusalPlausible, RelayTypesKept
  <2> QED
    BY <1>1, <1>2, <2>1, ServedDirectly DEF Told
<1>3. CASE /\ Progress(p, "token") /\ Keeps(p)
           /\ fresh' = [fresh EXCEPT ![p] = (tokenFile = "current")]
  <2>1. RelayTypes /\ CoreTypes
    BY InvParts
  <2>2. fresh' \in [Procs -> BOOLEAN]
    BY <1>3, <2>1 DEF RelayTypes
  <2>3. RelayTypes'
    BY <1>1, <2>1, <2>2 DEF RelayTypes
  <2>4. Slots'
    BY <1>1, <1>3, <2>1, SlotsUnmoved DEF Progress, CoreTypes
  <2>5. Advances(p)
    BY <1>1, <1>3 DEF Advances
  <2> QED
    BY <2>3, <2>4, <2>5, AdvancesKeeps
<1> QED
  BY <1>2, <1>3 DEF ReadToken

(* A place at the relay is held only by a request of a sandboxed client. *)
LEMMA OnLine ==
    ASSUME ClientInv, NEW p \in Procs, line[p] # "none"
    PROVE  ~Direct(p) /\ (Asks(p) \/ Commands(p))
  BY DEF ClientInv, Linked, Direct

LEMMA DialKeeps ==
    ASSUME ClientInv, NEW p \in Procs, Dial(p)
    PROVE  (Advances(p) \/ Told(p)) /\ ClientInv'
<1>1. /\ ~Direct(p) /\ (Asks(p) \/ Commands(p)) /\ line[p] = "token"
      /\ UNCHANGED <<env, bridge, tokenFile, lingering, waiting, fresh, ran>> /\ RelayTypes'
  BY OnLine, RelayTypesKept DEF Dial, relay
<1>2. CASE Progress(p, "none") /\ Receive(p, "gone")
  <2>1. Plausible(p, "gone")
    BY RefusalPlausible
  <2> QED
    BY <1>1, <1>2, <2>1, ServedDirectly DEF Told, Progress
<1>3. CASE Progress(p, "dialed") /\ Keeps(p)
  <2>1. CoreTypes
    BY InvParts
  <2>2. Slots'
    BY <1>1, <1>3, <2>1, SlotsUnmoved DEF Progress, CoreTypes
  <2>3. Advances(p)
    BY <1>1, <1>3 DEF Advances
  <2> QED
    BY <1>1, <2>2, <2>3, AdvancesKeeps
<1> QED
  BY <1>2, <1>3 DEF Dial

LEMMA AdmitKeeps ==
    ASSUME ClientInv, NEW p \in Procs, Admit(p)
    PROVE  (Advances(p) \/ Told(p)) /\ ClientInv'
<1>1. /\ ~Direct(p) /\ (Asks(p) \/ Commands(p)) /\ line[p] = "dialed"
      /\ UNCHANGED <<env, bridge, tokenFile, lingering, fresh, ran>> /\ flight[p] = "none"
  BY OnLine, Unsent DEF Admit
<1>2. UNCHANGED waiting => RelayTypes'
  BY <1>1, RelayTypesKept
<1>3. CASE Progress(p, "none") /\ Receive(p, "safety") /\ UNCHANGED waiting
  <2>1. Plausible(p, "safety")
    BY RefusalPlausible
  <2> QED
    BY <1>1, <1>2, <1>3, <2>1, ServedDirectly DEF Told, Progress
<1>4. CASE Progress(p, "none") /\ Receive(p, "busy") /\ waiting' = waiting + 1
  <2>1. Plausible(p, "busy")
    BY <1>1, Unsent DEF Plausible
  <2>2. RelayTypes
    BY InvParts
  <2>3. RelayTypes'
    BY <1>1, <1>4, <2>2 DEF RelayTypes
  <2> QED
    BY <1>1, <1>4, <2>1, <2>3, ServedDirectly DEF Told, Progress
<1>5. CASE QueryHeld < QuerySlots /\ Progress(p, "relayed") /\ Keeps(p) /\ UNCHANGED waiting
  <2>1. Slots'
    BY <1>1, <1>5, SlotsEntered DEF Progress
  <2>2. Advances(p)
    BY <1>1, <1>5 DEF Advances
  <2> QED
    BY <1>2, <1>5, <2>1, <2>2, AdvancesKeeps
<1> QED
  BY <1>3, <1>4, <1>5 DEF Admit

(* The relay delivers an answer: its thread lives on a little. *)
LEMMA DeliverKeeps ==
    ASSUME ClientInv, NEW p \in Procs, NEW answer, line[p] = "relayed", Deliver(p, answer),
           Plausible(p, answer), UNCHANGED <<env, bridge, tokenFile, waiting, fresh, ran>>
    PROVE  Told(p) /\ ClientInv'
<1>1. Served(p, answer)
  BY OnLine DEF Served, Deliver, Progress
<1>2. Slots' /\ RelayTypes'
  BY SlotsPassOn, RelayTypesKept DEF Deliver, Progress
<1> QED
  BY <1>1, <1>2, ServedKeeps DEF Told

LEMMA RelayedAnswers ==
    ASSUME ClientInv, NEW p \in Procs, RelayControl(p) \/ RelayCommand(p) \/ RelayAnswer(p)
    PROVE  (Passed(p) \/ Told(p)) /\ ClientInv'
<1>1. line[p] = "relayed" /\ UNCHANGED <<env, bridge, tokenFile, waiting, fresh, ran>>
  BY DEF RelayControl, RelayCommand, RelayAnswer
<1>2. CASE RelayControl(p)
  <2>1. PICK answer \in ControlAnswers(p) : Deliver(p, answer)
    BY <1>2 DEF RelayControl
  <2>2. Plausible(p, answer)
    BY <1>1, <1>2, ControlPlausible DEF RelayControl
  <2> QED
    BY <1>1, <2>1, <2>2, DeliverKeeps
<1>3. CASE RelayCommand(p)
  <2>1. Commands(p) /\ flight[p] = "none"
    BY <1>3 DEF RelayCommand
  <2>2. CASE Reaches(p) /\ UNCHANGED <<line, lingering>>
    <3>1. Passed(p)
      BY <1>1, <2>1, <2>2 DEF Passed, relay
    <3> QED
      BY <3>1, PassedKeeps
  <2>3. CASE \E answer \in AtOnce : Deliver(p, Unavailable(answer))
    <3>1. PICK answer \in AtOnce : Deliver(p, Unavailable(answer))
      BY <2>3
    <3>2. Plausible(p, Unavailable(answer))
      BY <1>1, <2>1, AtOncePlausible
    <3> QED
      BY <1>1, <3>1, <3>2, DeliverKeeps
  <2> QED
    BY <1>3, <2>2, <2>3 DEF RelayCommand
<1>4. CASE RelayAnswer(p)
  <2>1. PICK answer \in CommandAnswers(p) : Deliver(p, Unavailable(answer))
    BY <1>4 DEF RelayAnswer
  <2>2. Plausible(p, Unavailable(answer))
    BY <1>1, <1>4, CommandPlausible DEF RelayAnswer
  <2> QED
    BY <1>1, <2>1, <2>2, DeliverKeeps
<1> QED
  BY <1>2, <1>3, <1>4

LEMMA LineEnds ==
    ASSUME ClientInv, NEW p \in Procs, DialTimesOut(p) \/ CutOff(p)
    PROVE  Told(p) /\ ClientInv'
<1>1. PICK answer \in {"timeout", "gone"} : Receive(p, answer)
  BY DEF DialTimesOut, CutOff
<1>2. /\ line[p] \in {"dialed", "cut"} /\ line' = [line EXCEPT ![p] = "none"]
      /\ UNCHANGED <<env, bridge, tokenFile, lingering, waiting, fresh, ran>>
  BY DEF DialTimesOut, CutOff, Progress, relay
<1>3. (Asks(p) \/ Commands(p)) /\ Plausible(p, answer) /\ RelayTypes'
  BY <1>2, OnLine, RefusalPlausible, RelayTypesKept
<1> QED
  BY <1>1, <1>2, <1>3, ServedDirectly DEF Told

-----------------------------------------------------------------------------
(* Between two requests: a process that neither asks nor commands moves.   *)
Quietly(p, place, step) ==
    /\ MovesTo(p, place, step) /\ Counts(p) /\ ~Asks(p) /\ ~Commands(p)
    /\ UNCHANGED <<boxed, line>>
    /\ \A q \in Procs : /\ flight'[q] = "none" <=> flight[q] = "none"
                        /\ flight'[q] \in {"queued", "broken"} => flight'[q] = flight[q]
                        /\ q # p => ran'[q] = ran[q]
    /\ \/ place = "call" /\ Place(p) \in {"call", "idle"} /\ heals'[p] = heals[p] /\ ran'[p] = ran[p]
       \/ place = "await" /\ Place(p) = "await" /\ heals'[p] = heals[p] /\ ran'[p] = ran[p]
       \/ place = "idle" /\ ran'[p] = 0
       \/ place \in {"ready", "start", "unblock", "done"} /\ heals'[p] = heals[p] /\ ran'[p] = ran[p]
    /\ p \in Clients => place \in {"idle", "call", "await", "done"}

LEMMA QuietCore ==
    ASSUME ClientInv, NEW p \in Procs, NEW place, NEW step, Quietly(p, place, step)
    PROVE  /\ Linked' /\ Budgeted' /\ ClientsOnlyCall'
           /\ \A q \in Procs \ {p} : Place(q)' = Place(q) /\ Step(q)' = Step(q)
           /\ \A q \in Procs : q = p => Place(q)' = place /\ Step(q)' = step
           /\ Place(p)' = place /\ Step(p)' = step
<1>1. Core /\ CoreTypes
  BY InvParts
<1>2. flight[p] = "none" /\ line[p] = "none" /\ flight'[p] = "none" /\ line' = line
  BY <1>1 DEF Core, Linked, Quietly
<1>3. /\ \A q \in Procs \ {p} : Place(q)' = Place(q) /\ Step(q)' = Step(q) /\ at'[q] = at[q]
      /\ Place(p)' = place /\ Step(p)' = step
  BY DEF Quietly, MovesTo, Place, Step
<1>4. \A q \in Procs \ {p} :
         /\ Asks(q)' <=> Asks(q)
         /\ Commands(q)' <=> Commands(q)
         /\ heals'[q] = heals[q] /\ ran'[q] = ran[q]
  BY <1>3 DEF Asks, Commands, Quietly, Counts
<1>5. Linked'
  BY <1>1, <1>2, <1>4 DEF Core, Linked, Quietly
<1>6. Budgeted'
  <2>1. /\ ran[p] <= 2 * (1 + heals[p]) /\ ran[p] \in Nat /\ heals[p] \in Nat /\ MaxHeals \in Nat
        /\ heals'[p] \in Nat
        /\ Place(p) = "call" => ran[p] <= 2 * heals[p]
        /\ Place(p) = "idle" => ran[p] = 0
        /\ Place(p) = "await" => heals[p] < MaxHeals
    BY <1>1, <1>2, BudgetTypes DEF Core, Budgeted, CoreTypes, Quietly, Counts
  <2>2. /\ ran'[p] <= 2 * (1 + heals'[p])
        /\ place = "call" => ran'[p] <= 2 * heals'[p]
        /\ place = "idle" => ran'[p] = 0
        /\ place = "await" => heals'[p] < MaxHeals
    BY <2>1 DEF Quietly
  <2> QED
    BY <1>1, <1>2, <1>3, <1>4, <2>2 DEF Core, Budgeted, Quietly
<1>7. ClientsOnlyCall'
  BY <1>1, <1>3 DEF Core, ClientsOnlyCall, Quietly, Procs
<1>8. \A q \in Procs : q = p => Place(q)' = place /\ Step(q)' = step
  BY DEF Quietly, MovesTo
<1> QED
  BY <1>3, <1>5, <1>6, <1>7, <1>8

(* The client side of such a step, with the daemon left alone. *)
LEMMA QuietKeeps ==
    ASSUME ClientInv, NEW p \in Procs, NEW place, NEW step, Quietly(p, place, step),
           UNCHANGED <<server, latch, watch, lingering, flight>>,
           ran' \in [Procs -> 0..2 * MaxHeals + 2],
           stood' \in [Procs -> BOOLEAN],
           \A q \in Procs : stood'[q] => stood[q] \/ latch = "blocked",
           place = "await" => Place(p) = "await",
           proc' \in [Procs -> {"none", "running", "stopped", "exited"}],
           RelayTypes'
    PROVE  ClientInv'
<1>1. Core /\ CoreTypes
  BY InvParts
<1>2. /\ Linked' /\ Budgeted' /\ ClientsOnlyCall'
      /\ \A q \in Procs \ {p} : Place(q)' = Place(q)
      /\ \A q \in Procs : q = p => Place(q)' = place
  BY QuietCore
<1>3. StoodBlocked' /\ ServerLatch'
  <2>1. ASSUME NEW q \in Procs, Place(q)' = "await" PROVE Place(q) = "await"
    <3>1. CASE q = p
      <4>1. place = "await"
        BY <1>2, <2>1, <3>1
      <4> QED
        BY <3>1, <4>1
    <3>2. CASE q # p
      BY <1>2, <2>1, <3>2
    <3> QED
      BY <3>1, <3>2
  <2>2. \A q \in Procs : Place(q)' = "await" /\ stood'[q] => latch = "blocked"
    BY <1>1, <2>1 DEF Core, StoodBlocked
  <2> QED
    BY <1>1, <2>2 DEF Core, StoodBlocked, ServerLatch
<1>4. CoreTypes'
  BY <1>1 DEF CoreTypes, Quietly, MovesTo, Counts
<1>5. Slots'
  BY SlotsUnmoved DEF Quietly
<1> QED
  BY <1>2, <1>3, <1>4, <1>5, InvPartsNext DEF Core

(* Most of them leave everything but the place alone. *)
Walks(p, place, step) ==
    /\ at' = [at EXCEPT ![p] = <<place, step>>] /\ <<place, step>> \in Places
    /\ ~Asks(p) /\ ~Commands(p)
    /\ \/ place = "call" /\ Place(p) \in {"call", "idle"}
       \/ place = "await" /\ Place(p) = "await"
       \/ place \in {"ready", "start", "unblock", "done"}
    /\ p \in Clients => place \in {"idle", "call", "await", "done"}
    /\ UNCHANGED <<env, relay, line, fresh, flight, ran, heals>>
    /\ UNCHANGED rounds \/ (rounds' = [rounds EXCEPT ![p] = @ + 1] /\ rounds[p] < ReadyPolls)

LEMMA WalksQuietly ==
    ASSUME ClientInv, NEW p \in Procs, NEW place, NEW step, Walks(p, place, step)
    PROVE  Quietly(p, place, step)
<1>1. ClientTypeOK
  BY DEF ClientInv
<1>2. MovesTo(p, place, step)
  BY <1>1, Moved DEF Walks
<1>3. Counts(p) /\ heals'[p] = heals[p]
  BY <1>1, CountsUnchanged, CountsRound DEF Walks
<1> QED
  BY <1>2, <1>3 DEF Walks, Quietly, env

LEMMA WalksKeeps ==
    ASSUME ClientInv, NEW p \in Procs, NEW place, NEW step, Walks(p, place, step),
           stood' \in [Procs -> BOOLEAN],
           \A q \in Procs : stood'[q] => stood[q] \/ latch = "blocked",
           proc' \in [Procs -> {"none", "running", "stopped", "exited"}]
    PROVE  ClientInv'
<1>1. Quietly(p, place, step)
  BY WalksQuietly
<1>2. CoreTypes /\ RelayTypes'
  BY InvParts, RelayTypesKept DEF Walks, relay
<1>3. /\ UNCHANGED <<server, latch, watch, lingering, flight, ran>>
      /\ place = "await" => Place(p) = "await"
  BY DEF Walks, env, relay
<1>4. ran' \in [Procs -> 0..2 * MaxHeals + 2]
  BY <1>2, <1>3 DEF CoreTypes
<1> QED
  BY <1>1, <1>2, <1>3, <1>4, QuietKeeps

LEMMA HistoryTypes ==
    ASSUME ClientInv
    PROVE  /\ stood \in [Procs -> BOOLEAN]
           /\ proc \in [Procs -> {"none", "running", "stopped", "exited"}]
           /\ ran \in [Procs -> 0..2 * MaxHeals + 2]
           /\ flight \in [Procs -> {"none", "queued", "broken", "ran", "cut"}]
  BY InvParts DEF CoreTypes

LEMMA CommandsIs ==
    ASSUME NEW p, Commands(p)
    PROVE  Place(p) = "call" /\ Step(p) = "command"
  BY DEF Commands, Place, Step

LEMMA NapsNext ==
    ASSUME NEW p, at'[p] = <<"await", "nap">>
    PROVE  Place(p)' = "await" /\ Step(p)' = "nap"
  BY DEF Place, Step

LEMMA BeginKeeps ==
    ASSUME ClientInv, NEW p \in Procs, Begin(p)
    PROVE  ClientInv'
<1>1. /\ Place(p) = "idle" /\ UNCHANGED <<env, relay, line, fresh, flight, ran, proc, stood>>
      /\ ~Asks(p) /\ ~Commands(p)
  BY CommandsIs DEF Begin, Asks
<1>u. UNCHANGED <<heals, rounds>>
  <2>1. CASE p \in Clients
    BY <2>1 DEF Begin, GoTo
  <2>2. CASE p \notin Clients
    BY <2>2 DEF Begin, GoTo
  <2> QED
    BY <2>1, <2>2
<1>2. PICK place \in {"call", "start", "unblock", "ready"}, step \in {"hello", "ping hello", "nap"} :
         /\ at' = [at EXCEPT ![p] = <<place, step>>]
         /\ p \in Clients => place = "call"
         /\ <<place, step>> \in Places
  <2>1. <<"call", "hello">> \in Places /\ <<"start", "ping hello">> \in Places
        /\ <<"unblock", "hello">> \in Places /\ <<"ready", "nap">> \in Places
    BY PlacesAre DEF CallSteps, AwaitSteps, ReadySteps, StartSteps, UnblockSteps, Waits
  <2>2. CASE p \in Clients
    BY <2>1, <2>2 DEF Begin, GoTo
  <2>3. CASE p \notin Clients
    BY <2>1, <2>3 DEF Begin, GoTo
  <2> QED
    BY <2>2, <2>3
<1>3. Walks(p, place, step)
  BY <1>1, <1>u, <1>2 DEF Walks
<1> QED
  BY <1>1, <1>3, HistoryTypes, WalksKeeps

LEMMA ReturnsKeeps ==
    ASSUME ClientInv, NEW p \in Procs, Returns(p)
    PROVE  ClientInv'
<1>1. /\ Place(p) = "done" /\ UNCHANGED <<env, relay, line, flight>>
      /\ ~Asks(p) /\ ~Commands(p)
  BY CommandsIs DEF Returns, Asks
<1>2. ClientTypeOK
  BY DEF ClientInv
<1>3. MovesTo(p, "idle", "-")
  BY <1>2, Moved, PlacesAre DEF Returns
<1>4. Counts(p)
  BY <1>2, CountsReset DEF Returns
<1>5. /\ ran' = [ran EXCEPT ![p] = 0] /\ proc' = [proc EXCEPT ![p] = "none"]
      /\ fresh' = [fresh EXCEPT ![p] = FALSE] /\ stood' = [stood EXCEPT ![p] = FALSE]
  BY DEF Returns
<1>6. /\ ran' \in [Procs -> 0..2 * MaxHeals + 2] /\ ran'[p] = 0
      /\ \A q \in Procs : q # p => ran'[q] = ran[q]
      /\ proc' \in [Procs -> {"none", "running", "stopped", "exited"}]
  BY <1>5, HistoryTypes, BudgetTypes
<1>7. stood' \in [Procs -> BOOLEAN] /\ \A q \in Procs : stood'[q] => stood[q]
  BY <1>5, HistoryTypes
<1>8. RelayTypes'
  <2>1. RelayTypes
    BY InvParts
  <2>2. fresh' \in [Procs -> BOOLEAN]
    BY <1>5, <2>1 DEF RelayTypes
  <2> QED
    BY <1>1, <2>1, <2>2 DEF RelayTypes, relay
<1>9. Quietly(p, "idle", "-")
  BY <1>1, <1>3, <1>4, <1>6 DEF Quietly, env
<1>10. UNCHANGED <<server, latch, watch, lingering, flight>>
  BY <1>1 DEF env, relay
<1> QED
  BY <1>6, <1>7, <1>8, <1>9, <1>10, QuietKeeps

LEMMA WakeKeeps ==
    ASSUME ClientInv, NEW p \in Procs, Wake(p)
    PROVE  ClientInv' /\ (at'[p] # at[p] => at'[p] # <<"await", "nap">>)
<1>1. ClientTypeOK
  BY DEF ClientInv
<1>2. /\ UNCHANGED <<env, relay, line, fresh, flight, ran, proc>>
      /\ stood' = [stood EXCEPT ![p] = (Step(p) = "nap" /\ latch = "blocked")]
  BY DEF Wake
<1>w. \/ Step(p) = "hello backoff" /\ GoTo(p, "call", "hello")
      \/ Step(p) = "command backoff" /\ GoTo(p, "call", "command")
      \/ Place(p) = "await" /\ Step(p) = "nap" /\ GoTo(p, "await", "ping hello")
      \/ /\ Place(p) = "ready" /\ Step(p) = "nap"
         /\ IF rounds[p] < ReadyPolls THEN Counting(p, "ready", "ping hello")
            ELSE Ends(p, "timeout")
  <2>1. /\ at[p] = <<"await", "nap">> => Place(p) = "await" /\ Step(p) = "nap"
        /\ at[p] = <<"ready", "nap">> => Place(p) = "ready" /\ Step(p) = "nap"
    BY DEF Place, Step
  <2> QED
    BY <2>1 DEF Wake
<1>3. \/ Place(p) = "call" /\ Step(p) \in {"hello backoff", "command backoff"}
      \/ Place(p) = "await" /\ Step(p) = "nap"
      \/ Place(p) = "ready" /\ Step(p) = "nap"
  <2>1. Step(p) \in {"hello backoff", "command backoff"} => Place(p) = "call"
    BY <1>1, PlaceIs DEF AwaitSteps, ReadySteps, StartSteps, Waits, UnblockSteps, Outcomes
  <2> QED
    BY <1>w, <2>1
<1>4. ~Asks(p) /\ ~Commands(p) /\ UNCHANGED heals
  <2>1. Step(p) \notin Waits \cup {"hello", "command"}
    BY <1>3 DEF Waits
  <2>2. UNCHANGED heals
    BY <1>w DEF GoTo, Counting, Ends
  <2> QED
    BY <2>1, <2>2, CommandsIs DEF Asks
<1>5. PICK place \in {"call", "await", "ready", "done"},
           step \in {"hello", "command", "ping hello", "timeout"} :
         /\ at' = [at EXCEPT ![p] = <<place, step>>]
         /\ <<place, step>> \in Places
         /\ place = Place(p) \/ (place = "done" /\ Place(p) = "ready")
         /\ UNCHANGED rounds \/ (rounds' = [rounds EXCEPT ![p] = @ + 1] /\ rounds[p] < ReadyPolls)
  <2>1. /\ <<"call", "hello">> \in Places /\ <<"call", "command">> \in Places
        /\ <<"await", "ping hello">> \in Places /\ <<"ready", "ping hello">> \in Places
        /\ <<"done", "timeout">> \in Places
    BY PlacesAre DEF CallSteps, AwaitSteps, ReadySteps, StartSteps, Waits, Outcomes
  <2>2. CASE Place(p) = "call" /\ Step(p) \in {"hello backoff", "command backoff"}
    <3>1. GoTo(p, "call", "hello") \/ GoTo(p, "call", "command")
      BY <1>w, <2>2
    <3> QED
      BY <2>1, <2>2, <3>1 DEF GoTo
  <2>3. CASE Place(p) = "await" /\ Step(p) = "nap"
    <3>1. GoTo(p, "await", "ping hello")
      BY <1>w, <2>3
    <3> QED
      BY <2>1, <2>3, <3>1 DEF GoTo
  <2>4. CASE Place(p) = "ready" /\ Step(p) = "nap"
    <3>1. IF rounds[p] < ReadyPolls THEN Counting(p, "ready", "ping hello") ELSE Ends(p, "timeout")
      BY <1>w, <2>4
    <3>2. CASE rounds[p] < ReadyPolls /\ Counting(p, "ready", "ping hello")
      BY <2>1, <2>4, <3>2 DEF Counting
    <3>3. CASE Ends(p, "timeout")
      BY <2>1, <2>4, <3>3 DEF Ends, GoTo
    <3> QED
      BY <3>1, <3>2, <3>3
  <2> QED
    BY <1>3, <2>2, <2>3, <2>4
<1>6. p \in Clients => place \in {"idle", "call", "await", "done"}
  BY <1>5 DEF ClientInv, ClientsOnlyCall
<1>7. Walks(p, place, step)
  BY <1>2, <1>3, <1>4, <1>5, <1>6 DEF Walks
<1>8. stood' \in [Procs -> BOOLEAN]
  BY <1>2, HistoryTypes
<1>9. \A q \in Procs : stood'[q] => stood[q] \/ latch = "blocked"
  BY <1>2, HistoryTypes
<1>10. proc' \in [Procs -> {"none", "running", "stopped", "exited"}]
  BY <1>2, HistoryTypes
<1>11. ClientInv'
  BY <1>7, <1>8, <1>9, <1>10, WalksKeeps
<1>12. Step(p)' = step /\ step # "nap"
  BY <1>5, <1>7, WalksQuietly DEF Quietly, MovesTo
<1> QED
  BY <1>11, <1>12, NapsNext

LEMMA ReadStatusKeeps ==
    ASSUME ClientInv, NEW p \in Procs, ReadStatus(p)
    PROVE  ClientInv' /\ at'[p] # <<"await", "nap">>
<1>1. ClientTypeOK
  BY DEF ClientInv
<1>2. /\ UNCHANGED <<env, relay, line, fresh, flight, ran, proc, stood>> /\ Step(p) = "status"
      /\ GoTo(p, "await", "auth hello") \/ GoTo(p, "done", "lost")
  BY DEF ReadStatus, Ends
<1>3. Place(p) = "await"
  BY <1>1, <1>2, PlaceIs DEF CallSteps, ReadySteps, StartSteps, UnblockSteps, Outcomes, Waits
<1>4. ~Asks(p) /\ ~Commands(p)
  BY <1>2, CommandsIs DEF Asks, Waits
<1>5. <<"await", "auth hello">> \in Places /\ <<"done", "lost">> \in Places
  BY PlacesAre DEF AwaitSteps, Waits, Outcomes
<1>6. PICK place \in {"await", "done"}, step \in {"auth hello", "lost"} :
         at' = [at EXCEPT ![p] = <<place, step>>] /\ <<place, step>> \in Places
  BY <1>2, <1>5 DEF GoTo
<1>7. Walks(p, place, step)
  BY <1>2, <1>3, <1>4, <1>6 DEF Walks, GoTo
<1>8. ClientInv'
  BY <1>2, <1>7, HistoryTypes, WalksKeeps
<1>9. Step(p)' = step /\ step # "nap"
  BY <1>6, <1>7, WalksQuietly DEF Quietly, MovesTo
<1> QED
  BY <1>8, <1>9, NapsNext

(* wrds_start() and its wait for the server: operators only. *)
LEMMA HostsStart ==
    ASSUME ClientInv, NEW p \in Procs, Place(p) \in {"ready", "start", "unblock"}
    PROVE  p \notin Clients
  BY DEF ClientInv, ClientsOnlyCall

LEMMA JoinKeeps ==
    ASSUME ClientInv, NEW p \in Procs, Join(p)
    PROVE  ClientInv' /\ p \notin Clients
<1>1. ClientTypeOK
  BY DEF ClientInv
<1>2. /\ UNCHANGED <<env, relay, line, fresh, flight, ran, proc, stood>> /\ Step(p) = "join"
      /\ GoTo(p, "ready", "nap") \/ GoTo(p, "done", "down")
  BY DEF Join, Ends
<1>3. Place(p) = "start"
  BY <1>1, <1>2, PlaceIs DEF CallSteps, AwaitSteps, ReadySteps, UnblockSteps, Outcomes, Waits
<1>4. ~Asks(p) /\ ~Commands(p) /\ p \notin Clients
  BY <1>2, <1>3, CommandsIs, HostsStart DEF Asks, Waits
<1>5. <<"ready", "nap">> \in Places /\ <<"done", "down">> \in Places
  BY PlacesAre DEF ReadySteps, Outcomes
<1>6. PICK place \in {"ready", "done"}, step \in {"nap", "down"} :
         at' = [at EXCEPT ![p] = <<place, step>>] /\ <<place, step>> \in Places
  BY <1>2, <1>5 DEF GoTo
<1>7. Walks(p, place, step)
  BY <1>2, <1>4, <1>6 DEF Walks, GoTo
<1> QED
  BY <1>2, <1>4, <1>7, HistoryTypes, WalksKeeps

LEMMA LookAtProcKeeps ==
    ASSUME ClientInv, NEW p \in Procs, LookAtProc(p)
    PROVE  ClientInv' /\ p \notin Clients
<1>1. ClientTypeOK
  BY DEF ClientInv
<1>2. /\ UNCHANGED <<env, relay, line, fresh, flight, ran, stood>> /\ Step(p) = "proc"
      /\ GoTo(p, "ready", "nap") \/ GoTo(p, "done", "refused")
      /\ UNCHANGED proc \/ proc' = [proc EXCEPT ![p] = "none"]
  BY DEF LookAtProc, Ends
<1>3. Place(p) = "ready"
  BY <1>1, <1>2, PlaceIs DEF CallSteps, AwaitSteps, StartSteps, UnblockSteps, Outcomes, Waits
<1>4. ~Asks(p) /\ ~Commands(p) /\ p \notin Clients
  BY <1>2, <1>3, CommandsIs, HostsStart DEF Asks, Waits
<1>5. <<"ready", "nap">> \in Places /\ <<"done", "refused">> \in Places
  BY PlacesAre DEF ReadySteps, Outcomes
<1>6. PICK place \in {"ready", "done"}, step \in {"nap", "refused"} :
         at' = [at EXCEPT ![p] = <<place, step>>] /\ <<place, step>> \in Places
  BY <1>2, <1>5 DEF GoTo
<1>7. Walks(p, place, step)
  BY <1>2, <1>4, <1>6 DEF Walks, GoTo
<1>8. proc' \in [Procs -> {"none", "running", "stopped", "exited"}]
  BY <1>2, HistoryTypes
<1> QED
  BY <1>2, <1>4, <1>7, <1>8, HistoryTypes, WalksKeeps

(* The end of the daemon's process, and what becomes of the statements. *)
LEMMA EndedEffect ==
    ASSUME ClientInv, NEW outcome \in {"stopped", "exited"}, Ended(outcome)
    PROVE  /\ flight' \in [Procs -> {"none", "queued", "broken", "ran", "cut"}]
           /\ \A q \in Procs : /\ flight'[q] = "none" <=> flight[q] = "none"
                               /\ flight'[q] \in {"queued", "broken"} => flight'[q] = flight[q]
           /\ proc' \in [Procs -> {"none", "running", "stopped", "exited"}]
           /\ server' = "down" /\ latch' \in {"none", "attempt", "blocked"}
           /\ latch = "blocked" => latch' = "blocked"
           /\ ServerLatch'
<1>1. CoreTypes
  BY InvParts
<1>2. flight' = [p \in Procs |-> IF flight[p] = "none" THEN "none" ELSE "cut"]
  BY DEF Ended
<1>3. proc' = [p \in Procs |-> IF proc[p] = "running" THEN outcome ELSE proc[p]]
  BY DEF Ended
<1>4. server' = "down" /\ latch' = IF latch = "attempt" THEN "blocked" ELSE latch
  BY DEF Ended
<1> QED
  BY <1>1, <1>2, <1>3, <1>4 DEF CoreTypes, ServerLatch

(* A quiet step that changes the daemon as well. *)
LEMMA QuietDaemonKeeps ==
    ASSUME ClientInv, NEW p \in Procs, NEW place, NEW step, Quietly(p, place, step),
           UNCHANGED <<watch, lingering>>,
           ran' \in [Procs -> 0..2 * MaxHeals + 2], stood' \in [Procs -> BOOLEAN],
           place # "await",
           \A q \in Procs : stood'[q] => stood[q] /\ (latch = "blocked" => latch' = "blocked"),
           proc' \in [Procs -> {"none", "running", "stopped", "exited"}],
           flight' \in [Procs -> {"none", "queued", "broken", "ran", "cut"}],
           server' \in {"down", "login", "serving", "stalled", "latched", "older"},
           latch' \in {"none", "attempt", "blocked"},
           ServerLatch', RelayTypes'
    PROVE  ClientInv'
<1>1. Core /\ CoreTypes
  BY InvParts
<1>2. /\ Linked' /\ Budgeted' /\ ClientsOnlyCall'
      /\ \A q \in Procs \ {p} : Place(q)' = Place(q)
      /\ \A q \in Procs : q = p => Place(q)' = place
  BY QuietCore
<1>3. StoodBlocked'
  <2>1. ASSUME NEW q \in Procs, Place(q)' = "await", stood'[q] PROVE latch' = "blocked"
    <3>1. q # p
      BY <1>2, <2>1
    <3>2. Place(q) = "await"
      BY <1>2, <2>1, <3>1
    <3> QED
      BY <1>1, <2>1, <3>2 DEF Core, StoodBlocked
  <2> QED
    BY <2>1 DEF StoodBlocked
<1>4. CoreTypes'
  BY <1>1 DEF CoreTypes, Quietly, MovesTo, Counts
<1>5. Slots'
  BY SlotsUnmoved DEF Quietly
<1> QED
  BY <1>2, <1>3, <1>4, <1>5, InvPartsNext DEF Core

LEMMA StopOwnerKeeps ==
    ASSUME ClientInv, NEW p \in Procs, StopOwner(p)
    PROVE  ClientInv' /\ p \notin Clients
<1>1. ClientTypeOK /\ CoreTypes /\ ServerLatch
  BY InvParts DEF ClientInv
<1>2. /\ UNCHANGED <<watch, boxed, relay, line, fresh, ran, stood>> /\ Step(p) = "stop"
      /\ GoTo(p, "unblock", "spawn") \/ GoTo(p, "done", "refused")
      /\ UNCHANGED <<server, latch, flight, proc>>
         \/ \E outcome \in {"stopped", "exited"} : Ended(outcome)
  BY DEF StopOwner, Ends
<1>3. Place(p) = "unblock"
  BY <1>1, <1>2, PlaceIs
     DEF CallSteps, AwaitSteps, ReadySteps, StartSteps, Outcomes, Waits
<1>4. ~Asks(p) /\ ~Commands(p) /\ p \notin Clients
  BY <1>2, <1>3, CommandsIs, HostsStart DEF Asks, Waits
<1>5. <<"unblock", "spawn">> \in Places /\ <<"done", "refused">> \in Places
  BY PlacesAre DEF UnblockSteps, Outcomes
<1>6. PICK place \in {"unblock", "done"}, step \in {"spawn", "refused"} :
         at' = [at EXCEPT ![p] = <<place, step>>] /\ <<place, step>> \in Places
  BY <1>2, <1>5 DEF GoTo
<1>7. MovesTo(p, place, step) /\ Counts(p) /\ heals'[p] = heals[p]
  BY <1>1, <1>2, <1>6, Moved, CountsUnchanged DEF GoTo
<1>8. /\ flight' \in [Procs -> {"none", "queued", "broken", "ran", "cut"}]
      /\ \A q \in Procs : /\ flight'[q] = "none" <=> flight[q] = "none"
                          /\ flight'[q] \in {"queued", "broken"} => flight'[q] = flight[q]
      /\ proc' \in [Procs -> {"none", "running", "stopped", "exited"}]
      /\ server' \in {"down", "login", "serving", "stalled", "latched", "older"}
      /\ latch' \in {"none", "attempt", "blocked"}
      /\ latch = "blocked" => latch' = "blocked"
      /\ ServerLatch'
  <2>1. CASE UNCHANGED <<server, latch, flight, proc>>
    BY <1>1, <2>1 DEF CoreTypes, ServerLatch
  <2>2. CASE \E outcome \in {"stopped", "exited"} : Ended(outcome)
    BY <2>2, EndedEffect
  <2> QED
    BY <1>2, <2>1, <2>2
<1>9. Quietly(p, place, step)
  BY <1>2, <1>4, <1>6, <1>7, <1>8 DEF Quietly
<1>10. RelayTypes' /\ UNCHANGED lingering
  BY <1>2, RelayTypesKept DEF relay
<1>11. ran' \in [Procs -> 0..2 * MaxHeals + 2] /\ stood' \in [Procs -> BOOLEAN]
       /\ \A q \in Procs : stood'[q] => stood[q]
  BY <1>2, HistoryTypes
<1> QED
  BY <1>2, <1>4, <1>6, <1>8, <1>9, <1>10, <1>11, QuietDaemonKeeps

LEMMA SpawnKeeps ==
    ASSUME ClientInv, NEW p \in Procs, Spawn(p)
    PROVE  ClientInv' /\ p \notin Clients
<1>1. ClientTypeOK /\ CoreTypes /\ ServerLatch
  BY InvParts DEF ClientInv
<1>2. /\ UNCHANGED <<watch, boxed, relay, line, fresh, flight, ran>> /\ Step(p) = "spawn"
      /\ GoTo(p, "ready", "nap") \/ GoTo(p, "done", "refused")
      /\ \/ UNCHANGED <<server, latch, stood>>
         \/ server' = "login" /\ latch' = "attempt" /\ stood' = [q \in Procs |-> FALSE]
      /\ UNCHANGED proc \/ \E outcome \in {"running", "exited"} : proc' = [proc EXCEPT ![p] = outcome]
  BY DEF Spawn, Ends
<1>3. Place(p) = "unblock"
  BY <1>1, <1>2, PlaceIs
     DEF CallSteps, AwaitSteps, ReadySteps, StartSteps, Outcomes, Waits
<1>4. ~Asks(p) /\ ~Commands(p) /\ p \notin Clients
  BY <1>2, <1>3, CommandsIs, HostsStart DEF Asks, Waits
<1>5. <<"ready", "nap">> \in Places /\ <<"done", "refused">> \in Places
  BY PlacesAre DEF ReadySteps, Outcomes
<1>6. PICK place \in {"ready", "done"}, step \in {"nap", "refused"} :
         at' = [at EXCEPT ![p] = <<place, step>>] /\ <<place, step>> \in Places
  BY <1>2, <1>5 DEF GoTo
<1>7. MovesTo(p, place, step) /\ Counts(p) /\ heals'[p] = heals[p]
  BY <1>1, <1>2, <1>6, Moved, CountsUnchanged DEF GoTo
<1>8. Quietly(p, place, step)
  BY <1>2, <1>4, <1>6, <1>7 DEF Quietly
<1>9. proc' \in [Procs -> {"none", "running", "stopped", "exited"}]
  BY <1>2, HistoryTypes
<1>10. stood' \in [Procs -> BOOLEAN]
       /\ \A q \in Procs : stood'[q] => stood[q] /\ (latch = "blocked" => latch' = "blocked")
  <2>1. CASE UNCHANGED <<server, latch, stood>>
    BY <2>1, HistoryTypes
  <2>2. CASE stood' = [q \in Procs |-> FALSE]
    BY <2>2
  <2> QED
    BY <1>2, <2>1, <2>2
<1>11. /\ server' \in {"down", "login", "serving", "stalled", "latched", "older"}
       /\ latch' \in {"none", "attempt", "blocked"} /\ ServerLatch'
  BY <1>1, <1>2 DEF CoreTypes, ServerLatch
<1>12. /\ RelayTypes' /\ UNCHANGED <<watch, lingering>> /\ place # "await"
       /\ ran' \in [Procs -> 0..2 * MaxHeals + 2]
       /\ flight' \in [Procs -> {"none", "queued", "broken", "ran", "cut"}]
  BY <1>2, <1>6, RelayTypesKept, HistoryTypes DEF relay
<1> QED
  BY <1>4, <1>8, <1>9, <1>10, <1>11, <1>12, QuietDaemonKeeps

-----------------------------------------------------------------------------
(* The daemon, the watchdog and the relay on their own *)

(* The places of all processes and the relay's lines stay as they are. *)
LEMMA StillCore ==
    ASSUME ClientInv, UNCHANGED <<at, boxed, line, heals, ran>>,
           \A q \in Procs : /\ flight'[q] = "none" <=> flight[q] = "none"
                            /\ flight'[q] \in {"queued", "broken"} => flight'[q] = flight[q]
    PROVE  /\ Linked' /\ Budgeted' /\ ClientsOnlyCall'
           /\ \A q \in Procs : Place(q)' = Place(q)
<1>1. Core
  BY InvParts
<1>2. \A q \in Procs : /\ Asks(q)' <=> Asks(q)
                       /\ Commands(q)' <=> Commands(q)
                       /\ Place(q)' = Place(q)
  BY DEF Asks, Commands, Place, Step
<1>3. Linked'
  BY <1>1, <1>2 DEF Core, Linked
<1>4. Budgeted'
  BY <1>1, <1>2 DEF Core, Budgeted
<1>5. ClientsOnlyCall'
  BY <1>1, <1>2 DEF Core, ClientsOnlyCall, Procs
<1> QED
  BY <1>2, <1>3, <1>4, <1>5

LEMMA DaemonKeeps ==
    ASSUME ClientInv, UNCHANGED <<boxed, relay, at, line, fresh, ran, heals, rounds>>,
           \A q \in Procs : /\ flight'[q] = "none" <=> flight[q] = "none"
                            /\ flight'[q] \in {"queued", "broken"} => flight'[q] = flight[q],
           flight' \in [Procs -> {"none", "queued", "broken", "ran", "cut"}],
           proc' \in [Procs -> {"none", "running", "stopped", "exited"}],
           server' \in {"down", "login", "serving", "stalled", "latched", "older"},
           latch' \in {"none", "attempt", "blocked"},
           watch' \in {"none", "repairing", "operator_required"},
           stood' \in [Procs -> BOOLEAN],
           \A q \in Procs : stood'[q] => stood[q] /\ (latch = "blocked" => latch' = "blocked"),
           ServerLatch'
    PROVE  ClientInv'
<1>1. Core /\ CoreTypes
  BY InvParts
<1>2. /\ Linked' /\ Budgeted' /\ ClientsOnlyCall'
      /\ \A q \in Procs : Place(q)' = Place(q)
  BY StillCore
<1>3. StoodBlocked'
  BY <1>1, <1>2 DEF Core, StoodBlocked
<1>4. CoreTypes'
  BY <1>1 DEF CoreTypes
<1>5. Slots' /\ RelayTypes'
  BY SlotsUnmoved, RelayTypesKept DEF relay
<1> QED
  BY <1>2, <1>3, <1>4, <1>5, InvPartsNext DEF Core

LEMMA EnvironmentKeeps ==
    ASSUME ClientInv,
           Starts \/ Approved \/ LoginEnds \/ Reconnects \/ ReconnectEnds \/ Stalls
             \/ OlderStarts \/ Publishes
    PROVE  ClientInv'
<1>1. CoreTypes /\ ServerLatch
  BY InvParts DEF Core
<1>2. /\ UNCHANGED <<boxed, relay, at, line, fresh, ran, heals, rounds, flight, proc>>
      /\ UNCHANGED stood \/ stood' = [p \in Procs |-> FALSE]
  BY DEF Starts, Approved, LoginEnds, Reconnects, ReconnectEnds, Stalls, OlderStarts, Publishes,
         Others, relay, calls
<1>3. /\ server' \in {"down", "login", "serving", "stalled", "latched", "older"}
      /\ latch' \in {"none", "attempt", "blocked"}
      /\ ServerLatch'
      /\ latch = "blocked" /\ UNCHANGED stood /\ ~Approved => latch' = "blocked"
  BY <1>1 DEF CoreTypes, ServerLatch, Starts, Approved, LoginEnds, Reconnects, ReconnectEnds,
              Stalls, OlderStarts, Publishes
<1>4. watch' \in {"none", "repairing", "operator_required"}
  BY <1>1 DEF CoreTypes, Starts, Approved, LoginEnds, Reconnects, ReconnectEnds, Stalls,
              OlderStarts, Publishes, Others
<1>5. /\ stood' \in [Procs -> BOOLEAN]
      /\ \A q \in Procs : stood'[q] => stood[q] /\ (latch = "blocked" => latch' = "blocked")
  <2>1. CASE stood' = [p \in Procs |-> FALSE]
    BY <2>1
  <2>2. CASE UNCHANGED stood /\ ~Approved
    BY <1>3, <2>2, HistoryTypes
  <2>3. Approved => stood' = [p \in Procs |-> FALSE]
    BY DEF Approved
  <2> QED
    BY <1>2, <2>1, <2>2, <2>3
<1> QED
  BY <1>2, <1>3, <1>4, <1>5, HistoryTypes, DaemonKeeps

LEMMA DiesKeeps ==
    ASSUME ClientInv, Dies
    PROVE  ClientInv'
<1>1. CoreTypes /\ ServerLatch
  BY InvParts DEF Core
<1>2. UNCHANGED <<watch, boxed, relay, at, line, fresh, ran, heals, rounds, stood>>
  BY DEF Dies
<1>3. CASE server' = "down" /\ UNCHANGED <<latch, flight, proc>> /\ server = "older"
  <2>1. ServerLatch' /\ server' \in {"down", "login", "serving", "stalled", "latched", "older"}
    BY <1>1, <1>3 DEF ServerLatch
  <2> QED
    BY <1>1, <1>2, <1>3, <2>1, HistoryTypes, DaemonKeeps DEF CoreTypes
<1>4. CASE \E outcome \in {"stopped", "exited"} : Ended(outcome)
  <2>1. PICK outcome \in {"stopped", "exited"} : Ended(outcome)
    BY <1>4
  <2>2. server' \in {"down", "login", "serving", "stalled", "latched", "older"}
    BY <2>1, EndedEffect
  <2> QED
    BY <1>1, <1>2, <2>1, <2>2, EndedEffect, HistoryTypes, DaemonKeeps DEF CoreTypes
<1> QED
  BY <1>3, <1>4 DEF Dies

LEMMA ExecuteKeeps ==
    ASSUME ClientInv, NEW p \in Procs, Execute(p)
    PROVE  ClientInv'
<1>1. Core /\ CoreTypes
  BY InvParts
<1>2. PICK end \in {"ran", "broken"} :
         /\ flight[p] = "queued" \/ (flight[p] = "broken" /\ end = "ran")
         /\ flight' = [flight EXCEPT ![p] = end]
  BY DEF Execute
<1>3. /\ ran' = [ran EXCEPT ![p] = @ + 1]
      /\ UNCHANGED <<server, latch, watch, boxed, bridge, tokenFile, lingering, waiting,
                     at, line, fresh, heals, rounds, proc, stood>>
  BY DEF Execute, env, relay
<1>4. /\ \A q \in Procs : /\ Asks(q)' <=> Asks(q)
                          /\ Commands(q)' <=> Commands(q)
                          /\ Place(q)' = Place(q)
  BY <1>3 DEF Asks, Commands, Place, Step
<1>5. ran[p] \in Nat /\ heals[p] \in 0..MaxHeals
  BY <1>1, BudgetTypes DEF CoreTypes
<1>6. /\ Place(p) = "call" /\ ran[p] <= 1 + 2 * heals[p]
      /\ flight[p] = "queued" => ran[p] <= 2 * heals[p]
  <2>1. Commands(p)
    BY <1>1, <1>2 DEF Core, Linked
  <2>2. line[p] # "cut"
    BY <1>1, <1>2 DEF Core, Linked, Direct
  <2>3. flight[p] = "broken" => ran[p] <= 1 + 2 * heals[p]
    BY <1>1 DEF Core, Budgeted
  <2>4. Place(p) = "call" /\ (flight[p] = "queued" => ran[p] <= 2 * heals[p])
    BY <2>1, <2>2, Unsent
  <2> QED
    BY <1>2, <1>5, <2>3, <2>4
<1>7. CoreTypes'
  <2>1. ran[p] + 1 \in 0..2 * MaxHeals + 2
    BY <1>5, <1>6, BudgetTypes
  <2> QED
    BY <1>1, <1>2, <1>3, <2>1 DEF CoreTypes
<1>8. Linked'
  BY <1>1, <1>2, <1>3, <1>4 DEF Core, Linked, CoreTypes
<1>9. Budgeted'
  <2>1. ran'[p] = ran[p] + 1 /\ flight'[p] = end
    BY <1>1, <1>2, <1>3 DEF CoreTypes
  <2>2. /\ ran'[p] <= 2 * (1 + heals[p])
        /\ flight'[p] \notin {"none", "queued"}
        /\ flight'[p] = "broken" => ran'[p] <= 1 + 2 * heals[p]
    BY <1>2, <1>5, <1>6, <2>1
  <2>3. \A q \in Procs \ {p} : ran'[q] = ran[q] /\ flight'[q] = flight[q]
    BY <1>1, <1>2, <1>3 DEF CoreTypes
  <2> QED
    BY <1>1, <1>3, <1>4, <1>6, <2>2, <2>3 DEF Core, Budgeted
<1>10. ServerLatch' /\ StoodBlocked' /\ ClientsOnlyCall'
  BY <1>1, <1>3, <1>4 DEF Core, ServerLatch, StoodBlocked, ClientsOnlyCall, Procs
<1>11. Slots' /\ RelayTypes'
  BY <1>3, SlotsUnmoved, RelayTypesKept
<1> QED
  BY <1>7, <1>8, <1>9, <1>10, <1>11, InvPartsNext DEF Core

(* What touches only the relay's threads and its capability. *)
LEMMA RelayKeeps ==
    ASSUME ClientInv, UNCHANGED <<env, at, line, flight, ran, heals, rounds, proc, stood>>,
           RelayTypes', Slots'
    PROVE  ClientInv'
<1>1. Core /\ CoreTypes
  BY InvParts
<1>2. /\ Linked' /\ Budgeted' /\ ClientsOnlyCall'
      /\ \A q \in Procs : Place(q)' = Place(q)
  BY StillCore DEF env
<1>3. StoodBlocked' /\ ServerLatch' /\ CoreTypes'
  BY <1>1, <1>2 DEF Core, StoodBlocked, ServerLatch, CoreTypes, env
<1> QED
  BY <1>2, <1>3, InvPartsNext DEF Core

LEMMA RelayAloneKeeps ==
    ASSUME ClientInv, SlotReleased \/ ThreadEnds \/ BridgeBinds \/ BridgePublishes
    PROVE  ClientInv'
<1>1. RelayTypes
  BY InvParts
<1>2. UNCHANGED <<env, at, line, flight, ran, heals, rounds, proc, stood>>
  BY DEF SlotReleased, ThreadEnds, BridgeBinds, BridgePublishes, calls
<1>3. RelayTypes'
  <2>1. fresh' \in [Procs -> BOOLEAN]
    BY <1>1 DEF RelayTypes, SlotReleased, ThreadEnds, BridgeBinds, BridgePublishes, calls
  <2>2. /\ bridge' \in {"down", "bound", "up"} /\ tokenFile' \in {"none", "stale", "current"}
        /\ waiting' \in Nat
    BY <1>1 DEF RelayTypes, SlotReleased, ThreadEnds, BridgeBinds, BridgePublishes
  <2> QED
    BY <2>1, <2>2 DEF RelayTypes
<1>4. Slots'
  <2>1. CASE SlotReleased
    BY <1>2, <2>1, SlotsGivenBack DEF SlotReleased
  <2>2. CASE ThreadEnds \/ BridgeBinds \/ BridgePublishes
    BY <1>2, <2>2, SlotsUnmoved DEF ThreadEnds, BridgeBinds, BridgePublishes
  <2> QED
    BY <2>1, <2>2
<1> QED
  BY <1>2, <1>3, <1>4, RelayKeeps

(* A statement that the relay has passed on may be executed all the same.   *)
LEMMA BridgeEndsKeeps ==
    ASSUME ClientInv, BridgeEnds
    PROVE  ClientInv'
<1>1. Core /\ CoreTypes
  BY InvParts
<1>2. PICK late \in [Procs -> 0..2] :
         /\ \A p \in Procs : late[p] <= IF line[p] = "relayed" THEN Unexecuted(p) ELSE 0
         /\ ran' = [p \in Procs |-> ran[p] + late[p]]
  BY DEF BridgeEnds
<1>3. /\ line' = [p \in Procs |-> IF line[p] \in {"dialed", "relayed"} THEN "cut" ELSE line[p]]
      /\ flight' = [p \in Procs |-> IF line[p] = "relayed" THEN "none" ELSE flight[p]]
      /\ UNCHANGED <<server, latch, watch, boxed, at, fresh, heals, rounds, proc, stood>>
      /\ lingering' = 0 /\ waiting' = 0 /\ bridge' = "down"
      /\ tokenFile' = "none" \/ UNCHANGED tokenFile
  BY DEF BridgeEnds, env
<1>4. \A q \in Procs : /\ Asks(q)' <=> Asks(q)
                       /\ Commands(q)' <=> Commands(q)
                       /\ Place(q)' = Place(q)
  BY <1>3 DEF Asks, Commands, Place, Step
<1>5. /\ line' \in [Procs -> {"none", "token", "dialed", "relayed", "cut"}]
      /\ flight' \in [Procs -> {"none", "queued", "broken", "ran", "cut"}]
      /\ \A q \in Procs : /\ line'[q] # "relayed"
                          /\ line'[q] # "none" <=> line[q] # "none"
                          /\ flight'[q] \in {"none", flight[q]}
                          /\ line[q] \in {"dialed", "relayed"} => line'[q] = "cut"
                          /\ line[q] \notin {"dialed", "relayed"} => line'[q] = line[q]
                          /\ line[q] = "relayed" => flight'[q] = "none"
                          /\ line[q] # "relayed" => flight'[q] = flight[q]
  BY <1>1, <1>3 DEF CoreTypes
<1>6. Linked'
  BY <1>1, <1>3, <1>4, <1>5 DEF Core, Linked
<1>7. ASSUME NEW q \in Procs
      PROVE  /\ ran'[q] \in 0..2 * MaxHeals + 2 /\ ran'[q] <= 2 * (1 + heals[q])
             /\ line[q] # "relayed" => ran'[q] = ran[q]
             /\ Place(q) = "idle" => ran'[q] = 0
  <2>1. /\ ran[q] \in Nat /\ heals[q] \in 0..MaxHeals /\ ran[q] <= 2 * (1 + heals[q])
        /\ Place(q) = "idle" => ran[q] = 0
        /\ flight[q] = "broken" => ran[q] <= 1 + 2 * heals[q]
    BY <1>1, BudgetTypes DEF CoreTypes, Core, Budgeted
  <2>2. ran'[q] = ran[q] + late[q] /\ late[q] \in 0..2
    BY <1>2
  <2>3. CASE late[q] # 0
    <3>1. line[q] = "relayed" /\ late[q] <= Unexecuted(q)
      BY <1>2, <2>2, <2>3
    <3>2. \/ flight[q] = "queued"
          \/ flight[q] = "broken" /\ late[q] = 1
      BY <2>2, <2>3, <3>1 DEF Unexecuted
    <3>3. Commands(q)
      BY <1>1, <3>2 DEF Core, Linked
    <3>4. (flight[q] = "queued" => ran[q] <= 2 * heals[q]) /\ Place(q) = "call"
      BY <3>1, <3>3, Unsent
    <3> QED
      BY <2>1, <2>2, <3>1, <3>2, <3>4, BudgetTypes
  <2>4. CASE late[q] = 0
    <3>1. ran'[q] = ran[q]
      BY <2>1, <2>2, <2>4
    <3> QED
      BY <2>1, <3>1, BudgetTypes
  <2>5. line[q] # "relayed" => late[q] = 0
    BY <1>2, <2>2
  <2> QED
    BY <2>3, <2>4, <2>5, <2>1, <2>2
<1>8. Budgeted'
  <2>1. \A q \in Procs : Place(q) = "call" /\ flight'[q] \in {"none", "queued"} /\ line'[q] # "cut"
                           => ran'[q] <= 2 * heals[q]
    BY <1>1, <1>5, <1>7 DEF Core, Budgeted
  <2> QED
    BY <1>1, <1>3, <1>4, <1>7, <2>1 DEF Core, Budgeted
<1>9. ServerLatch' /\ StoodBlocked' /\ ClientsOnlyCall'
  BY <1>1, <1>3, <1>4 DEF Core, ServerLatch, StoodBlocked, ClientsOnlyCall, Procs
<1>10. CoreTypes'
  <2>1. ran' \in [Procs -> 0..2 * MaxHeals + 2]
    BY <1>2, <1>7
  <2> QED
    BY <1>1, <1>3, <1>5, <2>1 DEF CoreTypes
<1>11. RelayTypes'
  <2>1. RelayTypes
    BY InvParts
  <2> QED
    BY <1>3, <2>1 DEF RelayTypes
<1>12. Slots'
  BY <1>3, <1>5, SlotsCleared
<1> QED
  BY <1>6, <1>8, <1>9, <1>10, <1>11, <1>12, InvPartsNext DEF Core

-----------------------------------------------------------------------------
(* The invariant holds. *)

LEMMA ClientInitHolds == ClientInit => ClientInv
<1> SUFFICES ASSUME ClientInit PROVE ClientInv
  OBVIOUS
<1>1. \A p \in Procs : /\ at[p] = <<"idle", "-">> /\ line[p] = "none" /\ flight[p] = "none"
                       /\ ran[p] = 0 /\ heals[p] = 0 /\ stood[p] = FALSE
  BY DEF ClientInit
<1>2. \A p \in Procs : Place(p) = "idle"
  BY <1>1 DEF Place
<1>3. <<"idle", "-">> \in Places
  BY PlacesAre
<1>4. CoreTypes
  <2>1. 0 \in 0..MaxHeals /\ 0 \in 0..2 * MaxHeals + 2
        /\ 0 \in 0..(HealPolls + BusyRetries + ReadyPolls)
    BY BudgetTypes
  <2>2. /\ ran \in [Procs -> 0..2 * MaxHeals + 2] /\ heals \in [Procs -> 0..MaxHeals]
        /\ rounds \in [Procs -> 0..(HealPolls + BusyRetries + ReadyPolls)]
    BY <2>1 DEF ClientInit
  <2>3. at \in [Procs -> Places] /\ stood \in [Procs -> BOOLEAN]
    BY <1>3 DEF ClientInit
  <2> QED
    BY <2>2, <2>3 DEF ClientInit, CoreTypes
<1>5. RelayTypes
  <2>1. fresh \in [Procs -> BOOLEAN]
    BY DEF ClientInit
  <2> QED
    BY <2>1 DEF ClientInit, RelayTypes
<1>6. Slots
  <2>1. Relayed = {}
    BY <1>1 DEF Relayed
  <2>2. Cardinality(Relayed) = 0
    BY <2>1, FS_EmptySet
  <2> QED
    BY <2>2, QueryHeldIs, BudgetTypes DEF Slots, SlotsHeld, ClientInit
<1>7. Core
  BY <1>1, <1>2, BudgetTypes
  DEF Core, Linked, Budgeted, ServerLatch, StoodBlocked, ClientsOnlyCall, ClientInit, Procs
<1> QED
  BY <1>4, <1>5, <1>6, <1>7, InvParts

LEMMA StutterKeeps ==
    ASSUME ClientInv, UNCHANGED clientVars
    PROVE  ClientInv'
<1>1. UNCHANGED <<server, latch, watch, boxed, bridge, tokenFile, lingering, waiting, at, line,
                  fresh, flight, ran, heals, rounds, proc, stood>>
  BY DEF clientVars, env, relay, calls
<1>2. RelayTypes' /\ Slots'
  BY <1>1, RelayTypesKept, SlotsUnmoved
<1> QED
  BY <1>1, <1>2, RelayKeeps DEF env

(* The steps in which a client may come to sleep, or an operator to stop a *)
(* server, are answers.                                                    *)
LEMMA ActsKeeps ==
    ASSUME ClientInv, NEW p \in Procs, Acts(p)
    PROVE  /\ ClientInv'
           /\ \/ Told(p) \/ Passed(p) \/ Advances(p)
              \/ Wake(p) \/ ReadStatus(p) \/ Join(p) \/ LookAtProc(p) \/ StopOwner(p) \/ Spawn(p)
<1>1. CASE Ask(p) \/ Submit(p) \/ Answer(p)
  BY <1>1, AskKeeps, SubmitKeeps, AnswerKeeps
<1>2. CASE ReadToken(p) \/ Dial(p) \/ Admit(p)
  BY <1>2, ReadTokenKeeps, DialKeeps, AdmitKeeps
<1>3. CASE RelayControl(p) \/ RelayCommand(p) \/ RelayAnswer(p)
  BY <1>3, RelayedAnswers
<1>4. CASE DialTimesOut(p) \/ CutOff(p)
  BY <1>4, LineEnds
<1>5. CASE Wake(p) \/ ReadStatus(p) \/ Join(p)
  BY <1>5, WakeKeeps, ReadStatusKeeps, JoinKeeps
<1>6. CASE LookAtProc(p) \/ StopOwner(p) \/ Spawn(p)
  BY <1>6, LookAtProcKeeps, StopOwnerKeeps, SpawnKeeps
<1> QED
  BY <1>1, <1>2, <1>3, <1>4, <1>5, <1>6 DEF Acts

LEMMA ClientInvKept ==
    ASSUME ClientInv, [ClientNext]_clientVars
    PROVE  ClientInv'
<1>1. ASSUME NEW p \in Procs, Begin(p) \/ Returns(p) \/ Acts(p) \/ Execute(p)
      PROVE  ClientInv'
  BY <1>1, BeginKeeps, ReturnsKeeps, ActsKeeps, ExecuteKeeps
<1>2. CASE SlotReleased \/ ThreadEnds \/ BridgeBinds \/ BridgePublishes
  BY <1>2, RelayAloneKeeps
<1>3. CASE Starts \/ Approved \/ LoginEnds \/ Reconnects \/ ReconnectEnds \/ Stalls
             \/ OlderStarts \/ Publishes
  BY <1>3, EnvironmentKeeps
<1>4. CASE Dies
  BY <1>4, DiesKeeps
<1>5. CASE BridgeEnds
  BY <1>5, BridgeEndsKeeps
<1>6. CASE UNCHANGED clientVars
  BY <1>6, StutterKeeps
<1> QED
  BY <1>1, <1>2, <1>3, <1>4, <1>5, <1>6 DEF ClientNext, Environment

THEOREM ClientInvHolds == ClientSpec => []ClientInv
<1>1. ClientInit => ClientInv
  BY ClientInitHolds
<1>2. ClientInv /\ [ClientNext]_clientVars => ClientInv'
  BY ClientInvKept
<1> QED
  BY <1>1, <1>2, PTL DEF ClientSpec

(* The variables of the client library and of the relay keep their types,  *)
(* and the relay never has more threads past authentication than slots.    *)
THEOREM ClientTypeCorrect == ClientSpec => [](ClientTypeOK /\ QueryHeld <= QuerySlots)
<1>1. ClientInv => ClientTypeOK /\ QueryHeld <= QuerySlots
  BY DEF ClientInv, SlotsHeld
<1> QED
  BY <1>1, ClientInvHolds, PTL

(* A statement is executed once for the call and once for every re-send    *)
(* after a lost endpoint: nothing else in _checked_request(), the relay or *)
(* a restart of the daemon repeats it.                                     *)
THEOREM ReplayBoundedHolds == ClientSpec => []ReplayBounded
<1>1. ClientInv => ReplayBounded
  BY DEF ClientInv, Budgeted, ReplayBounded, Procs
<1> QED
  BY <1>1, ClientInvHolds, PTL

-----------------------------------------------------------------------------
(* What the steps may do *)

LEMMA ToldNaps ==
    ASSUME ClientInv, NEW p \in Procs, Told(p), at'[p] = <<"await", "nap">>
    PROVE  ~stood'[p]
<1>1. PICK answer : Served(p, answer)
  BY DEF Told
<1>2. PICK place, step : MovesTo(p, place, step) /\ Fits(p, answer, place, step, heals'[p])
  BY <1>1, ServedEffect DEF Lands
<1>3. place = "await" /\ step = "nap"
  BY <1>2, NapsNext DEF MovesTo
<1>4. /\ Place(p) = "await" /\ Step(p) \in {"auth hello", "auth"} /\ ~Latched(answer)
      /\ ~(Step(p) = "auth hello" /\ answer = "ok")
  BY <1>2, <1>3 DEF Fits
<1>5. Plausible(p, answer) /\ ServerLatch /\ StoodBlocked
  BY <1>1 DEF Served, ClientInv
<1> SUFFICES ASSUME stood'[p] PROVE FALSE
  OBVIOUS
<1>6. stood[p] /\ answer # "busy"
  <2>1. at'[p] \notin {<<"await", "ping hello">>, <<"unblock", "stop">>}
    OBVIOUS
  <2> QED
    BY <1>1, <2>1, ServedEffect
<1>7. server \in {"latched", "down", "older"} /\ latch = "blocked"
  BY <1>4, <1>5, <1>6 DEF ServerLatch, StoodBlocked
<1>8. answer \in {"ok", "unhealthy"}
  BY <1>4, <1>5, <1>6, <1>7 DEF Plausible, Latched
<1> QED
  BY <1>4, <1>5, <1>7, <1>8 DEF Plausible

(* Nobody else moves. *)
LEMMA OthersStay ==
    ASSUME ClientInv, NEW p \in Procs, Begin(p) \/ Returns(p) \/ Acts(p) \/ Execute(p)
    PROVE  \A q \in Procs \ {p} : at'[q] = at[q]
<1>1. at \in [Procs -> Places]
  BY InvParts DEF CoreTypes
<1>2. CASE Told(p)
  <2>1. PICK answer : Served(p, answer)
    BY <1>2 DEF Told
  <2> QED
    BY <2>1, ServedEffect DEF Lands, MovesTo
<1>3. CASE Passed(p) \/ Advances(p) \/ Execute(p)
  BY <1>3 DEF Passed, Reaches, Advances, Keeps, Execute
<1>4. CASE Begin(p)
  BY <1>1, <1>4 DEF Begin, GoTo
<1>5. CASE Returns(p)
  BY <1>1, <1>5 DEF Returns
<1>6. CASE Wake(p)
  BY <1>1, <1>6 DEF Wake, GoTo, Counting, Ends
<1>7. CASE ReadStatus(p) \/ Join(p)
  BY <1>1, <1>7 DEF ReadStatus, Join, GoTo, Ends
<1>8. CASE LookAtProc(p) \/ StopOwner(p) \/ Spawn(p)
  BY <1>1, <1>8 DEF LookAtProc, StopOwner, Spawn, GoTo, Ends
<1> QED
  BY <1>2, <1>3, <1>4, <1>5, <1>6, <1>7, <1>8, ActsKeeps

LEMMA EnvironmentStays ==
    ASSUME SlotReleased \/ ThreadEnds \/ Environment \/ UNCHANGED clientVars
    PROVE  UNCHANGED at
  BY DEF SlotReleased, ThreadEnds, Environment, Starts, Approved, LoginEnds, Reconnects,
         ReconnectEnds, Stalls, OlderStarts, Dies, Publishes, BridgeBinds, BridgePublishes,
         BridgeEnds, Others, calls, clientVars

LEMMA NapStep ==
    ASSUME ClientInv, [ClientNext]_clientVars, NEW p \in Clients,
           at'[p] = <<"await", "nap">>, at[p] # at'[p]
    PROVE  ~stood'[p]
<1>1. p \in Procs
  BY DEF Procs
<1>2. PICK q \in Procs : Begin(q) \/ Returns(q) \/ Acts(q) \/ Execute(q)
  BY EnvironmentStays DEF ClientNext
<1>3. q = p
  BY <1>1, <1>2, OthersStay
<1>4. ~Execute(p) /\ ~Passed(p) /\ ~Advances(p)
  BY DEF Execute, Passed, Reaches, Advances, Keeps
<1>5. Place(p)' = "await" /\ Step(p)' = "nap"
  BY NapsNext
<1>6. ~Begin(p)
  <2> SUFFICES ASSUME Begin(p) PROVE FALSE
    OBVIOUS
  <2>1. at' = [at EXCEPT ![p] = <<"call", "hello">>]
    BY DEF Begin, GoTo
  <2>2. MovesTo(p, "call", "hello")
    BY <1>1, <2>1, Moved, PlacesAre DEF ClientInv, CallSteps
  <2> QED
    BY <1>5, <2>2 DEF MovesTo
<1>7. ~Returns(p)
  <2> SUFFICES ASSUME Returns(p) PROVE FALSE
    OBVIOUS
  <2>1. MovesTo(p, "idle", "-")
    BY <1>1, Moved, PlacesAre DEF ClientInv, Returns
  <2> QED
    BY <1>5, <2>1 DEF MovesTo
<1>8. ~Wake(p) /\ ~ReadStatus(p)
  BY <1>1, WakeKeeps, ReadStatusKeeps
<1>9. ~Join(p) /\ ~LookAtProc(p) /\ ~StopOwner(p) /\ ~Spawn(p)
  BY <1>1, JoinKeeps, LookAtProcKeeps, StopOwnerKeeps, SpawnKeeps
<1>10. Told(p)
  BY <1>1, <1>2, <1>3, <1>4, <1>6, <1>7, <1>8, <1>9, ActsKeeps
<1> QED
  BY <1>1, <1>10, ToldNaps

(* A client of wrds_await_service() does not sleep again on a latch that   *)
(* stood through its whole poll, whoever wrote it and whether or not that  *)
(* daemon still lives.                                                     *)
THEOREM LatchEndsWaitHolds == ClientSpec => LatchEndsWait
<1>1. ClientInv /\ [ClientNext]_clientVars =>
        [\A p \in Clients : at'[p] = <<"await", "nap">> /\ at[p] # at'[p] => ~stood'[p]]_clientVars
  BY NapStep
<1> QED
  BY <1>1, ClientInvHolds, PTL DEF ClientSpec, LatchEndsWait

-----------------------------------------------------------------------------
(* The operator's command *)

(* Who is about to stop the server was told that it has latched; the latch *)
(* stands as long as no other operator approves a login.                   *)
StopInv == \A p \in Hosts : Step(p) = "stop" /\ stood[p] => latch = "blocked"

LEMMA StoppingOnlyStops ==
    ASSUME ClientInv, NEW p \in Procs, Step(p) = "stop",
           Begin(p) \/ Returns(p) \/ Acts(p) \/ Execute(p)
    PROVE  StopOwner(p)
<1>1. Place(p) = "unblock"
  BY PlaceIs DEF ClientInv, CallSteps, AwaitSteps, ReadySteps, StartSteps, Outcomes, Waits
<1>2. ~Asks(p) /\ ~Commands(p)
  BY CommandsIs DEF Asks, Waits
<1>3. ~Told(p) /\ ~Passed(p) /\ ~Advances(p)
  BY <1>2 DEF Told, Served, Passed, Advances
<1>4. ~Execute(p)
  BY <1>2 DEF Execute, ClientInv, Linked
<1>5. ~Begin(p) /\ ~Returns(p)
  BY <1>1 DEF Begin, Returns
<1>6. ~Wake(p)
  <2>1. at[p] = <<"await", "nap">> \/ at[p] = <<"ready", "nap">> => Step(p) = "nap"
    BY DEF Step
  <2> QED
    BY <2>1 DEF Wake
<1>7. ~ReadStatus(p) /\ ~Join(p) /\ ~LookAtProc(p) /\ ~Spawn(p)
  BY DEF ReadStatus, Join, LookAtProc, Spawn
<1> QED
  BY <1>3, <1>4, <1>5, <1>6, <1>7, ActsKeeps

(* The only way to the stop is an answer of a server that has latched.     *)
LEMMA StopReached ==
    ASSUME ClientInv, NEW p \in Procs, Begin(p) \/ Returns(p) \/ Acts(p) \/ Execute(p),
           Step(p)' = "stop"
    PROVE  latch' = "blocked"
<1>1. at \in [Procs -> Places] /\ ClientTypeOK
  BY InvParts DEF CoreTypes, ClientInv
<1>m. ASSUME NEW place, NEW step, at' = [at EXCEPT ![p] = <<place, step>>]
      PROVE  step = "stop"
  BY <1>1, <1>m DEF Step
<1>2. CASE Told(p)
  <2>1. PICK answer : Served(p, answer)
    BY <1>2 DEF Told
  <2>2. PICK place, step : MovesTo(p, place, step) /\ Fits(p, answer, place, step, heals'[p])
    BY <2>1, ServedEffect DEF Lands
  <2>3. answer = "auth"
    BY <2>2 DEF MovesTo, Fits
  <2>4. latch = "blocked" /\ latch' = latch
    BY <2>1, <2>3 DEF Served, Plausible, ClientInv, ServerLatch, env
  <2> QED
    BY <2>4
<1>3. CASE Step(p) = "stop"
  <2>1. StopOwner(p)
    BY <1>3, StoppingOnlyStops
  <2>2. Step(p)' # "stop"
    BY <1>1, <2>1 DEF StopOwner, GoTo, Ends, Step
  <2> QED
    BY <2>2
<1>4. CASE Passed(p) \/ Advances(p) \/ Execute(p)
  <2>1. UNCHANGED at
    BY <1>4 DEF Passed, Reaches, Advances, Keeps, Execute
  <2>2. Step(p)' = Step(p)
    BY <2>1 DEF Step
  <2> QED
    BY <1>3, <2>2
<1>5. ~Begin(p)
  BY <1>m DEF Begin, GoTo
<1>6. ~Returns(p)
  BY <1>m DEF Returns
<1>7. ~Wake(p)
  BY <1>m DEF Wake, GoTo, Counting, Ends
<1>8. ~ReadStatus(p) /\ ~Join(p)
  BY <1>m DEF ReadStatus, Join, GoTo, Ends
<1>9. ~LookAtProc(p) /\ ~Spawn(p)
  BY <1>m DEF LookAtProc, Spawn, GoTo, Ends
<1>10. ~StopOwner(p)
  BY <1>m DEF StopOwner, GoTo, Ends
<1> QED
  BY <1>2, <1>4, <1>5, <1>6, <1>7, <1>8, <1>9, <1>10, ActsKeeps

(* Whatever another process does: nobody approves a login, and then the    *)
(* latch that blocks stays, or the history of everybody is over.           *)
LEMMA StepsKeepBlocked ==
    ASSUME ClientInv, NEW q \in Procs, NEW h \in Procs \ {q}, stood'[h],
           Begin(q) \/ Returns(q) \/ Acts(q) \/ Execute(q)
    PROVE  stood[h] /\ (latch = "blocked" => latch' = "blocked")
<1>1. stood \in [Procs -> BOOLEAN]
  BY DEF ClientInv, ClientTypeOK
<1>2. CASE Told(q)
  <2>1. PICK answer : Served(q, answer)
    BY <1>2 DEF Told
  <2>2. stood'[h] = stood[h] /\ UNCHANGED latch
    BY <2>1, ServedEffect
  <2> QED
    BY <2>2
<1>3. CASE Passed(q) \/ Advances(q) \/ Execute(q) \/ Begin(q)
  BY <1>3 DEF Passed, Reaches, Advances, Keeps, Execute, Begin, env
<1>4. CASE Returns(q) \/ Wake(q)
  <2>1. PICK value : stood' = [stood EXCEPT ![q] = value]
    BY <1>4 DEF Returns, Wake
  <2>2. UNCHANGED latch
    BY <1>4 DEF Returns, Wake, env
  <2> QED
    BY <1>1, <2>1, <2>2
<1>5. CASE ReadStatus(q) \/ Join(q) \/ LookAtProc(q)
  BY <1>5 DEF ReadStatus, Join, LookAtProc, env
<1>6. CASE StopOwner(q)
  BY <1>6 DEF StopOwner, Ended
<1>7. CASE Spawn(q)
  BY <1>7 DEF Spawn
<1> QED
  BY <1>2, <1>3, <1>4, <1>5, <1>6, <1>7, ActsKeeps

LEMMA EnvironmentKeepsBlocked ==
    ASSUME ClientInv, NEW h \in Procs, stood'[h],
           SlotReleased \/ ThreadEnds \/ Environment \/ UNCHANGED clientVars
    PROVE  stood[h] /\ (latch = "blocked" => latch' = "blocked")
<1>1. ~Approved
  BY DEF Approved
<1>2. ServerLatch
  BY DEF ClientInv
<1>3. CASE SlotReleased \/ ThreadEnds \/ BridgeBinds \/ BridgePublishes \/ BridgeEnds
           \/ UNCHANGED clientVars
  BY <1>3 DEF SlotReleased, ThreadEnds, BridgeBinds, BridgePublishes, BridgeEnds, env, calls,
              clientVars
<1>4. CASE Starts \/ LoginEnds \/ Reconnects \/ ReconnectEnds \/ Stalls \/ OlderStarts \/ Publishes
  BY <1>2, <1>4 DEF Starts, LoginEnds, Reconnects, ReconnectEnds, Stalls, OlderStarts, Publishes,
                    Others, calls, ServerLatch
<1>5. CASE Dies
  BY <1>5 DEF Dies, Ended
<1> QED
  BY <1>1, <1>3, <1>4, <1>5 DEF Environment

LEMMA StopInvKept ==
    ASSUME ClientInv, StopInv, [ClientNext]_clientVars
    PROVE  StopInv'
<1> SUFFICES ASSUME NEW h \in Hosts, Step(h)' = "stop", stood'[h] PROVE latch' = "blocked"
  BY DEF StopInv
<1>1. h \in Procs
  BY DEF Procs
<1>2. CASE SlotReleased \/ ThreadEnds \/ Environment \/ UNCHANGED clientVars
  <2>1. Step(h) = "stop"
    BY <1>2, EnvironmentStays DEF Step
  <2>2. stood[h] /\ (latch = "blocked" => latch' = "blocked")
    BY <1>1, <1>2, EnvironmentKeepsBlocked
  <2> QED
    BY <2>1, <2>2 DEF StopInv
<1>3. ASSUME NEW q \in Procs, Begin(q) \/ Returns(q) \/ Acts(q) \/ Execute(q)
      PROVE  latch' = "blocked"
  <2>1. CASE q = h
    <3>1. Begin(h) \/ Returns(h) \/ Acts(h) \/ Execute(h)
      BY <1>3, <2>1
    <3> QED
      BY <1>1, <3>1, StopReached
  <2>2. CASE q # h
    <3>1. Step(h) = "stop"
      BY <1>1, <1>3, <2>2, OthersStay DEF Step
    <3>2. stood[h] /\ (latch = "blocked" => latch' = "blocked")
      BY <1>1, <1>3, <2>2, StepsKeepBlocked
    <3> QED
      BY <3>1, <3>2 DEF StopInv
  <2> QED
    BY <2>1, <2>2
<1> QED
  BY <1>2, <1>3 DEF ClientNext

LEMMA StopStep ==
    ASSUME ClientInv, StopInv, [ClientNext]_clientVars, NEW p \in Hosts,
           Step(p) = "stop", Step(p)' = "spawn", server' = "down", stood[p]
    PROVE  server \in {"latched", "down"}
<1>1. p \in Procs /\ ServerLatch /\ latch = "blocked"
  BY DEF Procs, ClientInv, StopInv
<1>2. CASE SlotReleased \/ ThreadEnds \/ Environment \/ UNCHANGED clientVars
  <2>1. Step(p)' = Step(p)
    BY <1>2, EnvironmentStays DEF Step
  <2> QED
    BY <2>1
<1>3. ASSUME NEW q \in Procs, Begin(q) \/ Returns(q) \/ Acts(q) \/ Execute(q)
      PROVE  server \in {"latched", "down"}
  <2>1. CASE q = p
    <3>1. Begin(p) \/ Returns(p) \/ Acts(p) \/ Execute(p)
      BY <1>3, <2>1
    <3>2. StopOwner(p)
      BY <1>1, <3>1, StoppingOnlyStops
    <3> QED
      BY <1>1, <3>2 DEF StopOwner, ServerLatch
  <2>2. CASE q # p
    <3>1. Step(p)' = Step(p)
      BY <1>1, <1>3, <2>2, OthersStay DEF Step
    <3> QED
      BY <3>1
  <2> QED
    BY <2>1, <2>2
<1> QED
  BY <1>2, <1>3 DEF ClientNext

(* wrds_unblock() stops a server that has latched, and no other, for any   *)
(* number of operators, unless one of them approves a login between the    *)
(* answer and the stop of another.                                         *)
THEOREM UnblockStopsLatchedHolds == ClientSpec => UnblockStopsLatched
<1>1. ClientInit => StopInv
  BY DEF ClientInit, StopInv, Step, Procs
<1>2. ClientInv /\ StopInv /\ [ClientNext]_clientVars => StopInv'
  BY StopInvKept
<1>3. ClientInv /\ StopInv /\ [ClientNext]_clientVars =>
        [\A p \in Hosts : Step(p) = "stop" /\ Step(p)' = "spawn" /\ server' = "down" /\ stood[p]
                          => server \in {"latched", "down"}]_clientVars
  BY StopStep
<1> QED
  BY <1>1, <1>2, <1>3, ClientInvHolds, PTL DEF ClientSpec, UnblockStopsLatched
=============================================================================
