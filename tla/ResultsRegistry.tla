--------------------------- MODULE ResultsRegistry ---------------------------
(***************************************************************************)
(* The lifecycle rules of results_pipeline.py: which attempt may be run,   *)
(* rendered, activated and retired, alone or as a pair of an analysis and  *)
(* its dataset release, which evidence may be cited as an operand, and     *)
(* when the paper audit accepts what is active.                            *)
(*                                                                         *)
(* Every command is one step: it holds the project lock, and               *)
(* ResultsTransaction shows that it publishes as a whole or not at all.    *)
(* Between two commands an agent may edit shared sources (Edit, Restore),  *)
(* lose an exhibit (Damage) or move the accepted data rights               *)
(* (AdvanceRights).  The bytes of registered receipts, plans and           *)
(* specifications are not edited: while they differ no command gets past   *)
(* load_registry.                                                          *)
(***************************************************************************)
EXTENDS Naturals, FiniteSets

CONSTANTS
    Receipts,   \* receipt paths, each good for one attempt
    None,       \* no receipt
    Data,       \* data sources of dataset releases
    Modes,      \* what flags.manual of the deployment may be
    MaxNamed,   \* bound: receipts an attempt supersedes, and that it cites
    MaxEdits    \* bound: what agents do to sources, exhibits and rights

ASSUME ReceiptsAssumption == IsFiniteSet(Receipts)

ASSUME NoneAssumption == None \notin Receipts

ASSUME ModesAssumption == Modes \subseteq BOOLEAN

ASSUME BoundAssumption == MaxNamed \in Nat /\ MaxEdits \in Nat

VARIABLES
    receipt,     \* what each receipt records
    active,      \* registry["active"]
    pending,     \* registry["pending"], as the set of its receipts
    retired,     \* registry["retired"], likewise
    successor,   \* "superseded_by" of the retired ones
    stale,       \* receipts that declare a source which has been edited since
    damaged,     \* receipts with an exhibit that is not as recorded
    accepted,    \* the rights inventory Gate 2 accepts: its version, and the
                 \* data sources it classifies as open; or none, where a
                 \* manual caller brings the inventories
    edits        \* edits so far

registry == <<active, pending, retired, successor>>
files == <<stale, damaged, accepted, edits>>
vars == <<receipt, registry, files>>

Roles == {"plain", "analysis", "release"}

(* A receipt that no command has published. *)
Blank == [role |-> "plain", analysis |-> None, supersedes |-> {}, operands |-> {},
          rendered |-> FALSE, rights |-> 0, data |-> {}]

Attempt == [role: Roles, analysis: Receipts \cup {None},
            supersedes: SUBSET Receipts, operands: SUBSET Receipts,
            rendered: BOOLEAN, rights: 0..MaxEdits, data: SUBSET Data]

Named(S) == {n \in SUBSET S : Cardinality(n) <= MaxNamed}

Published == active \cup pending \cup retired

(* command_init_registry() *)
Init ==
    /\ receipt = [r \in Receipts |-> Blank]
    /\ active = {} /\ pending = {} /\ retired = {}
    /\ successor = [r \in Receipts |-> None]
    /\ stale = {} /\ damaged = {} /\ edits = 0
    /\ accepted \in [manual: Modes, version: {0}, open: {Data}]

-----------------------------------------------------------------------------
(* Pairs, handoffs and operands *)

IsRelease(r) == receipt[r].role = "release"
IsAnalysis(r) == receipt[r].role = "analysis"

(* derive_registry_dataset_release_pairs(): the releases in S of analysis a *)
ReleasesOf(a, S) == {r \in S : IsRelease(r) /\ receipt[r].analysis = a}

(* The part of _validate_registry_value() that relates entries. *)
Loads(act, pend) ==
    /\ \A r \in pend : receipt[r].supersedes \subseteq act
    /\ \A a \in act : IsAnalysis(a) => Cardinality(ReleasesOf(a, act)) = 1
    /\ \A r \in act : IsRelease(r) => receipt[r].analysis \in act
    /\ \A a \in pend : Cardinality(ReleasesOf(a, pend)) <= 1
    /\ \A r \in pend : IsRelease(r) => receipt[r].analysis \in pend

(* What can be reached from S in any number of steps. *)
Closure(next, S) ==
    LET within[n \in 0..Cardinality(Receipts) - 1] ==
            IF n = 0 THEN S
            ELSE LET nearer == within[n - 1]
                 IN  nearer \cup UNION {next[r] : r \in nearer}
    IN  within[Cardinality(Receipts) - 1]

(* The receipts that were handed on, link by link, to one of S, with S. *)
Heirs(S) == Closure([s \in Receipts |-> {r \in retired : successor[r] = s}], S)

(* empirical_operand_handoff_terminals(), empirical_operand_eligible_receipts() *)
Eligible == Heirs(active)

(* empirical_operand_receipt_closure() *)
Cited(ops) == Closure([r \in Receipts |-> receipt[r].operands], ops)

(* Mutant: only operands that are active themselves are noticed. *)
DirectDependents(targets) ==
    {d \in active \ targets : Cited(receipt[d].operands) \cap targets # {}}

(* active_empirical_operand_dependents() *)
Dependents(targets) ==
    LET heirs == Heirs(targets)
    IN  {d \in active \ targets : Cited(receipt[d].operands) \cap heirs # {}}

-----------------------------------------------------------------------------
(* verify_receipt() *)

(* empirical_operand_snapshot_failures() and eligibility, down the operands *)
OperandsSound(ops) ==
    Cited(ops) \subseteq Eligible \ (stale \cup damaged)

(* Mutant: the inventory is only compared with the digest in the plan. *)
OwnRightsStand(r) == r \notin stale

(* _validate_dataset_rights_authority(): the inventory that the plan names *)
(* is the one Gate 2 accepts for the current version.  In a manual         *)
(* deployment its bytes are those of the plan's digest, and nothing else   *)
(* is asked of it; the inventory is one of the release's own sources.      *)
RightsStand(r) ==
    IF accepted.manual THEN r \notin stale ELSE receipt[r].rights = accepted.version

(* Everything but the render record. *)
ProducerSound(r) ==
    /\ r \notin stale
    /\ IsRelease(r) => RightsStand(r)
    /\ OperandsSound(receipt[r].operands)

Sound(r) == ProducerSound(r) /\ receipt[r].rendered /\ r \notin damaged

(* command_run(): an active receipt that may be replaced is excused for    *)
(* its sources, a release that is being replaced for its rights.           *)
SoundEnough(r, excused, released) ==
    /\ r \in stale => excused /\ ~IsRelease(r)
    /\ IsRelease(r) /\ ~RightsStand(r) => r \in released
    /\ OperandsSound(receipt[r].operands)
    /\ receipt[r].rendered /\ r \notin damaged

-----------------------------------------------------------------------------
(* command_run(), command_render() *)

(* validate_dataset_release_pair_supersession() *)
Mirrors(olds, oldReleases) ==
    /\ \A o \in olds : IsAnalysis(o) /\ Cardinality(ReleasesOf(o, active)) = 1
    /\ \A r \in oldReleases : IsRelease(r) /\ receipt[r].analysis \in olds
    /\ oldReleases = UNION {ReleasesOf(o, active) : o \in olds}

(* Mutant: any pending receipt makes room for a release. *)
AnyTurn(role, a) ==
    IF role = "release" THEN a \in pending ELSE pending = {}

(* validate_registration_plan(): nothing is pending but the analysis that  *)
(* a release is bound to.                                                  *)
Turn(role, a) ==
    IF role = "release"
    THEN /\ pending = {a}
         /\ IsAnalysis(a) /\ Sound(a)
    ELSE pending = {}

(* validate_run_plan(), validate_empirical_plan(): a release names one     *)
(* analysis and cites nothing.                                             *)
PlanStands(role, a, ops) ==
    IF role = "release" THEN a # None /\ ops = {} ELSE a = None

(* What the inventory of a plan may classify as open; a manual caller      *)
(* names any.                                                              *)
Opened == IF accepted.manual THEN Data ELSE accepted.open

(* _validate_dataset_release_sources(): every input of a release is open.  *)
InputsCleared(role, inputs) ==
    IF role = "release" THEN inputs # {} /\ inputs \subseteq Opened
    ELSE inputs = {}

(* _validate_staged_dataset_release(): so is every file of it, and its     *)
(* sources are among those of the inputs.                                  *)
FilesCleared(role, inputs, data) ==
    IF role = "release" THEN data # {} /\ data \subseteq inputs \cap Opened
    ELSE data = {}

(* The predecessors an attempt may name. *)
MaySupersede(role, a, sup) ==
    /\ sup \subseteq active
    /\ CASE role = "plain" -> \A s \in sup : receipt[s].role = "plain"
         [] role = "analysis" -> \A s \in sup : IsAnalysis(s)
         [] role = "release" -> Mirrors(receipt[a].supersedes, sup)

(* The active evidence that must hold while the producer runs. *)
ActiveSound(role, a, sup) ==
    LET olds == IF role = "release" THEN receipt[a].supersedes ELSE {}
        released == CASE role = "plain" -> {}
                      [] role = "analysis" -> UNION {ReleasesOf(s, active) : s \in sup}
                      [] role = "release" -> sup
    IN  \A r \in active : SoundEnough(r, sup \cup olds # {}, released)

MayRun(role, a, sup, ops) ==
    /\ PlanStands(role, a, ops)
    /\ Turn(role, a)
    /\ MaySupersede(role, a, sup)
    /\ OperandsSound(ops)
    /\ ActiveSound(role, a, sup)

(* A path without lifecycle history; which one makes no difference. *)
FreshPath == CHOOSE r \in Receipts : r \notin Published

(* The exhibits of the attempt are still to be rendered. *)
Run(role, a, sup, ops, inputs, data) ==
    /\ InputsCleared(role, inputs) /\ FilesCleared(role, inputs, data)
    /\ MayRun(role, a, sup, ops)
    /\ receipt' = [receipt EXCEPT ![FreshPath] = [role |-> role, analysis |-> a,
                      supersedes |-> sup, operands |-> ops, rendered |-> FALSE,
                      rights |-> IF role = "release" THEN accepted.version ELSE 0,
                      data |-> data]]
    /\ pending' = pending \cup {FreshPath}
    /\ UNCHANGED <<active, retired, successor, files>>

RenderPending(r) ==
    /\ r \in pending /\ ProducerSound(r)
    /\ receipt' = [receipt EXCEPT ![r].rendered = TRUE]
    /\ damaged' = damaged \ {r}
    /\ UNCHANGED <<registry, stale, accepted, edits>>

(* The same command on the same evidence gives the same bytes. *)
Rerender(r) ==
    /\ r \in active /\ ProducerSound(r)
    /\ damaged' = damaged \ {r}
    /\ UNCHANGED <<receipt, registry, stale, accepted, edits>>

-----------------------------------------------------------------------------
(* command_activate(), command_activate_pair() *)

MayActivate(r) ==
    /\ r \in pending /\ receipt[r].role = "plain"
    /\ Sound(r)
    /\ receipt[r].supersedes \subseteq active
    /\ Loads(active \cup {r}, pending \ {r})

Activate(r) ==
    /\ MayActivate(r)
    /\ active' = active \cup {r} /\ pending' = pending \ {r}
    /\ UNCHANGED <<receipt, retired, successor, files>>

ActivatePair(a, r) ==
    /\ a \in pending /\ r \in ReleasesOf(a, pending)
    /\ Sound(a) /\ Sound(r)
    /\ IsAnalysis(a)
    /\ Mirrors(receipt[a].supersedes, receipt[r].supersedes)
    /\ receipt[a].supersedes \cup receipt[r].supersedes \subseteq active
    /\ Loads(active \cup {a, r}, pending \ {a, r})
    /\ active' = active \cup {a, r} /\ pending' = pending \ {a, r}
    /\ UNCHANGED <<receipt, retired, successor, files>>

-----------------------------------------------------------------------------
(* command_retire(), command_retire_pair() *)

(* The active receipts that declare r as their predecessor. *)
Replacements(r, S) == {s \in S \ {r} : r \in receipt[s].supersedes}

(* No pending attempt counts on r, and no active comparison is stranded. *)
MayLeave(targets, by) ==
    /\ \A d \in active \ targets : Cited(receipt[d].operands) \subseteq Eligible
    /\ by = None => Dependents(targets) = {}
    /\ \A p \in pending : receipt[p].supersedes \cap targets = {}

MayRetire(r, by) ==
    \/ /\ r \in pending /\ ReleasesOf(r, pending) = {}
       /\ by = None
       /\ Loads(active, pending \ {r})
    \/ /\ r \in active /\ receipt[r].role = "plain"
       /\ MayLeave({r}, by)
       /\ IF Replacements(r, active) = {} THEN by = None
          ELSE by \in Replacements(r, active)
       /\ Loads(active \ {r}, pending)

Retire(r, by) ==
    /\ MayRetire(r, by)
    /\ active' = active \ {r} /\ pending' = pending \ {r}
    /\ retired' = retired \cup {r}
    /\ successor' = [successor EXCEPT ![r] = by]
    /\ UNCHANGED <<receipt, files>>

(* Mutant: half of a replacement pair is enough. *)
HalfPair(a, r, byA, byR) ==
    /\ byA \in Replacements(a, active \ {r})
    /\ byR \in Receipts

MatchingPair(a, r, byA, byR) ==
    /\ byA \in Replacements(a, active \ {r})
    /\ byR \in Replacements(r, active \ {a})
    /\ byR \in ReleasesOf(byA, active)

MayRetirePair(a, r, byA, byR) ==
    \/ /\ a \in pending /\ r \in ReleasesOf(a, pending)
       /\ byA = None /\ byR = None
       /\ Loads(active, pending \ {a, r})
    \/ /\ a \in active /\ r \in ReleasesOf(a, active)
       /\ MayLeave({a, r}, byA)
       /\ IF Replacements(a, active \ {r}) \cup Replacements(r, active \ {a}) = {}
          THEN byA = None /\ byR = None
          ELSE MatchingPair(a, r, byA, byR)
       /\ Loads(active \ {a, r}, pending)

RetirePair(a, r, byA, byR) ==
    /\ MayRetirePair(a, r, byA, byR)
    /\ active' = active \ {a, r} /\ pending' = pending \ {a, r}
    /\ retired' = retired \cup {a, r}
    /\ successor' = [successor EXCEPT ![a] = byA, ![r] = byR]
    /\ UNCHANGED <<receipt, files>>

-----------------------------------------------------------------------------
(* What agents do to the files between commands *)

(* A source changes: one of a single attempt, or one that all declare. *)
Edit(S) ==
    /\ edits < MaxEdits /\ edits' = edits + 1
    /\ S # {}
    /\ stale' = stale \cup S
    /\ UNCHANGED <<receipt, registry, damaged, accepted>>

(* ... and everything edited is put back. *)
Restore ==
    /\ stale # {}
    /\ stale' = {}
    /\ UNCHANGED <<receipt, registry, damaged, accepted, edits>>

Damage(r) ==
    /\ edits < MaxEdits /\ edits' = edits + 1
    /\ r \in Published /\ receipt[r].rendered
    /\ damaged' = damaged \cup {r}
    /\ UNCHANGED <<receipt, registry, stale, accepted>>

(* Gate 2 accepts another rights inventory. *)
AdvanceRights ==
    /\ ~accepted.manual
    /\ edits < MaxEdits /\ edits' = edits + 1
    /\ \E open \in SUBSET Data :
          accepted' = [manual |-> FALSE, version |-> accepted.version + 1, open |-> open]
    /\ UNCHANGED <<receipt, registry, stale, damaged>>

Next ==
    \/ /\ Published # Receipts
       /\ \E role \in Roles, a \in pending \cup {None}, sup \in Named(active),
             ops \in Named(Published), inputs \in SUBSET Data : \E data \in SUBSET Data :
                Run(role, a, sup, ops, inputs, data)
    \/ \E r \in Published : \/ RenderPending(r) \/ Rerender(r) \/ Activate(r)
                            \/ Damage(r)
                            \/ \E by \in active \cup {None} : Retire(r, by)
    \/ \E a \in active \cup pending : \E r \in ReleasesOf(a, active \cup pending) :
          \/ ActivatePair(a, r)
          \/ \E byA, byR \in active \cup {None} : RetirePair(a, r, byA, byR)
    \/ \E S \in {Published} \cup {{r} : r \in Published} : Edit(S)
    \/ Restore
    \/ AdvanceRights

Spec == Init /\ [][Next]_vars

-----------------------------------------------------------------------------
(* Properties *)

(* The three lists of the registry are disjoint, and what is retired names *)
(* a successor only if it was active.                                      *)
TypeOK ==
    /\ receipt \in [Receipts -> Attempt]
    /\ active \subseteq Receipts /\ pending \subseteq Receipts
    /\ retired \subseteq Receipts
    /\ active \cap pending = {} /\ (active \cup pending) \cap retired = {}
    /\ successor \in [Receipts -> Receipts \cup {None}]
    /\ stale \subseteq Published /\ damaged \subseteq Published
    /\ accepted \in [manual: Modes, version: 0..MaxEdits, open: SUBSET Data]
    /\ edits \in 0..MaxEdits

(* Retirement strands no active comparison: whatever an active receipt     *)
(* cites, directly or through what it cites, is active or was handed on,   *)
(* link by link, to something active (results_evidence.md, "retirement     *)
(* cannot strand an active dependent").                                    *)
OperandsAnchored ==
    LET eligible == Eligible
    IN  \A d \in active : Cited(receipt[d].operands) \subseteq eligible

(* At most one attempt is pending, but for the release of that attempt:    *)
(* no other producer runs beside unreviewed evidence.                      *)
PendingAlone ==
    \A p, q \in pending :
        p # q => receipt[p].analysis = q \/ receipt[q].analysis = p

(* A pair is replaced as a pair.  The release of an active analysis        *)
(* supersedes exactly the releases of the analyses which that one          *)
(* supersedes, and where an analysis was handed on, one of its releases    *)
(* was handed on to the release of its successor.                          *)
PairsTravelTogether ==
    /\ \A r \in active : IsRelease(r) =>
          {receipt[q].analysis : q \in receipt[r].supersedes}
              = receipt[receipt[r].analysis].supersedes
    /\ \A a \in retired : IsAnalysis(a) /\ successor[a] # None =>
          \E r \in ReleasesOf(a, retired) :
              successor[r] \in ReleasesOf(successor[a], active \cup retired)

(* discover_result_receipts(): nothing is pending, and what an active      *)
(* receipt supersedes was retired in its favour.                           *)
Discoverable ==
    /\ pending = {}
    /\ \A s \in active : \A r \in receipt[s].supersedes :
          r \in retired /\ successor[r] = s

(* What the paper audit wants of the registry. *)
AuditAccepts == Discoverable /\ \A r \in active : Sound(r)

(* Where there is a Gate 2, no data source is in a release the audit       *)
(* passes unless the inventory that it accepts now classifies the source   *)
(* as open, however the inventory has moved since the release was built    *)
(* and whatever was superseded meanwhile ("every release byte has checked  *)
(* provenance").  A manual deployment promises no such thing: its release  *)
(* passes for as long as the inventory of its own plan is untouched.       *)
ReleasesCleared ==
    ~accepted.manual => \A r \in active :
        ~(receipt[r].data \subseteq accepted.open) => ~AuditAccepts

(* "A crash before retirement leaves both receipts recorded, and paper     *)
(* audit fails closed until handoff completes": when the audit accepts,    *)
(* nothing active was superseded by an attempt that was accepted.          *)
HandoffsComplete ==
    AuditAccepts => \A s \in Eligible : receipt[s].supersedes \cap active = {}

=============================================================================
