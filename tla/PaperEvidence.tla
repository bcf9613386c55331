---------------------------- MODULE PaperEvidence ----------------------------
(***************************************************************************)
(* The paper evidence gate of results_pipeline.py on top of the registry:  *)
(* prepare-audit freezes what is to be audited, two auditors work on it in *)
(* parallel and check before and after that it still stands, bind-paper    *)
(* records the outcome and verify-paper decides, at every later stage,     *)
(* whether it still holds.  Meanwhile agents go on editing the paper and   *)
(* using the registry: the gate itself holds the project lock only for one *)
(* command at a time.                                                      *)
(***************************************************************************)
EXTENDS ResultsRegistry

CONSTANTS
    Attempts,    \* audit attempts, each with artifact paths of its own
    Papers       \* contents the paper may have

ASSUME AuditAssumption == None \notin Attempts /\ Papers # {}

VARIABLES
    paper,       \* the paper with all it depends on
    input,       \* the audit input of each attempt
    report,      \* each auditor's PASS in each attempt: the digest it names,
                 \* and what was in place when the audit began and ended
    opened,      \* the attempt each auditor works on, and what was in place
    bound        \* the paper receipt

audit == <<input, report, opened, bound>>
paperVars == <<vars, paper, audit>>

Auditors == {"evidence", "citation"}

(* What an audit input records: the paper's files, the registry and the    *)
(* active receipts.  Its digest stands for the same.                       *)
Frozen == [paper |-> paper, registry |-> registry,
           receipts |-> [r \in active |-> receipt[r]]]

PaperInit ==
    /\ Init
    /\ paper \in Papers
    /\ input = [t \in Attempts |-> None]
    /\ report = [d \in Auditors |-> [t \in Attempts |-> None]]
    /\ opened = [d \in Auditors |-> None]
    /\ bound = None

-----------------------------------------------------------------------------
(* prepare-audit, before the auditors of the attempt are launched *)
Prepare(t) ==
    /\ \A d \in Auditors : opened[d] # None => opened[d].attempt # t
    /\ AuditAccepts
    /\ input' = [input EXCEPT ![t] = Frozen]
    /\ UNCHANGED <<vars, paper, report, opened, bound>>

(* Mutant: an audit input stands as long as the paper does. *)
PaperStands(i) == i # None /\ i.paper = paper /\ Discoverable

(* validate_audit_input() *)
InputStands(i) == i # None /\ i = Frozen /\ Discoverable

(* An auditor begins with verify-audit-input on the digest it was given ... *)
Open(d, t) ==
    /\ opened[d] = None /\ InputStands(input[t])
    /\ opened' = [opened EXCEPT ![d] = [attempt |-> t, first |-> Frozen]]
    /\ UNCHANGED <<vars, paper, input, report, bound>>

(* ... and writes PASS for that digest only when the same command succeeds *)
(* once more, else REVISE.                                                 *)
Close(d) ==
    /\ opened[d] # None
    /\ opened' = [opened EXCEPT ![d] = None]
    /\ LET t == opened[d].attempt
       IN  report' = [report EXCEPT ![d][t] =
               IF InputStands(input[t])
               THEN [digest |-> opened[d].first, seen |-> {opened[d].first, Frozen}]
               ELSE None]
    /\ UNCHANGED <<vars, paper, input, bound>>

(* The session ends while an auditor works. *)
Killed(d) ==
    /\ opened[d] # None
    /\ opened' = [opened EXCEPT ![d] = None]
    /\ UNCHANGED <<vars, paper, input, report, bound>>

(* validate_audit_report() and the summaries, which name the input's path *)
Passed(d, t, i) == report[d][t] # None /\ report[d][t].digest = i

(* Mutant: what was found sound at prepare-audit is not looked at again. *)
TrustingBind(t) ==
    /\ InputStands(input[t])
    /\ \A d \in Auditors : Passed(d, t, input[t])

(* bind-paper *)
MayBind(t) ==
    /\ AuditAccepts
    /\ InputStands(input[t])
    /\ \A d \in Auditors : Passed(d, t, input[t])

Bind(t) ==
    /\ MayBind(t)
    /\ bound' = [attempt |-> t, digest |-> input[t]]
    /\ UNCHANGED <<vars, paper, input, report, opened>>

(* verify-paper --rerender: the bound files are as they were, and still    *)
(* pass what they passed.                                                  *)
VerifyPasses ==
    /\ bound # None
    /\ input[bound.attempt] = bound.digest
    /\ \A d \in Auditors : Passed(d, bound.attempt, bound.digest)
    /\ InputStands(bound.digest)
    /\ \A r \in active : Sound(r)

-----------------------------------------------------------------------------
Rewrite(p) ==
    /\ paper' = p
    /\ UNCHANGED <<vars, audit>>

Lifecycle == Next /\ UNCHANGED <<paper, audit>>

Gate ==
    \/ \E t \in Attempts : Prepare(t) \/ Bind(t)
    \/ \E d \in Auditors : \/ \E t \in Attempts : Open(d, t)
                          \/ Close(d) \/ Killed(d)

PaperNext == \/ Lifecycle
             \/ Gate
             \/ \E p \in Papers \ {paper} : Rewrite(p)

PaperSpec == PaperInit /\ [][PaperNext]_paperVars

-----------------------------------------------------------------------------
(* Properties *)

(* Audits, reports and the paper receipt name attempts that were prepared. *)
GateTypeOK ==
    /\ paper \in Papers
    /\ \A d \in Auditors :
          /\ opened[d] # None => input[opened[d].attempt] # None
          /\ \A t \in Attempts :
                report[d][t] # None => input[t] # None /\ report[d][t].seen # {}
    /\ bound # None => bound.attempt \in Attempts

(* Where verify-paper passes, both auditors confirmed, when they began and *)
(* when they passed it, exactly the paper, the registry and the receipts   *)
(* that are in place now, and nothing in place has been superseded or gone *)
(* stale ("any later paper/result/renderer change makes the receipt        *)
(* stale", results_evidence.md).                                           *)
BoundWasAudited ==
    VerifyPasses =>
        \A d \in Auditors : report[d][bound.attempt].seen = {Frozen}

(* What bind-paper accepts, verify-paper accepts: the gate cannot send the *)
(* pipeline back to a checkpoint that has just passed.                     *)
BindingVerifies == [][bound' # bound => VerifyPasses']_paperVars
=============================================================================
