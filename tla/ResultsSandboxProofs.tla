------------------------ MODULE ResultsSandboxProofs ------------------------
(***************************************************************************)
(* Proofs about ResultsSandbox, for any sources, contents and any number   *)
(* of writes, renames and upgrades.                                        *)
(*                                                                         *)
(* What a committed run used: an upgrade is not undone, so that two        *)
(* captures of a part which agree enclose a time in which it stood         *)
(* (OneRuntime); a lease that still stands has let nobody write, so that   *)
(* what a pinned file held when the command began is what it holds when    *)
(* the leases are last looked at (Unwritten); and what was compared before *)
(* stays true of every source that passes this last gate (OneContent).     *)
(*                                                                         *)
(* Who removes the workspace: the runner, unless it was struck or a        *)
(* command that outlived its supervisor is in its way, and then the        *)
(* guardian, unless that was struck as well (Cleanup).                     *)
(***************************************************************************)
EXTENDS ResultsSandbox, TLAPS

(* The runner before its guardian is there, while it unwinds, and at the     *)
(* gates behind the command. *)
Early == {"record", "launcher", "venv", "manifests", "make", "made"}
Unwinding == {"wipe", "wiping", "unlease", "mark", "join"} \cup Gone
Comparing == {"compare", "precommit", "publish", "settle", "commit"}
Accepted == {"same launcher", "same venv", "same manifests"} \cup Comparing

Undisturbed == "interrupt" \notin faults /\ "runner" \notin faults

(* Who is there while the runner is where it is. *)
Order ==
    /\ runner \in Early => guardian = "none" /\ supervisor = "none" /\ ~marker
    /\ runner = "stage" => supervisor = "none"
    /\ runner \in Accepted \cup {"check"} => supervisor \in {"done", "dead"}
    /\ runner \in Unwinding /\ Undisturbed => supervisor \in {"none", "done", "dead"}
    /\ supervisor \in {"none", "start"} => command = "none"
    /\ command = "running" => supervisor = "watch" \/ Outlived
    /\ verdict = "good" => supervisor = "done" /\ command = "good"
    /\ runner \in Accepted \/ outcome = "committed" => verdict = "good"
    /\ outcome = "committed" => runner \in Unwinding
    /\ struck # {} => "interrupt" \in faults

(* Who has taken the workspace away, or has still to do so. *)
Cleanup ==
    /\ guardian \in {"wipe", "wiping"} => runner \in {"join"} \cup Gone
    /\ marker => ~workspace /\ runner \in {"join"} \cup Gone
    /\ guardian = "done" => ~workspace \/ "interrupt" \in faults
    /\ guardian = "dead" => "guardian" \in faults
    /\ runner = "dead" => "runner" \in faults
    /\ runner \in {"unlease", "mark", "join", "ended"} /\ Undisturbed /\ ~Outlived => ~workspace

(* An upgrade is not undone: two captures of a part that agree saw what the  *)
(* command saw, and it stays what the command saw once they were compared.   *)
Compared(part) ==
    \/ runner \in Comparing
    \/ runner = "same venv" /\ part = "launcher"
    \/ runner = "same manifests" /\ part # "manifests"

OneRuntime ==
    \A part \in Parts :
        /\ captured[part] \in {Nothing, Before, runtime[part]}
        /\ command # "none" /\ runtime[part] = captured[part] => ran[part] = {captured[part]}
        /\ Compared(part) => ran[part] = {captured[part]}

(* A lease that still stands has let nobody write, and nobody writes a copy. *)
Intact(s) == ~Bound(s) \/ lease[s] = "held"

Unwritten ==
    \A s \in Sources :
        /\ staged[s].same \/ Bound(s)
        /\ runner \in Early => staged[s].how = "no"
        /\ lease[s] = "breaking" => writer[s] # Nothing
        /\ Bound(s) /\ staged[s].same /\ lease[s] = "held" => live[s] = staged[s].holds
        /\ Intact(s) /\ command # "none" => used[s] = {staged[s].holds}

(* What the comparisons found holds of every source whose lease stands, and  *)
(* the last gate lets none pass whose lease does not. *)
OneContent ==
    \A s \in Sources :
        /\ runner \in {"precommit", "publish", "settle"} /\ staged[s].same /\ Intact(s)
             => recorded[s] = staged[s].holds
        /\ runner = "commit" /\ staged[s].same => used[s] = {recorded[s]}

IInv ==
    TypeOK /\ Order /\ Cleanup /\ OneRuntime /\ Unwritten /\ OneContent /\ RecordedMeansUsed

-----------------------------------------------------------------------------
(* What a step changes, in fewer words than the action has *)

(* One of the two captures of the runtime. *)
CaptureEffect ==
    /\ \E part \in Parts : captured' = [captured EXCEPT ![part] = runtime[part]]
    /\ runner \in Early /\ runner' \in Early
    /\ UNCHANGED <<supervisor, guardian, command, verdict, workspace, marker, pipe>>
    /\ UNCHANGED <<live, recorded, staged, lease, writer, flagged, runtime>>
    /\ UNCHANGED <<used, ran, outcome, edits, sandbox, struck, faults>>

LEMMA CaptureMoves ==
    ASSUME CaptureLauncher \/ CaptureVenv \/ CaptureManifests
    PROVE  CaptureEffect
  BY DEF CaptureEffect, CaptureLauncher, CaptureVenv, CaptureManifests, Capture,
     RunnerAt, Parts, Early, setting

(* The gates behind the command change no more than the runner's place and    *)
(* what the transaction has done.                                             *)
GateEffect ==
    /\ runner \in Accepted \cup {"check"} /\ runner' \in Accepted \cup {"wipe"}
    /\ runner = "check" /\ runner' # "wipe" => verdict = "good"
    /\ outcome' = "committed" =>
          outcome = "committed" \/ (runner = "commit" /\ runner' = "wipe")
    /\ outcome' \in {outcome, "none", "prepared", "committed"}
    /\ UNCHANGED <<supervisor, guardian, command, verdict, workspace, marker, pipe>>
    /\ UNCHANGED <<live, recorded, staged, lease, writer, flagged, runtime, captured>>
    /\ UNCHANGED <<used, ran, edits, sandbox, struck, faults>>

LEMMA GateMoves ==
    ASSUME CheckRun \/ CheckRuntime \/ CompareSources \/ Precommit
           \/ Publish \/ Settle \/ Commit
    PROVE  GateEffect
<1> USE DEF GateEffect, Accepted, Comparing, Gate, sources, setting
<1>1. CASE CheckRun
  BY <1>1 DEF CheckRun
<1>2. CASE CheckRuntime
  <2>1. CASE Recapture("same launcher", "launcher", "same venv")
    BY <2>1 DEF Recapture
  <2>2. CASE Recapture("same venv", "venv", "same manifests")
    BY <2>2 DEF Recapture
  <2>3. CASE Recapture("same manifests", "manifests", "compare")
    BY <2>3 DEF Recapture
  <2>4. QED
    BY <1>2, <2>1, <2>2, <2>3 DEF CheckRuntime
<1>3. CASE CompareSources
  BY <1>3 DEF CompareSources
<1>4. CASE Precommit
  BY <1>4 DEF Precommit
<1>5. CASE Publish
  BY <1>5 DEF Publish
<1>6. CASE Settle
  BY <1>6 DEF Settle
<1>7. CASE Commit
  BY <1>7 DEF Commit
<1>8. QED
  BY <1>1, <1>2, <1>3, <1>4, <1>5, <1>6, <1>7

(* Whoever removes the workspace goes on when it is gone, or when another was *)
(* in its way; only the guardian then begins again.                           *)
RunnerWipeEffect ==
    /\ runner \in Wipes /\ runner' \in {"wiping", "unlease"}
    /\ runner' = "unlease" => ~workspace' \/ Disturbed({supervisor, guardian})
    /\ workspace' => workspace
    /\ UNCHANGED <<supervisor, guardian, command, verdict, marker, pipe>>
    /\ UNCHANGED <<live, recorded, staged, lease, writer, flagged, runtime, captured>>
    /\ UNCHANGED <<used, ran, outcome, edits, sandbox, struck, faults>>

LEMMA RunnerWipeMoves ==
    ASSUME RunnerWipes
    PROVE  RunnerWipeEffect
  BY DEF RunnerWipeEffect, RunnerWipes, WipeEnds, Wipes, sources, setting

SupervisorWipeEffect ==
    /\ supervisor \in Wipes /\ supervisor' \in {"wiping", "done"}
    /\ verdict' = "stopped" /\ (workspace' => workspace)
    /\ UNCHANGED <<runner, guardian, command, marker, pipe>>
    /\ UNCHANGED <<live, recorded, staged, lease, writer, flagged, runtime, captured>>
    /\ UNCHANGED <<used, ran, outcome, edits, sandbox, struck, faults>>

LEMMA SupervisorWipeMoves ==
    ASSUME SupervisorWipes
    PROVE  SupervisorWipeEffect
  BY DEF SupervisorWipeEffect, SupervisorWipes, WipeEnds, Wipes, sources, setting

GuardianWipeEffect ==
    /\ guardian \in Wipes /\ guardian' \in {"wipe", "wiping", "done"}
    /\ guardian' = "done" => ~workspace'
    /\ workspace' => workspace
    /\ UNCHANGED <<runner, supervisor, command, verdict, marker, pipe>>
    /\ UNCHANGED <<live, recorded, staged, lease, writer, flagged, runtime, captured>>
    /\ UNCHANGED <<used, ran, outcome, edits, sandbox, struck, faults>>

LEMMA GuardianWipeMoves ==
    ASSUME GuardianWipes
    PROVE  GuardianWipeEffect
  BY DEF GuardianWipeEffect, GuardianWipes, WipeEnds, Wipes, sources, setting

(* What reaches a source that is pinned under its own name reaches the        *)
(* command.                                                                   *)
LEMMA LandsEffect ==
    ASSUME TypeOK, NEW s \in Sources, NEW c \in Contents, Lands(s, c)
    PROVE  /\ live' = [t \in Sources |-> IF t = s THEN c ELSE live[t]]
           /\ \A t \in Sources :
                 /\ staged'[t].how = staged[t].how /\ staged'[t].same = staged[t].same
                 /\ t # s \/ ~(Bound(s) /\ staged[s].same)
                      => staged'[t] = staged[t] /\ used'[t] = used[t]
           /\ Bound(s) /\ staged[s].same => staged'[s].holds = c
           /\ staged' \in [Sources -> [how : {"no", "copied", "bound"},
                                     holds : Contents \cup {Nothing}, same : BOOLEAN]]
           /\ used' \in [Sources -> SUBSET (Contents \cup {Nothing})]
           /\ command # "running" => used' = used
<1>1. live' = [t \in Sources |-> IF t = s THEN c ELSE live[t]]
  BY DEF Lands, TypeOK
<1>2. CASE ~(Bound(s) /\ staged[s].same)
  BY <1>1, <1>2 DEF Lands, TypeOK
<1>3. CASE Bound(s) /\ staged[s].same
  <2>1. staged' = [staged EXCEPT ![s].holds = c]
    BY <1>3 DEF Lands
  <2>9. staged[s] \in [how : {"no", "copied", "bound"},
                      holds : Contents \cup {Nothing}, same : BOOLEAN]
    BY DEF TypeOK
  <2>10. [staged[s] EXCEPT !.holds = c]
           = [how |-> staged[s].how, holds |-> c, same |-> staged[s].same]
    BY <2>9
  <2>2. staged' = [t \in Sources |->
           IF t = s THEN [how |-> staged[s].how, holds |-> c, same |-> staged[s].same]
           ELSE staged[t]]
    BY <2>1, <2>10 DEF TypeOK
  <2>3. used' = [t \in Sources |->
           IF t = s /\ command = "running" THEN used[s] \cup {c} ELSE used[t]]
    BY <1>3 DEF Lands, TypeOK
  <2>4. used' \in [Sources -> SUBSET (Contents \cup {Nothing})]
    BY <2>3 DEF TypeOK
  <2>5. staged' \in [Sources -> [how : {"no", "copied", "bound"},
                                holds : Contents \cup {Nothing}, same : BOOLEAN]]
    BY <2>2 DEF TypeOK
  <2>6. command # "running" => used' = used
    BY <2>3 DEF TypeOK
  <2>7. QED
    BY <1>1, <1>3, <2>2, <2>3, <2>4, <2>5, <2>6
<1>4. QED
  BY <1>2, <1>3

(* A new file under the old name leaves what is pinned as it is. *)
LEMMA ReplaceEffect ==
    ASSUME TypeOK, NEW s \in Sources, NEW c \in Contents, Replace(s, c)
    PROVE  /\ live' = [t \in Sources |-> IF t = s THEN c ELSE live[t]]
           /\ \A t \in Sources :
                 /\ staged'[t].how = staged[t].how /\ staged'[t].holds = staged[t].holds
                 /\ t # s => staged'[t] = staged[t]
           /\ Bound(s) => ~staged'[s].same
           /\ ~Bound(s) => staged'[s].same
           /\ staged' \in [Sources -> [how : {"no", "copied", "bound"},
                                     holds : Contents \cup {Nothing}, same : BOOLEAN]]
<1>1. live' = [t \in Sources |-> IF t = s THEN c ELSE live[t]]
  BY DEF Replace, TypeOK
<1>2. staged[s] \in [how : {"no", "copied", "bound"},
                    holds : Contents \cup {Nothing}, same : BOOLEAN]
  BY DEF TypeOK
<1>3. CASE Bound(s)
  <2>1. staged' = [staged EXCEPT ![s].same = FALSE]
    BY <1>3 DEF Replace, Bound
  <2>2. staged' = [t \in Sources |->
           IF t = s THEN [staged[s] EXCEPT !.same = FALSE] ELSE staged[t]]
    BY <2>1 DEF TypeOK
  <2>3. /\ [staged[s] EXCEPT !.same = FALSE].how = staged[s].how
        /\ [staged[s] EXCEPT !.same = FALSE].holds = staged[s].holds
        /\ [staged[s] EXCEPT !.same = FALSE].same = FALSE
        /\ [staged[s] EXCEPT !.same = FALSE] \in
             [how : {"no", "copied", "bound"}, holds : Contents \cup {Nothing}, same : BOOLEAN]
    BY <1>2
  <2>4. staged' \in [Sources -> [how : {"no", "copied", "bound"},
                                holds : Contents \cup {Nothing}, same : BOOLEAN]]
    BY <2>2, <2>3 DEF TypeOK
  <2>5. QED
    BY <1>1, <1>3, <2>2, <2>3, <2>4
<1>4. CASE ~Bound(s)
  <2>1. staged' = [staged EXCEPT ![s].same = TRUE]
    BY <1>4 DEF Replace, Bound
  <2>2. staged' = [t \in Sources |->
           IF t = s THEN [staged[s] EXCEPT !.same = TRUE] ELSE staged[t]]
    BY <2>1 DEF TypeOK
  <2>3. /\ [staged[s] EXCEPT !.same = TRUE].how = staged[s].how
        /\ [staged[s] EXCEPT !.same = TRUE].holds = staged[s].holds
        /\ [staged[s] EXCEPT !.same = TRUE].same = TRUE
        /\ [staged[s] EXCEPT !.same = TRUE] \in
             [how : {"no", "copied", "bound"}, holds : Contents \cup {Nothing}, same : BOOLEAN]
    BY <1>2
  <2>4. staged' \in [Sources -> [how : {"no", "copied", "bound"},
                                holds : Contents \cup {Nothing}, same : BOOLEAN]]
    BY <2>2, <2>3 DEF TypeOK
  <2>5. QED
    BY <1>1, <1>4, <2>2, <2>3, <2>4
<1>5. QED
  BY <1>3, <1>4

-----------------------------------------------------------------------------
(* The order of the processes, and the workspace *)

(* The runner goes on when its supervisor has ended; only a runner that was   *)
(* interrupted or killed unwinds before. *)
LEMMA OrderKept ==
    ASSUME TypeOK, Order, [Next]_vars
    PROVE  Order'
<1> USE DEF Order, Early, Unwinding, Accepted, Comparing, Gone, Undisturbed, Wipes,
            Outlived, Struck, Processes, Parts
<1>1. CASE Recorded
  BY <1>1 DEF Recorded, RunnerAt, processes, sources, setting
<1>2. ASSUME NEW s \in Sources, Record(s) PROVE Order'
  BY <1>2 DEF Record, processes, sources, setting
<1>3. CASE CaptureLauncher \/ CaptureVenv \/ CaptureManifests
  <2>1. CaptureEffect
    BY <1>3, CaptureMoves
  <2>2. QED
    BY <2>1 DEF CaptureEffect
<1>4. CASE MakeWorkspace
  BY <1>4 DEF MakeWorkspace, RunnerAt, processes, sources, setting
<1>5. CASE ForkGuardian
  BY <1>5 DEF ForkGuardian, RunnerAt, processes, sources, setting
<1>6. ASSUME NEW s \in Sources, Stage(s) PROVE Order'
  BY <1>6 DEF Stage, CopyOf, PinOf, processes, sources, setting
<1>7. CASE Launch
  BY <1>7 DEF Launch, RunnerAt, processes, sources, setting
<1>8. CASE NoticeBrokenLease
  BY <1>8 DEF NoticeBrokenLease, processes, sources, setting
<1>9. CASE WaitEnds
  BY <1>9 DEF WaitEnds, RunnerAt, processes, sources, setting
<1>10. CASE CheckRun \/ CheckRuntime \/ CompareSources
           \/ Precommit \/ Publish \/ Settle \/ Commit
  <2>1. GateEffect
    BY <1>10, GateMoves
  <2>2. QED
    BY <2>1 DEF GateEffect
<1>11. CASE RunnerWipes
  <2>1. RunnerWipeEffect
    BY <1>11, RunnerWipeMoves
  <2>2. QED
    BY <2>1 DEF RunnerWipeEffect
<1>12. CASE ReleaseLeases
  BY <1>12 DEF ReleaseLeases, LeasesGo, RunnerAt, processes, sources, setting
<1>13. CASE Mark
  BY <1>13 DEF Mark, RunnerAt, processes, sources, setting
<1>14. CASE Join
  BY <1>14 DEF Join, RunnerAt, processes, sources, setting
<1>15. CASE StartCommand
  BY <1>15 DEF StartCommand, processes, sources, setting
<1>16. CASE Report
  BY <1>16 DEF Report, processes, sources, setting
<1>17. CASE KillCommand
  BY <1>17 DEF KillCommand, processes, sources, setting
<1>18. CASE SupervisorWipes
  <2>1. SupervisorWipeEffect
    BY <1>18, SupervisorWipeMoves
  <2>2. QED
    BY <2>1 DEF SupervisorWipeEffect
<1>19. CASE GuardianReads
  BY <1>19 DEF GuardianReads, processes, sources, setting
<1>20. CASE GuardianWipes
  <2>1. GuardianWipeEffect
    BY <1>20, GuardianWipeMoves
  <2>2. QED
    BY <2>1 DEF GuardianWipeEffect
<1>21. CASE CommandEnds
  BY <1>21 DEF CommandEnds, processes, sources, setting
<1>22. ASSUME NEW s \in Sources, NEW c \in Contents, WriteInPlace(s, c) PROVE Order'
  BY <1>22 DEF WriteInPlace, Edit, processes, sources, setting
<1>23. ASSUME NEW s \in Sources, NEW c \in Contents, Replace(s, c) PROVE Order'
  BY <1>23 DEF Replace, Edit, processes, sources, setting
<1>24. ASSUME NEW s \in Sources, LeaseTimesOut(s) PROVE Order'
  BY <1>24 DEF LeaseTimesOut, processes, sources, setting
<1>25. ASSUME NEW part \in Parts, NEW c \in Contents, Upgrade(part, c) PROVE Order'
  BY <1>25 DEF Upgrade, Edit, processes, sources, setting
<1>26. CASE Interrupt
  BY <1>26 DEF Interrupt, processes, sources, setting
<1>30. CASE RunnerInterrupted
  BY <1>30 DEF RunnerInterrupted, Handles, Alive, processes, sources, setting
<1>31. CASE SupervisorInterrupted
  <2>1. /\ supervisor \in {"start", "watch", "wipe", "wiping"} /\ supervisor' = "done"
        /\ verdict' = "stopped" /\ "interrupt" \in faults
        /\ struck' # {} => struck # {}
    BY <1>31 DEF SupervisorInterrupted, Handles, Alive
  <2>2. command' = "running" => sandbox = "sandbox-exec"
    BY <1>31 DEF SupervisorInterrupted, CommandOrphaned, TypeOK, Sandboxes
  <2>3. UNCHANGED <<runner, guardian, marker, outcome, sandbox, faults>>
    BY <1>31 DEF SupervisorInterrupted
  <2> QED
    BY <2>1, <2>2, <2>3
<1>32. CASE GuardianInterrupted
  BY <1>32 DEF GuardianInterrupted, Handles, Alive, processes, sources, setting
<1>27. ASSUME NEW p \in Processes, Kill(p) PROVE Order'
  <2>1. /\ UNCHANGED <<marker, outcome, sandbox, struck>> /\ faults' = faults \cup {p}
        /\ supervisor' = supervisor \/ p = "supervisor"
    BY <1>27 DEF Kill
  <2>2. CASE p = "runner"
    <3>1. runner' = "dead" /\ UNCHANGED <<supervisor, guardian, command, verdict>>
      BY <1>27, <2>2 DEF Kill
    <3> QED
      BY <2>1, <2>2, <3>1
  <2>3. CASE p = "supervisor"
    <3>1. /\ supervisor \in {"start", "watch", "wipe", "wiping"} /\ supervisor' = "dead"
          /\ verdict' = "stopped" /\ UNCHANGED <<runner, guardian>>
      BY <1>27, <2>3 DEF Kill, Alive
    <3>2. command' = "running" => sandbox = "sandbox-exec"
      BY <1>27, <2>3 DEF Kill, CommandOrphaned, TypeOK, Sandboxes
    <3> QED
      BY <2>1, <2>3, <3>1, <3>2
  <2>4. CASE p = "guardian"
    <3>1. /\ guardian \in {"read", "wipe", "wiping"} /\ guardian' = "dead"
          /\ UNCHANGED <<runner, supervisor, command, verdict>>
      BY <1>27, <2>4 DEF Kill, Alive
    <3> QED
      BY <2>1, <2>4, <3>1
  <2> QED
    BY <2>2, <2>3, <2>4 DEF Processes
<1>28. CASE UNCHANGED vars
  BY <1>28 DEF vars, processes, sources, setting
<1>29. QED
  BY <1>1, <1>2, <1>3, <1>4, <1>5, <1>6, <1>7, <1>8, <1>9, <1>10, <1>11, <1>12, <1>13,
     <1>14, <1>15, <1>16, <1>17, <1>18, <1>19, <1>20, <1>21, <1>22, <1>23, <1>24, <1>25,
     <1>26, <1>30, <1>31, <1>32, <1>27, <1>28 DEF Next, RunnerStep, SupervisorStep, GuardianStep, Outside

(* The runner that nobody disturbed has removed the workspace when it marks:  *)
(* its command has stopped, and the guardian has not begun. *)
LEMMA CleanupKept ==
    ASSUME Order, Cleanup, [Next]_vars
    PROVE  Cleanup'
<1> USE DEF Cleanup, Order, Early, Unwinding, Accepted, Comparing, Gone, Undisturbed,
            Wipes, Outlived, Struck, Processes, Parts
<1>1. CASE Recorded
  BY <1>1 DEF Recorded, RunnerAt, processes, sources, setting
<1>2. ASSUME NEW s \in Sources, Record(s) PROVE Cleanup'
  BY <1>2 DEF Record, processes, sources, setting
<1>3. CASE CaptureLauncher \/ CaptureVenv \/ CaptureManifests
  <2>1. CaptureEffect
    BY <1>3, CaptureMoves
  <2>2. QED
    BY <2>1 DEF CaptureEffect
<1>4. CASE MakeWorkspace
  BY <1>4 DEF MakeWorkspace, RunnerAt, processes, sources, setting
<1>5. CASE ForkGuardian
  BY <1>5 DEF ForkGuardian, RunnerAt, processes, sources, setting
<1>6. ASSUME NEW s \in Sources, Stage(s) PROVE Cleanup'
  BY <1>6 DEF Stage, CopyOf, PinOf, processes, sources, setting
<1>7. CASE Launch
  BY <1>7 DEF Launch, RunnerAt, processes, sources, setting
<1>8. CASE NoticeBrokenLease
  BY <1>8 DEF NoticeBrokenLease, processes, sources, setting
<1>9. CASE WaitEnds
  BY <1>9 DEF WaitEnds, RunnerAt, processes, sources, setting
<1>10. CASE CheckRun \/ CheckRuntime \/ CompareSources
           \/ Precommit \/ Publish \/ Settle \/ Commit
  <2>1. GateEffect
    BY <1>10, GateMoves
  <2>2. QED
    BY <2>1 DEF GateEffect
<1>11. CASE RunnerWipes
  <2>1. RunnerWipeEffect
    BY <1>11, RunnerWipeMoves
  <2>2. runner \in Wipes /\ Undisturbed /\ ~Outlived => ~Disturbed({supervisor, guardian})
    BY DEF Disturbed
  <2>3. QED
    BY <2>1, <2>2 DEF RunnerWipeEffect
<1>12. CASE ReleaseLeases
  BY <1>12 DEF ReleaseLeases, LeasesGo, RunnerAt, processes, sources, setting
<1>13. CASE Mark
  BY <1>13 DEF Mark, RunnerAt, processes, sources, setting
<1>14. CASE Join
  BY <1>14 DEF Join, RunnerAt, processes, sources, setting
<1>15. CASE StartCommand
  BY <1>15 DEF StartCommand, processes, sources, setting
<1>16. CASE Report
  BY <1>16 DEF Report, processes, sources, setting
<1>17. CASE KillCommand
  BY <1>17 DEF KillCommand, processes, sources, setting
<1>18. CASE SupervisorWipes
  <2>1. SupervisorWipeEffect
    BY <1>18, SupervisorWipeMoves
  <2>2. QED
    BY <2>1 DEF SupervisorWipeEffect
<1>19. CASE GuardianReads
  BY <1>19 DEF GuardianReads, processes, sources, setting
<1>20. CASE GuardianWipes
  <2>1. GuardianWipeEffect
    BY <1>20, GuardianWipeMoves
  <2>2. QED
    BY <2>1 DEF GuardianWipeEffect
<1>21. CASE CommandEnds
  BY <1>21 DEF CommandEnds, processes, sources, setting
<1>22. ASSUME NEW s \in Sources, NEW c \in Contents, WriteInPlace(s, c) PROVE Cleanup'
  BY <1>22 DEF WriteInPlace, Edit, processes, sources, setting
<1>23. ASSUME NEW s \in Sources, NEW c \in Contents, Replace(s, c) PROVE Cleanup'
  BY <1>23 DEF Replace, Edit, processes, sources, setting
<1>24. ASSUME NEW s \in Sources, LeaseTimesOut(s) PROVE Cleanup'
  BY <1>24 DEF LeaseTimesOut, processes, sources, setting
<1>25. ASSUME NEW part \in Parts, NEW c \in Contents, Upgrade(part, c) PROVE Cleanup'
  BY <1>25 DEF Upgrade, Edit, processes, sources, setting
<1>26. CASE Interrupt
  BY <1>26 DEF Interrupt, processes, sources, setting
<1>30. CASE RunnerInterrupted
  BY <1>30 DEF RunnerInterrupted, Handles, Alive, processes, sources, setting
<1>31. CASE SupervisorInterrupted
  BY <1>31 DEF SupervisorInterrupted, Handles, Alive, CommandOrphaned, processes, sources, setting
<1>32. CASE GuardianInterrupted
  BY <1>32 DEF GuardianInterrupted, Handles, Alive, processes, sources, setting
<1>27. ASSUME NEW p \in Processes, Kill(p) PROVE Cleanup'
  BY <1>27 DEF Kill, Alive, CommandOrphaned, processes, sources, setting
<1>28. CASE UNCHANGED vars
  BY <1>28 DEF vars, processes, sources, setting
<1>29. QED
  BY <1>1, <1>2, <1>3, <1>4, <1>5, <1>6, <1>7, <1>8, <1>9, <1>10, <1>11, <1>12, <1>13,
     <1>14, <1>15, <1>16, <1>17, <1>18, <1>19, <1>20, <1>21, <1>22, <1>23, <1>24, <1>25,
     <1>26, <1>30, <1>31, <1>32, <1>27, <1>28 DEF Next, RunnerStep, SupervisorStep, GuardianStep, Outside

-----------------------------------------------------------------------------
(* What the command used *)

(* A part that is upgraded was as it is at first, and no longer agrees with   *)
(* the capture; the comparison lets only what agrees pass. *)
LEMMA RuntimeKept ==
    ASSUME TypeOK, Order, OneRuntime, [Next]_vars
    PROVE  OneRuntime'
<1> USE DEF OneRuntime, Compared, Comparing, Parts
<1>1. CASE Recorded
  BY <1>1 DEF Recorded, RunnerAt, processes, sources, setting
<1>2. ASSUME NEW s \in Sources, Record(s) PROVE OneRuntime'
  BY <1>2 DEF Record, processes, sources, setting
<1>3. CASE CaptureLauncher \/ CaptureVenv \/ CaptureManifests
  <2>1. CaptureEffect
    BY <1>3, CaptureMoves
  <2>2. PICK p \in Parts : captured' = [captured EXCEPT ![p] = runtime[p]]
    BY <2>1 DEF CaptureEffect
  <2>3. \A q \in Parts : captured'[q] \in {captured[q], runtime[q]}
    BY <2>2 DEF TypeOK
  <2>4. command' = "none" /\ runtime' = runtime /\ runner' \in Early
    BY <2>1 DEF CaptureEffect, Order
  <2>5. QED
    BY <2>3, <2>4 DEF Early
<1>4. CASE MakeWorkspace
  BY <1>4 DEF MakeWorkspace, RunnerAt, processes, sources, setting
<1>5. CASE ForkGuardian
  BY <1>5 DEF ForkGuardian, RunnerAt, processes, sources, setting
<1>6. ASSUME NEW s \in Sources, Stage(s) PROVE OneRuntime'
  BY <1>6 DEF Stage, CopyOf, PinOf, processes, sources, setting
<1>7. CASE Launch
  BY <1>7 DEF Launch, RunnerAt, processes, sources, setting
<1>8. CASE NoticeBrokenLease
  BY <1>8 DEF NoticeBrokenLease, processes, sources, setting
<1>9. CASE WaitEnds
  BY <1>9 DEF WaitEnds, RunnerAt, processes, sources, setting
<1>10. CASE CheckRun \/ CheckRuntime \/ CompareSources
           \/ Precommit \/ Publish \/ Settle \/ Commit
  <2>1. GateEffect
    BY <1>10, GateMoves
  <2>2. \A q \in Parts : Compared(q)' => Compared(q) \/ runtime[q] = captured[q]
    <3>1. CASE CheckRuntime
      <4>1. CASE Recapture("same launcher", "launcher", "same venv")
        <5>1. /\ runner = "same launcher" /\ runner' \in {"same venv", "wipe"}
              /\ runner' = "same venv" => runtime["launcher"] = captured["launcher"]
          BY <4>1 DEF Recapture, Gate
        <5>2. QED
          BY <5>1
      <4>2. CASE Recapture("same venv", "venv", "same manifests")
        <5>1. /\ runner = "same venv" /\ runner' \in {"same manifests", "wipe"}
              /\ runner' = "same manifests" => runtime["venv"] = captured["venv"]
          BY <4>2 DEF Recapture, Gate
        <5>2. QED
          BY <5>1
      <4>3. CASE Recapture("same manifests", "manifests", "compare")
        <5>1. /\ runner = "same manifests" /\ runner' \in {"compare", "wipe"}
              /\ runner' = "compare" => runtime["manifests"] = captured["manifests"]
          BY <4>3 DEF Recapture, Gate
        <5>2. QED
          BY <5>1
      <4>4. QED
        BY <3>1, <4>1, <4>2, <4>3 DEF CheckRuntime
    <3>2. CASE CheckRun
      BY <3>2 DEF CheckRun, Gate
    <3>3. CASE CompareSources \/ Precommit \/ Publish \/ Settle \/ Commit
      BY <3>3 DEF CompareSources, Precommit, Publish, Settle, Commit, Gate
    <3>4. QED
      BY <1>10, <3>1, <3>2, <3>3
  <2>3. \A q \in Parts : Compared(q)' => command # "none"
    BY <2>1 DEF GateEffect, Order, Accepted
  <2>4. UNCHANGED <<command, captured, runtime, ran>>
    BY <2>1 DEF GateEffect
  <2>5. \A q \in Parts : Compared(q)' => ran[q] = {captured[q]}
    BY <2>2, <2>3
  <2>6. QED
    BY <2>4, <2>5
<1>11. CASE RunnerWipes
  <2>1. RunnerWipeEffect
    BY <1>11, RunnerWipeMoves
  <2>2. QED
    BY <2>1 DEF RunnerWipeEffect
<1>12. CASE ReleaseLeases
  BY <1>12 DEF ReleaseLeases, LeasesGo, RunnerAt, processes, sources, setting
<1>13. CASE Mark
  BY <1>13 DEF Mark, RunnerAt, processes, sources, setting
<1>14. CASE Join
  BY <1>14 DEF Join, RunnerAt, processes, sources, setting
<1>15. CASE StartCommand
  <2>1. ran' = [q \in Parts |-> {runtime[q]}] /\ UNCHANGED <<runner, captured, runtime>>
    BY <1>15 DEF StartCommand, sources
  <2>2. \A q \in Parts : ~Compared(q)
    BY <1>15 DEF StartCommand, Order, Accepted
  <2>3. QED
    BY <2>1, <2>2
<1>16. CASE Report
  BY <1>16 DEF Report, processes, sources, setting
<1>17. CASE KillCommand
  BY <1>17 DEF KillCommand, processes, sources, setting
<1>18. CASE SupervisorWipes
  <2>1. SupervisorWipeEffect
    BY <1>18, SupervisorWipeMoves
  <2>2. QED
    BY <2>1 DEF SupervisorWipeEffect
<1>19. CASE GuardianReads
  BY <1>19 DEF GuardianReads, processes, sources, setting
<1>20. CASE GuardianWipes
  <2>1. GuardianWipeEffect
    BY <1>20, GuardianWipeMoves
  <2>2. QED
    BY <2>1 DEF GuardianWipeEffect
<1>21. CASE CommandEnds
  BY <1>21 DEF CommandEnds, processes, sources, setting
<1>22. ASSUME NEW s \in Sources, NEW c \in Contents, WriteInPlace(s, c) PROVE OneRuntime'
  BY <1>22 DEF WriteInPlace, Edit, processes, sources, setting
<1>23. ASSUME NEW s \in Sources, NEW c \in Contents, Replace(s, c) PROVE OneRuntime'
  BY <1>23 DEF Replace, Edit, processes, sources, setting
<1>24. ASSUME NEW s \in Sources, LeaseTimesOut(s) PROVE OneRuntime'
  BY <1>24 DEF LeaseTimesOut, processes, sources, setting
<1>25. ASSUME NEW part \in Parts, NEW c \in Contents, Upgrade(part, c) PROVE OneRuntime'
  <2>1. /\ UNCHANGED <<runner, command, captured>>
        /\ runtime[part] = Before
        /\ runtime' = [q \in Parts |-> IF q = part THEN c ELSE runtime[q]]
    BY <1>25 DEF Upgrade, TypeOK, processes
  <2>2. \A q \in Parts : Compared(q) => command # "running"
    BY DEF Order, Accepted
  <2>3. \A q \in Parts : ran'[q] = IF q = part /\ command = "running"
                                  THEN ran[q] \cup {c} ELSE ran[q]
    BY <1>25 DEF Upgrade, TypeOK
  <2>4. c # Nothing
    BY SandboxAssumption
  <2>5. CASE c = Before
    <3>1. runtime' = runtime
      BY <2>1, <2>5 DEF TypeOK
    <3>2. \A q \in Parts :
              command # "none" /\ runtime[q] = captured[q] => ran'[q] = {captured[q]}
      BY <2>1, <2>3, <2>5
    <3>3. \A q \in Parts : Compared(q) => ran'[q] = ran[q]
      BY <2>2, <2>3
    <3>4. QED
      BY <2>1, <3>1, <3>2, <3>3
  <2>6. CASE c # Before
    BY <2>1, <2>2, <2>3, <2>4, <2>6
  <2>7. QED
    BY <2>5, <2>6
<1>26. CASE Interrupt
  BY <1>26 DEF Interrupt, processes, sources, setting
<1>30. CASE RunnerInterrupted
  BY <1>30 DEF RunnerInterrupted, Handles, Alive, processes, sources, setting
<1>31. CASE SupervisorInterrupted
  BY <1>31 DEF SupervisorInterrupted, Handles, Alive, CommandOrphaned, processes, sources, setting
<1>32. CASE GuardianInterrupted
  BY <1>32 DEF GuardianInterrupted, Handles, Alive, processes, sources, setting
<1>27. ASSUME NEW p \in Processes, Kill(p) PROVE OneRuntime'
  BY <1>27 DEF Kill, Alive, CommandOrphaned, Order, processes, sources, setting
<1>28. CASE UNCHANGED vars
  BY <1>28 DEF vars, processes, sources, setting
<1>29. QED
  BY <1>1, <1>2, <1>3, <1>4, <1>5, <1>6, <1>7, <1>8, <1>9, <1>10, <1>11, <1>12, <1>13,
     <1>14, <1>15, <1>16, <1>17, <1>18, <1>19, <1>20, <1>21, <1>22, <1>23, <1>24, <1>25,
     <1>26, <1>30, <1>31, <1>32, <1>27, <1>28 DEF Next, RunnerStep, SupervisorStep, GuardianStep, Outside

(* A write under a lease waits until the lease is broken; a rename leaves what *)
(* is pinned; a copy is out of reach. *)
LEMMA UnwrittenKept ==
    ASSUME TypeOK, Order, Unwritten, [Next]_vars
    PROVE  Unwritten'
<1> USE DEF Unwritten, Intact, Bound, Early
<1>1. CASE Recorded
  BY <1>1 DEF Recorded, RunnerAt, processes, sources, setting
<1>2. ASSUME NEW s \in Sources, Record(s) PROVE Unwritten'
  BY <1>2 DEF Record, processes, sources, setting
<1>3. CASE CaptureLauncher \/ CaptureVenv \/ CaptureManifests
  <2>1. CaptureEffect
    BY <1>3, CaptureMoves
  <2>2. QED
    BY <2>1 DEF CaptureEffect
<1>4. CASE MakeWorkspace
  BY <1>4 DEF MakeWorkspace, RunnerAt, processes, sources, setting
<1>5. CASE ForkGuardian
  BY <1>5 DEF ForkGuardian, RunnerAt, processes, sources, setting
<1>6. ASSUME NEW s \in Sources, Stage(s) PROVE Unwritten'
  <2>1. UNCHANGED <<runner, command, live, writer, used>> /\ command = "none" /\ runner = "stage"
    BY <1>6 DEF Stage, Order, processes, setting
  <2>2. /\ \A t \in Sources : t # s => staged'[t] = staged[t] /\ lease'[t] = lease[t]
        /\ staged'[s] \in {CopyOf(s), PinOf(s)}
        /\ lease'[s] \in {lease[s], "held"}
    BY <1>6 DEF Stage, TypeOK
  <2>3. staged'[s].same /\ staged'[s].holds = live[s]
    BY <2>2 DEF CopyOf, PinOf
  <2>4. QED
    BY <2>1, <2>2, <2>3
<1>7. CASE Launch
  BY <1>7 DEF Launch, RunnerAt, processes, sources, setting
<1>8. CASE NoticeBrokenLease
  BY <1>8 DEF NoticeBrokenLease, processes, sources, setting
<1>9. CASE WaitEnds
  BY <1>9 DEF WaitEnds, RunnerAt, processes, sources, setting
<1>10. CASE CheckRun \/ CheckRuntime \/ CompareSources
           \/ Precommit \/ Publish \/ Settle \/ Commit
  <2>1. GateEffect
    BY <1>10, GateMoves
  <2>2. QED
    BY <2>1 DEF GateEffect, Accepted, Comparing
<1>11. CASE RunnerWipes
  <2>1. RunnerWipeEffect
    BY <1>11, RunnerWipeMoves
  <2>2. QED
    BY <2>1 DEF RunnerWipeEffect
<1>12. CASE ReleaseLeases
  BY <1>12 DEF ReleaseLeases, LeasesGo, RunnerAt, TypeOK, processes, sources, setting
<1>13. CASE Mark
  BY <1>13 DEF Mark, RunnerAt, processes, sources, setting
<1>14. CASE Join
  BY <1>14 DEF Join, RunnerAt, processes, sources, setting
<1>15. CASE StartCommand
  BY <1>15 DEF StartCommand, TypeOK, processes, sources, setting
<1>16. CASE Report
  BY <1>16 DEF Report, processes, sources, setting
<1>17. CASE KillCommand
  BY <1>17 DEF KillCommand, processes, sources, setting
<1>18. CASE SupervisorWipes
  <2>1. SupervisorWipeEffect
    BY <1>18, SupervisorWipeMoves
  <2>2. QED
    BY <2>1 DEF SupervisorWipeEffect
<1>19. CASE GuardianReads
  BY <1>19 DEF GuardianReads, processes, sources, setting
<1>20. CASE GuardianWipes
  <2>1. GuardianWipeEffect
    BY <1>20, GuardianWipeMoves
  <2>2. QED
    BY <2>1 DEF GuardianWipeEffect
<1>21. CASE CommandEnds
  BY <1>21 DEF CommandEnds, processes, sources, setting
<1>22. ASSUME NEW s \in Sources, NEW c \in Contents, WriteInPlace(s, c) PROVE Unwritten'
  <2>1. UNCHANGED <<runner, command>>
    BY <1>22 DEF WriteInPlace, processes
  <2>2. CASE ~Tracked(s) /\ Lands(s, c) /\ UNCHANGED <<lease, writer, flagged>>
    BY <2>1, <2>2, LandsEffect DEF Tracked
  <2>3. CASE /\ lease[s] = "held" /\ lease' = [lease EXCEPT ![s] = "breaking"]
             /\ writer' = [writer EXCEPT ![s] = c] /\ UNCHANGED <<live, staged, used>>
    <3>1. c # Nothing
      BY SandboxAssumption
    <3>2. QED
      BY <2>1, <2>3, <3>1 DEF TypeOK
  <2>4. QED
    BY <1>22, <2>2, <2>3 DEF WriteInPlace
<1>23. ASSUME NEW s \in Sources, NEW c \in Contents, Replace(s, c) PROVE Unwritten'
  <2>1. UNCHANGED <<runner, command, lease, writer, used>>
    BY <1>23 DEF Replace, processes
  <2>2. QED
    BY <1>23, <2>1, ReplaceEffect
<1>24. ASSUME NEW s \in Sources, LeaseTimesOut(s) PROVE Unwritten'
  <2>1. /\ UNCHANGED <<runner, command>>
        /\ lease[s] = "breaking" /\ writer[s] # Nothing /\ Lands(s, writer[s])
        /\ \A t \in Sources \ {s} : lease'[t] = lease[t] /\ writer'[t] = writer[t]
        /\ lease'[s] = "broken"
    BY <1>24 DEF LeaseTimesOut, TypeOK, processes
  <2>2. writer[s] \in Contents
    BY <2>1 DEF TypeOK
  <2>3. QED
    BY <2>1, <2>2, LandsEffect
<1>25. ASSUME NEW part \in Parts, NEW c \in Contents, Upgrade(part, c) PROVE Unwritten'
  BY <1>25 DEF Upgrade, Edit, processes, sources, setting
<1>26. CASE Interrupt
  BY <1>26 DEF Interrupt, processes, sources, setting
<1>30. CASE RunnerInterrupted
  BY <1>30 DEF RunnerInterrupted, Handles, Alive, processes, sources, setting
<1>31. CASE SupervisorInterrupted
  BY <1>31 DEF SupervisorInterrupted, Handles, Alive, CommandOrphaned, processes, sources, setting
<1>32. CASE GuardianInterrupted
  BY <1>32 DEF GuardianInterrupted, Handles, Alive, processes, sources, setting
<1>27. ASSUME NEW p \in Processes, Kill(p) PROVE Unwritten'
  BY <1>27 DEF Kill, Alive, CommandOrphaned, TypeOK, processes, sources, setting
<1>28. CASE UNCHANGED vars
  BY <1>28 DEF vars, processes, sources, setting
<1>29. QED
  BY <1>1, <1>2, <1>3, <1>4, <1>5, <1>6, <1>7, <1>8, <1>9, <1>10, <1>11, <1>12, <1>13,
     <1>14, <1>15, <1>16, <1>17, <1>18, <1>19, <1>20, <1>21, <1>22, <1>23, <1>24, <1>25,
     <1>26, <1>30, <1>31, <1>32, <1>27, <1>28 DEF Next, RunnerStep, SupervisorStep, GuardianStep, Outside

(* compare_isolated_sources and the precommit check compare what the command   *)
(* used with the record, and the leases that still stand at the last check     *)
(* carry the comparison there. *)
LEMMA ContentKept ==
    ASSUME TypeOK, Order, Unwritten, OneContent, [Next]_vars
    PROVE  OneContent'
<1> USE DEF OneContent, Intact, Bound, Accepted, Comparing, Early
<1>1. CASE Recorded
  BY <1>1 DEF Recorded, RunnerAt, processes, sources, setting
<1>2. ASSUME NEW s \in Sources, Record(s) PROVE OneContent'
  BY <1>2 DEF Record, processes, sources, setting
<1>3. CASE CaptureLauncher \/ CaptureVenv \/ CaptureManifests
  <2>1. CaptureEffect
    BY <1>3, CaptureMoves
  <2>2. QED
    BY <2>1 DEF CaptureEffect
<1>4. CASE MakeWorkspace
  BY <1>4 DEF MakeWorkspace, RunnerAt, processes, sources, setting
<1>5. CASE ForkGuardian
  BY <1>5 DEF ForkGuardian, RunnerAt, processes, sources, setting
<1>6. ASSUME NEW s \in Sources, Stage(s) PROVE OneContent'
  BY <1>6 DEF Stage, CopyOf, PinOf, processes, sources, setting
<1>7. CASE Launch
  BY <1>7 DEF Launch, RunnerAt, processes, sources, setting
<1>8. CASE NoticeBrokenLease
  BY <1>8 DEF NoticeBrokenLease, processes, sources, setting
<1>9. CASE WaitEnds
  BY <1>9 DEF WaitEnds, RunnerAt, processes, sources, setting
<1>10. CASE CheckRun \/ CheckRuntime \/ CompareSources
           \/ Precommit \/ Publish \/ Settle \/ Commit
  <2>1. GateEffect
    BY <1>10, GateMoves
  <2>2. CASE CompareSources
    BY <2>1, <2>2 DEF CompareSources, Gate, GateEffect, Unwritten
  <2>3. CASE Precommit
    BY <2>1, <2>3 DEF Precommit, Gate, GateEffect
  <2>4. CASE Publish
    BY <2>1, <2>4 DEF Publish, Gate, GateEffect
  <2>5. CASE Settle
    <3>1. command # "none" /\ (runner' = "commit" => \A s \in Sources : Intact(s))
      BY <2>1, <2>5 DEF Settle, Gate, LeasesIntact, GateEffect, Order
    <3>2. QED
      BY <2>1, <2>5, <3>1 DEF Settle, Gate, GateEffect, Unwritten
  <2>6. CASE CheckRun \/ CheckRuntime \/ Commit
    <3>1. runner' \notin {"precommit", "publish", "settle", "commit"}
      BY <2>6 DEF CheckRun, CheckRuntime, Recapture, Commit, Gate
    <3>2. QED
      BY <3>1
  <2>7. QED
    BY <1>10, <2>2, <2>3, <2>4, <2>5, <2>6
<1>11. CASE RunnerWipes
  <2>1. RunnerWipeEffect
    BY <1>11, RunnerWipeMoves
  <2>2. QED
    BY <2>1 DEF RunnerWipeEffect
<1>12. CASE ReleaseLeases
  BY <1>12 DEF ReleaseLeases, LeasesGo, RunnerAt, processes, sources, setting
<1>13. CASE Mark
  BY <1>13 DEF Mark, RunnerAt, processes, sources, setting
<1>14. CASE Join
  BY <1>14 DEF Join, RunnerAt, processes, sources, setting
<1>15. CASE StartCommand
  <2>1. runner' = runner /\ supervisor = "start" /\ UNCHANGED <<staged, lease, recorded>>
    BY <1>15 DEF StartCommand, sources
  <2>2. runner # "commit"
    BY <2>1 DEF Order
  <2>3. QED
    BY <2>1, <2>2
<1>16. CASE Report
  BY <1>16 DEF Report, processes, sources, setting
<1>17. CASE KillCommand
  BY <1>17 DEF KillCommand, processes, sources, setting
<1>18. CASE SupervisorWipes
  <2>1. SupervisorWipeEffect
    BY <1>18, SupervisorWipeMoves
  <2>2. QED
    BY <2>1 DEF SupervisorWipeEffect
<1>19. CASE GuardianReads
  BY <1>19 DEF GuardianReads, processes, sources, setting
<1>20. CASE GuardianWipes
  <2>1. GuardianWipeEffect
    BY <1>20, GuardianWipeMoves
  <2>2. QED
    BY <2>1 DEF GuardianWipeEffect
<1>21. CASE CommandEnds
  BY <1>21 DEF CommandEnds, processes, sources, setting
<1>22. ASSUME NEW s \in Sources, NEW c \in Contents, WriteInPlace(s, c) PROVE OneContent'
  <2>1. UNCHANGED <<runner, command, recorded>>
    BY <1>22 DEF WriteInPlace, processes
  <2>2. runner = "commit" => command # "running"
    BY DEF Order
  <2>3. CASE ~Tracked(s) /\ Lands(s, c) /\ UNCHANGED <<lease, writer, flagged>>
    BY <2>1, <2>2, <2>3, LandsEffect DEF Tracked
  <2>4. CASE /\ lease[s] = "held" /\ lease' = [lease EXCEPT ![s] = "breaking"]
             /\ UNCHANGED <<live, staged, used>>
    BY <2>1, <2>4 DEF TypeOK
  <2>5. QED
    BY <1>22, <2>3, <2>4 DEF WriteInPlace
<1>23. ASSUME NEW s \in Sources, NEW c \in Contents, Replace(s, c) PROVE OneContent'
  <2>1. UNCHANGED <<runner, recorded, lease, used>>
    BY <1>23 DEF Replace, processes
  <2>2. QED
    BY <1>23, <2>1, ReplaceEffect DEF Unwritten
<1>24. ASSUME NEW s \in Sources, LeaseTimesOut(s) PROVE OneContent'
  <2>1. /\ UNCHANGED <<runner, command, recorded>>
        /\ lease[s] = "breaking" /\ writer[s] # Nothing /\ Lands(s, writer[s])
        /\ \A t \in Sources \ {s} : lease'[t] = lease[t]
        /\ lease'[s] = "broken"
    BY <1>24 DEF LeaseTimesOut, TypeOK, Unwritten, processes
  <2>2. writer[s] \in Contents /\ (runner = "commit" => command # "running")
    BY <2>1 DEF TypeOK, Order
  <2>3. QED
    BY <2>1, <2>2, LandsEffect
<1>25. ASSUME NEW part \in Parts, NEW c \in Contents, Upgrade(part, c) PROVE OneContent'
  BY <1>25 DEF Upgrade, Edit, processes, sources, setting
<1>26. CASE Interrupt
  BY <1>26 DEF Interrupt, processes, sources, setting
<1>30. CASE RunnerInterrupted
  BY <1>30 DEF RunnerInterrupted, Handles, Alive, processes, sources, setting
<1>31. CASE SupervisorInterrupted
  BY <1>31 DEF SupervisorInterrupted, Handles, Alive, CommandOrphaned, processes, sources, setting
<1>32. CASE GuardianInterrupted
  BY <1>32 DEF GuardianInterrupted, Handles, Alive, processes, sources, setting
<1>27. ASSUME NEW p \in Processes, Kill(p) PROVE OneContent'
  BY <1>27 DEF Kill, Alive, CommandOrphaned, processes, sources, setting
<1>28. CASE UNCHANGED vars
  BY <1>28 DEF vars, processes, sources, setting
<1>29. QED
  BY <1>1, <1>2, <1>3, <1>4, <1>5, <1>6, <1>7, <1>8, <1>9, <1>10, <1>11, <1>12, <1>13,
     <1>14, <1>15, <1>16, <1>17, <1>18, <1>19, <1>20, <1>21, <1>22, <1>23, <1>24, <1>25,
     <1>26, <1>30, <1>31, <1>32, <1>27, <1>28 DEF Next, RunnerStep, SupervisorStep, GuardianStep, Outside

(* The commit finds both comparisons, and the command has stopped. *)
LEMMA CommittedKept ==
    ASSUME TypeOK, Order, OneRuntime, Unwritten, OneContent, RecordedMeansUsed, [Next]_vars
    PROVE  RecordedMeansUsed'
<1> USE DEF RecordedMeansUsed, Order, Unwinding, Gone
<1>1. CASE Recorded
  BY <1>1 DEF Recorded, RunnerAt, processes, sources, setting
<1>2. ASSUME NEW s \in Sources, Record(s) PROVE RecordedMeansUsed'
  BY <1>2 DEF Record, Early, processes, sources, setting
<1>3. CASE CaptureLauncher \/ CaptureVenv \/ CaptureManifests
  <2>1. CaptureEffect
    BY <1>3, CaptureMoves
  <2>2. QED
    BY <2>1 DEF CaptureEffect
<1>4. CASE MakeWorkspace
  BY <1>4 DEF MakeWorkspace, RunnerAt, processes, sources, setting
<1>5. CASE ForkGuardian
  BY <1>5 DEF ForkGuardian, RunnerAt, processes, sources, setting
<1>6. ASSUME NEW s \in Sources, Stage(s) PROVE RecordedMeansUsed'
  BY <1>6 DEF Stage, CopyOf, PinOf, processes, sources, setting
<1>7. CASE Launch
  BY <1>7 DEF Launch, RunnerAt, processes, sources, setting
<1>8. CASE NoticeBrokenLease
  BY <1>8 DEF NoticeBrokenLease, processes, sources, setting
<1>9. CASE WaitEnds
  BY <1>9 DEF WaitEnds, RunnerAt, processes, sources, setting
<1>10. CASE CheckRun \/ CheckRuntime \/ CompareSources
           \/ Precommit \/ Publish \/ Settle \/ Commit
  <2>1. GateEffect
    BY <1>10, GateMoves
  <2>2. outcome' = "committed" => outcome = "committed" \/ runner = "commit"
    BY <2>1 DEF GateEffect
  <2>3. runner = "commit" =>
          /\ \A part \in Parts : ran[part] = {captured[part]}
          /\ \A s \in Sources : staged[s].same => used[s] = {recorded[s]}
    BY DEF OneRuntime, Compared, Comparing, OneContent
  <2>4. QED
    BY <2>1, <2>2, <2>3 DEF GateEffect
<1>11. CASE RunnerWipes
  <2>1. RunnerWipeEffect
    BY <1>11, RunnerWipeMoves
  <2>2. QED
    BY <2>1 DEF RunnerWipeEffect
<1>12. CASE ReleaseLeases
  BY <1>12 DEF ReleaseLeases, LeasesGo, RunnerAt, processes, sources, setting
<1>13. CASE Mark
  BY <1>13 DEF Mark, RunnerAt, processes, sources, setting
<1>14. CASE Join
  BY <1>14 DEF Join, RunnerAt, processes, sources, setting
<1>15. CASE StartCommand
  BY <1>15 DEF StartCommand, processes, sources, setting
<1>16. CASE Report
  BY <1>16 DEF Report, processes, sources, setting
<1>17. CASE KillCommand
  BY <1>17 DEF KillCommand, processes, sources, setting
<1>18. CASE SupervisorWipes
  <2>1. SupervisorWipeEffect
    BY <1>18, SupervisorWipeMoves
  <2>2. QED
    BY <2>1 DEF SupervisorWipeEffect
<1>19. CASE GuardianReads
  BY <1>19 DEF GuardianReads, processes, sources, setting
<1>20. CASE GuardianWipes
  <2>1. GuardianWipeEffect
    BY <1>20, GuardianWipeMoves
  <2>2. QED
    BY <2>1 DEF GuardianWipeEffect
<1>21. CASE CommandEnds
  BY <1>21 DEF CommandEnds, processes, sources, setting
<1>22. ASSUME NEW s \in Sources, NEW c \in Contents, WriteInPlace(s, c)
       PROVE  RecordedMeansUsed'
  BY <1>22 DEF WriteInPlace, Edit, processes, sources, setting
<1>23. ASSUME NEW s \in Sources, NEW c \in Contents, Replace(s, c)
       PROVE  RecordedMeansUsed'
  BY <1>23 DEF Replace, Edit, processes, sources, setting
<1>24. ASSUME NEW s \in Sources, LeaseTimesOut(s) PROVE RecordedMeansUsed'
  <2>1. UNCHANGED <<command, outcome, ran, captured, recorded>> /\ Lands(s, writer[s])
        /\ lease[s] = "breaking"
    BY <1>24 DEF LeaseTimesOut, processes
  <2>2. writer[s] \in Contents
    BY <2>1 DEF TypeOK, Unwritten
  <2>3. outcome = "committed" => command # "running"
    BY DEF Order
  <2>4. QED
    BY <2>1, <2>2, <2>3, LandsEffect
<1>25. ASSUME NEW part \in Parts, NEW c \in Contents, Upgrade(part, c)
       PROVE  RecordedMeansUsed'
  BY <1>25 DEF Upgrade, Edit, processes, sources, setting
<1>26. CASE Interrupt
  BY <1>26 DEF Interrupt, processes, sources, setting
<1>30. CASE RunnerInterrupted
  BY <1>30 DEF RunnerInterrupted, Handles, Alive, processes, sources, setting
<1>31. CASE SupervisorInterrupted
  BY <1>31 DEF SupervisorInterrupted, Handles, Alive, CommandOrphaned, processes, sources, setting
<1>32. CASE GuardianInterrupted
  BY <1>32 DEF GuardianInterrupted, Handles, Alive, processes, sources, setting
<1>27. ASSUME NEW p \in Processes, Kill(p)
       PROVE  RecordedMeansUsed'
  BY <1>27 DEF Kill, Alive, CommandOrphaned, processes, sources, setting
<1>28. CASE UNCHANGED vars
  BY <1>28 DEF vars, processes, sources, setting
<1>29. QED
  BY <1>1, <1>2, <1>3, <1>4, <1>5, <1>6, <1>7, <1>8, <1>9, <1>10, <1>11, <1>12, <1>13,
     <1>14, <1>15, <1>16, <1>17, <1>18, <1>19, <1>20, <1>21, <1>22, <1>23, <1>24, <1>25,
     <1>26, <1>30, <1>31, <1>32, <1>27, <1>28 DEF Next, RunnerStep, SupervisorStep, GuardianStep, Outside

-----------------------------------------------------------------------------
(* Types *)

(* The parts of TypeOK. *)
RunnerTyped == runner \in RunnerPlaces

OthersTyped ==
    /\ supervisor \in {"none", "start", "watch", "done", "dead"} \cup Wipes
    /\ guardian \in {"none", "read", "done", "dead"} \cup Wipes
    /\ command \in {"none", "running", "good", "bad", "killed"}
    /\ verdict \in {"none", "good", "bad", "stopped"}
    /\ outcome \in {"none", "prepared", "committed"}

FlagsTyped == {workspace, marker, pipe, flagged} \subseteq BOOLEAN

SourcesTyped ==
    /\ live \in [Sources -> Contents]
    /\ recorded \in [Sources -> Contents \cup {Nothing}]
    /\ writer \in [Sources -> Contents \cup {Nothing}]
    /\ staged \in [Sources -> [how : {"no", "copied", "bound"},
                              holds : Contents \cup {Nothing}, same : BOOLEAN]]
    /\ lease \in [Sources -> {"none", "held", "breaking", "broken"}]
    /\ \A s \in Trees : staged[s].how # "bound" /\ lease[s] = "none"
    /\ used \in [Sources -> SUBSET (Contents \cup {Nothing})]

RuntimeTyped ==
    /\ runtime \in [Parts -> Contents]
    /\ captured \in [Parts -> Contents \cup {Nothing}]
    /\ ran \in [Parts -> SUBSET Contents]
    /\ edits \in Nat
    /\ sandbox \in Sandboxes /\ struck \subseteq Processes
    /\ faults \subseteq {"interrupt"} \cup Processes

LEMMA TypeParts ==
    /\ TypeOK <=> RunnerTyped /\ OthersTyped /\ FlagsTyped /\ SourcesTyped /\ RuntimeTyped
    /\ TypeOK' <=>
          RunnerTyped' /\ OthersTyped' /\ FlagsTyped' /\ SourcesTyped' /\ RuntimeTyped'
BY DEF TypeOK, RunnerTyped, OthersTyped, FlagsTyped, SourcesTyped, RuntimeTyped

(* The runner is at one of its places. *)
LEMMA RunnerKept ==
    ASSUME RunnerTyped, [Next]_vars
    PROVE  RunnerTyped'
<1> USE DEF RunnerTyped
<1>1. CASE Recorded
  BY <1>1 DEF Recorded, RunnerAt, RunnerPlaces, Wipes, Gone, processes, sources, setting
<1>2. ASSUME NEW s \in Sources, Record(s) PROVE RunnerTyped'
  BY <1>2 DEF Record, processes, sources, setting
<1>3. CASE CaptureLauncher \/ CaptureVenv \/ CaptureManifests
  <2>1. CaptureEffect
    BY <1>3, CaptureMoves
  <2>2. QED
    BY <2>1 DEF CaptureEffect, Early, RunnerPlaces
<1>4. CASE MakeWorkspace
  BY <1>4 DEF MakeWorkspace, RunnerAt, RunnerPlaces, Wipes, Gone, processes, sources,
     setting
<1>5. CASE ForkGuardian
  BY <1>5 DEF ForkGuardian, RunnerAt, RunnerPlaces, Wipes, Gone, processes, sources,
     setting
<1>6. ASSUME NEW s \in Sources, Stage(s) PROVE RunnerTyped'
  BY <1>6 DEF Stage, CopyOf, PinOf, processes, sources, setting
<1>7. CASE Launch
  BY <1>7 DEF Launch, RunnerAt, RunnerPlaces, Wipes, Gone, processes, sources, setting
<1>8. CASE NoticeBrokenLease
  BY <1>8 DEF NoticeBrokenLease, processes, sources, setting
<1>9. CASE WaitEnds
  BY <1>9 DEF WaitEnds, RunnerAt, RunnerPlaces, Wipes, Gone, processes, sources, setting
<1>10. CASE CheckRun \/ CheckRuntime \/ CompareSources
           \/ Precommit \/ Publish \/ Settle \/ Commit
  <2>1. GateEffect
    BY <1>10, GateMoves
  <2>2. QED
    BY <2>1 DEF GateEffect, Accepted, Comparing, RunnerPlaces, Wipes
<1>11. CASE RunnerWipes
  <2>1. RunnerWipeEffect
    BY <1>11, RunnerWipeMoves
  <2>2. QED
    BY <2>1 DEF RunnerWipeEffect, RunnerPlaces, Wipes
<1>12. CASE ReleaseLeases
  BY <1>12 DEF ReleaseLeases, LeasesGo, RunnerAt, RunnerPlaces, Wipes, Gone, processes,
     sources, setting
<1>13. CASE Mark
  BY <1>13 DEF Mark, RunnerAt, RunnerPlaces, Wipes, Gone, processes, sources, setting
<1>14. CASE Join
  BY <1>14 DEF Join, RunnerAt, RunnerPlaces, Wipes, Gone, processes, sources, setting
<1>15. CASE StartCommand
  BY <1>15 DEF StartCommand, processes, sources, setting
<1>16. CASE Report
  BY <1>16 DEF Report, processes, sources, setting
<1>17. CASE KillCommand
  BY <1>17 DEF KillCommand, processes, sources, setting
<1>18. CASE SupervisorWipes
  <2>1. SupervisorWipeEffect
    BY <1>18, SupervisorWipeMoves
  <2>2. QED
    BY <2>1 DEF SupervisorWipeEffect
<1>19. CASE GuardianReads
  BY <1>19 DEF GuardianReads, processes, sources, setting
<1>20. CASE GuardianWipes
  <2>1. GuardianWipeEffect
    BY <1>20, GuardianWipeMoves
  <2>2. QED
    BY <2>1 DEF GuardianWipeEffect
<1>21. CASE CommandEnds
  BY <1>21 DEF CommandEnds, processes, sources, setting
<1>22. ASSUME NEW s \in Sources, NEW c \in Contents, WriteInPlace(s, c) PROVE RunnerTyped'
  BY <1>22 DEF WriteInPlace, Edit, processes, sources, setting
<1>23. ASSUME NEW s \in Sources, NEW c \in Contents, Replace(s, c) PROVE RunnerTyped'
  BY <1>23 DEF Replace, Edit, processes, sources, setting
<1>24. ASSUME NEW s \in Sources, LeaseTimesOut(s) PROVE RunnerTyped'
  BY <1>24 DEF LeaseTimesOut, processes, sources, setting
<1>25. ASSUME NEW part \in Parts, NEW c \in Contents, Upgrade(part, c) PROVE RunnerTyped'
  BY <1>25 DEF Upgrade, Edit, processes, sources, setting
<1>26. CASE Interrupt
  BY <1>26 DEF Interrupt, RunnerPlaces, Wipes, Gone, processes, sources, setting
<1>30. CASE RunnerInterrupted
  BY <1>30 DEF RunnerInterrupted, Handles, Alive, RunnerPlaces, Wipes, Gone, processes, sources, setting
<1>31. CASE SupervisorInterrupted
  BY <1>31 DEF SupervisorInterrupted, Handles, Alive, CommandOrphaned, RunnerPlaces, Wipes, Gone, processes, sources, setting
<1>32. CASE GuardianInterrupted
  BY <1>32 DEF GuardianInterrupted, Handles, Alive, RunnerPlaces, Wipes, Gone, processes, sources, setting
<1>27. ASSUME NEW p \in Processes, Kill(p) PROVE RunnerTyped'
  <2>1. runner' \in {runner, "dead"}
    BY <1>27 DEF Kill, Alive, CommandOrphaned
  <2>2. QED
    BY <2>1 DEF RunnerPlaces, Gone
<1>28. CASE UNCHANGED vars
  BY <1>28 DEF vars, processes, sources, setting
<1>29. QED
  BY <1>1, <1>2, <1>3, <1>4, <1>5, <1>6, <1>7, <1>8, <1>9, <1>10, <1>11, <1>12, <1>13,
     <1>14, <1>15, <1>16, <1>17, <1>18, <1>19, <1>20, <1>21, <1>22, <1>23, <1>24, <1>25,
     <1>26, <1>30, <1>31, <1>32, <1>27, <1>28 DEF Next, RunnerStep, SupervisorStep, GuardianStep, Outside

(* So are the supervisor, the guardian, the command and the transaction. *)
LEMMA OthersKept ==
    ASSUME OthersTyped, [Next]_vars
    PROVE  OthersTyped'
<1> USE DEF OthersTyped, Wipes
<1>1. CASE Recorded
  BY <1>1 DEF Recorded, RunnerAt, processes, sources, setting
<1>2. ASSUME NEW s \in Sources, Record(s) PROVE OthersTyped'
  BY <1>2 DEF Record, processes, sources, setting
<1>3. CASE CaptureLauncher \/ CaptureVenv \/ CaptureManifests
  <2>1. CaptureEffect
    BY <1>3, CaptureMoves
  <2>2. QED
    BY <2>1 DEF CaptureEffect
<1>4. CASE MakeWorkspace
  BY <1>4 DEF MakeWorkspace, RunnerAt, processes, sources, setting
<1>5. CASE ForkGuardian
  BY <1>5 DEF ForkGuardian, RunnerAt, processes, sources, setting
<1>6. ASSUME NEW s \in Sources, Stage(s) PROVE OthersTyped'
  BY <1>6 DEF Stage, CopyOf, PinOf, processes, sources, setting
<1>7. CASE Launch
  BY <1>7 DEF Launch, RunnerAt, processes, sources, setting
<1>8. CASE NoticeBrokenLease
  BY <1>8 DEF NoticeBrokenLease, processes, sources, setting
<1>9. CASE WaitEnds
  BY <1>9 DEF WaitEnds, RunnerAt, processes, sources, setting
<1>10. CASE CheckRun \/ CheckRuntime \/ CompareSources
           \/ Precommit \/ Publish \/ Settle \/ Commit
  <2>1. GateEffect
    BY <1>10, GateMoves
  <2>2. QED
    BY <2>1 DEF GateEffect
<1>11. CASE RunnerWipes
  <2>1. RunnerWipeEffect
    BY <1>11, RunnerWipeMoves
  <2>2. QED
    BY <2>1 DEF RunnerWipeEffect
<1>12. CASE ReleaseLeases
  BY <1>12 DEF ReleaseLeases, LeasesGo, RunnerAt, processes, sources, setting
<1>13. CASE Mark
  BY <1>13 DEF Mark, RunnerAt, processes, sources, setting
<1>14. CASE Join
  BY <1>14 DEF Join, RunnerAt, processes, sources, setting
<1>15. CASE StartCommand
  BY <1>15 DEF StartCommand, processes, sources, setting
<1>16. CASE Report
  BY <1>16 DEF Report, processes, sources, setting
<1>17. CASE KillCommand
  BY <1>17 DEF KillCommand, processes, sources, setting
<1>18. CASE SupervisorWipes
  <2>1. SupervisorWipeEffect
    BY <1>18, SupervisorWipeMoves
  <2>2. QED
    BY <2>1 DEF SupervisorWipeEffect
<1>19. CASE GuardianReads
  BY <1>19 DEF GuardianReads, processes, sources, setting
<1>20. CASE GuardianWipes
  <2>1. GuardianWipeEffect
    BY <1>20, GuardianWipeMoves
  <2>2. QED
    BY <2>1 DEF GuardianWipeEffect
<1>21. CASE CommandEnds
  BY <1>21 DEF CommandEnds, processes, sources, setting
<1>22. ASSUME NEW s \in Sources, NEW c \in Contents, WriteInPlace(s, c) PROVE OthersTyped'
  BY <1>22 DEF WriteInPlace, Edit, processes, sources, setting
<1>23. ASSUME NEW s \in Sources, NEW c \in Contents, Replace(s, c) PROVE OthersTyped'
  BY <1>23 DEF Replace, Edit, processes, sources, setting
<1>24. ASSUME NEW s \in Sources, LeaseTimesOut(s) PROVE OthersTyped'
  BY <1>24 DEF LeaseTimesOut, processes, sources, setting
<1>25. ASSUME NEW part \in Parts, NEW c \in Contents, Upgrade(part, c) PROVE OthersTyped'
  BY <1>25 DEF Upgrade, Edit, processes, sources, setting
<1>26. CASE Interrupt
  BY <1>26 DEF Interrupt, processes, sources, setting
<1>30. CASE RunnerInterrupted
  BY <1>30 DEF RunnerInterrupted, Handles, Alive, processes, sources, setting
<1>31. CASE SupervisorInterrupted
  BY <1>31 DEF SupervisorInterrupted, Handles, Alive, CommandOrphaned, processes, sources, setting
<1>32. CASE GuardianInterrupted
  BY <1>32 DEF GuardianInterrupted, Handles, Alive, processes, sources, setting
<1>27. ASSUME NEW p \in Processes, Kill(p) PROVE OthersTyped'
  <2>1. /\ supervisor' \in {supervisor, "dead"} /\ guardian' \in {guardian, "dead"}
        /\ command' \in {command, "killed"} /\ verdict' \in {verdict, "stopped"}
        /\ outcome' = outcome
    BY <1>27 DEF Kill, Alive, CommandOrphaned
  <2>2. QED
    BY <2>1
<1>28. CASE UNCHANGED vars
  BY <1>28 DEF vars, processes, sources, setting
<1>29. QED
  BY <1>1, <1>2, <1>3, <1>4, <1>5, <1>6, <1>7, <1>8, <1>9, <1>10, <1>11, <1>12, <1>13,
     <1>14, <1>15, <1>16, <1>17, <1>18, <1>19, <1>20, <1>21, <1>22, <1>23, <1>24, <1>25,
     <1>26, <1>30, <1>31, <1>32, <1>27, <1>28 DEF Next, RunnerStep, SupervisorStep, GuardianStep, Outside

(* The flags are flags. *)
LEMMA FlagsKept ==
    ASSUME FlagsTyped, [Next]_vars
    PROVE  FlagsTyped'
<1> USE DEF FlagsTyped
<1>1. CASE Recorded
  BY <1>1 DEF Recorded, RunnerAt, processes, sources, setting
<1>2. ASSUME NEW s \in Sources, Record(s) PROVE FlagsTyped'
  BY <1>2 DEF Record, processes, sources, setting
<1>3. CASE CaptureLauncher \/ CaptureVenv \/ CaptureManifests
  <2>1. CaptureEffect
    BY <1>3, CaptureMoves
  <2>2. QED
    BY <2>1 DEF CaptureEffect
<1>4. CASE MakeWorkspace
  BY <1>4 DEF MakeWorkspace, RunnerAt, processes, sources, setting
<1>5. CASE ForkGuardian
  BY <1>5 DEF ForkGuardian, RunnerAt, processes, sources, setting
<1>6. ASSUME NEW s \in Sources, Stage(s) PROVE FlagsTyped'
  BY <1>6 DEF Stage, CopyOf, PinOf, processes, sources, setting
<1>7. CASE Launch
  BY <1>7 DEF Launch, RunnerAt, processes, sources, setting
<1>8. CASE NoticeBrokenLease
  BY <1>8 DEF NoticeBrokenLease, processes, sources, setting
<1>9. CASE WaitEnds
  BY <1>9 DEF WaitEnds, RunnerAt, processes, sources, setting
<1>10. CASE CheckRun \/ CheckRuntime \/ CompareSources
           \/ Precommit \/ Publish \/ Settle \/ Commit
  <2>1. GateEffect
    BY <1>10, GateMoves
  <2>2. QED
    BY <2>1 DEF GateEffect
<1>11. CASE RunnerWipes
  BY <1>11 DEF RunnerWipes, WipeEnds, processes, sources, setting
<1>12. CASE ReleaseLeases
  BY <1>12 DEF ReleaseLeases, LeasesGo, RunnerAt, processes, sources, setting
<1>13. CASE Mark
  BY <1>13 DEF Mark, RunnerAt, processes, sources, setting
<1>14. CASE Join
  BY <1>14 DEF Join, RunnerAt, processes, sources, setting
<1>15. CASE StartCommand
  BY <1>15 DEF StartCommand, processes, sources, setting
<1>16. CASE Report
  BY <1>16 DEF Report, processes, sources, setting
<1>17. CASE KillCommand
  BY <1>17 DEF KillCommand, processes, sources, setting
<1>18. CASE SupervisorWipes
  BY <1>18 DEF SupervisorWipes, WipeEnds, processes, sources, setting
<1>19. CASE GuardianReads
  BY <1>19 DEF GuardianReads, processes, sources, setting
<1>20. CASE GuardianWipes
  BY <1>20 DEF GuardianWipes, WipeEnds, processes, sources, setting
<1>21. CASE CommandEnds
  BY <1>21 DEF CommandEnds, processes, sources, setting
<1>22. ASSUME NEW s \in Sources, NEW c \in Contents, WriteInPlace(s, c) PROVE FlagsTyped'
  BY <1>22 DEF WriteInPlace, Edit, processes, sources, setting
<1>23. ASSUME NEW s \in Sources, NEW c \in Contents, Replace(s, c) PROVE FlagsTyped'
  BY <1>23 DEF Replace, Edit, processes, sources, setting
<1>24. ASSUME NEW s \in Sources, LeaseTimesOut(s) PROVE FlagsTyped'
  BY <1>24 DEF LeaseTimesOut, processes, sources, setting
<1>25. ASSUME NEW part \in Parts, NEW c \in Contents, Upgrade(part, c) PROVE FlagsTyped'
  BY <1>25 DEF Upgrade, Edit, processes, sources, setting
<1>26. CASE Interrupt
  BY <1>26 DEF Interrupt, processes, sources, setting
<1>30. CASE RunnerInterrupted
  BY <1>30 DEF RunnerInterrupted, Handles, Alive, processes, sources, setting
<1>31. CASE SupervisorInterrupted
  BY <1>31 DEF SupervisorInterrupted, Handles, Alive, CommandOrphaned, processes, sources, setting
<1>32. CASE GuardianInterrupted
  BY <1>32 DEF GuardianInterrupted, Handles, Alive, processes, sources, setting
<1>27. ASSUME NEW p \in Processes, Kill(p) PROVE FlagsTyped'
  BY <1>27 DEF Kill, Alive, CommandOrphaned, processes, sources, setting
<1>28. CASE UNCHANGED vars
  BY <1>28 DEF vars, processes, sources, setting
<1>29. QED
  BY <1>1, <1>2, <1>3, <1>4, <1>5, <1>6, <1>7, <1>8, <1>9, <1>10, <1>11, <1>12, <1>13,
     <1>14, <1>15, <1>16, <1>17, <1>18, <1>19, <1>20, <1>21, <1>22, <1>23, <1>24, <1>25,
     <1>26, <1>30, <1>31, <1>32, <1>27, <1>28 DEF Next, RunnerStep, SupervisorStep, GuardianStep, Outside

(* Contents, leases and what waits for them. *)
LEMMA SourcesKept ==
    ASSUME TypeOK, Unwritten, [Next]_vars
    PROVE  SourcesTyped'
<1> USE DEF SourcesTyped, TypeOK
<1>1. CASE Recorded
  BY <1>1 DEF Recorded, RunnerAt, processes, sources, setting
<1>2. ASSUME NEW s \in Sources, Record(s) PROVE SourcesTyped'
  BY <1>2 DEF Record, processes, sources, setting
<1>3. CASE CaptureLauncher \/ CaptureVenv \/ CaptureManifests
  <2>1. CaptureEffect
    BY <1>3, CaptureMoves
  <2>2. QED
    BY <2>1 DEF CaptureEffect
<1>4. CASE MakeWorkspace
  BY <1>4 DEF MakeWorkspace, RunnerAt, processes, sources, setting
<1>5. CASE ForkGuardian
  BY <1>5 DEF ForkGuardian, RunnerAt, processes, sources, setting
<1>6. ASSUME NEW s \in Sources, Stage(s) PROVE SourcesTyped'
  <2>1. UNCHANGED <<live, recorded, writer, used>>
    BY <1>6 DEF Stage, setting
  <2>2. live[s] \in Contents /\ (s \in Trees => s \notin Files)
    BY SandboxAssumption
  <2>3. CASE staged' = [staged EXCEPT ![s] = CopyOf(s)] /\ UNCHANGED lease
    BY <2>1, <2>2, <2>3 DEF CopyOf
  <2>4. CASE /\ s \in Files /\ staged' = [staged EXCEPT ![s] = PinOf(s)]
             /\ lease' = [lease EXCEPT ![s] = "held"]
    BY <2>1, <2>2, <2>4 DEF PinOf
  <2>5. QED
    BY <1>6, <2>3, <2>4 DEF Stage
<1>7. CASE Launch
  BY <1>7 DEF Launch, RunnerAt, processes, sources, setting
<1>8. CASE NoticeBrokenLease
  BY <1>8 DEF NoticeBrokenLease, processes, sources, setting
<1>9. CASE WaitEnds
  BY <1>9 DEF WaitEnds, RunnerAt, processes, sources, setting
<1>10. CASE CheckRun \/ CheckRuntime \/ CompareSources
           \/ Precommit \/ Publish \/ Settle \/ Commit
  <2>1. GateEffect
    BY <1>10, GateMoves
  <2>2. QED
    BY <2>1 DEF GateEffect
<1>11. CASE RunnerWipes
  <2>1. RunnerWipeEffect
    BY <1>11, RunnerWipeMoves
  <2>2. QED
    BY <2>1 DEF RunnerWipeEffect
<1>12. CASE ReleaseLeases
  <2>1. UNCHANGED <<recorded, staged, used>>
    BY <1>12 DEF ReleaseLeases, LeasesGo, setting
  <2>2. /\ live' = [s \in Sources |-> IF writer[s] # Nothing THEN writer[s] ELSE live[s]]
        /\ writer' = [s \in Sources |-> Nothing] /\ lease' = [s \in Sources |-> "none"]
    BY <1>12 DEF ReleaseLeases, LeasesGo
  <2>3. QED
    BY <2>1, <2>2 DEF Sources
<1>13. CASE Mark
  BY <1>13 DEF Mark, RunnerAt, processes, sources, setting
<1>14. CASE Join
  BY <1>14 DEF Join, RunnerAt, processes, sources, setting
<1>15. CASE StartCommand
  BY <1>15 DEF StartCommand, processes, sources, setting
<1>16. CASE Report
  BY <1>16 DEF Report, processes, sources, setting
<1>17. CASE KillCommand
  BY <1>17 DEF KillCommand, processes, sources, setting
<1>18. CASE SupervisorWipes
  <2>1. SupervisorWipeEffect
    BY <1>18, SupervisorWipeMoves
  <2>2. QED
    BY <2>1 DEF SupervisorWipeEffect
<1>19. CASE GuardianReads
  BY <1>19 DEF GuardianReads, processes, sources, setting
<1>20. CASE GuardianWipes
  <2>1. GuardianWipeEffect
    BY <1>20, GuardianWipeMoves
  <2>2. QED
    BY <2>1 DEF GuardianWipeEffect
<1>21. CASE CommandEnds
  BY <1>21 DEF CommandEnds, processes, sources, setting
<1>22. ASSUME NEW s \in Sources, NEW c \in Contents, WriteInPlace(s, c)
       PROVE  SourcesTyped'
  <2>1. recorded' = recorded
    BY <1>22 DEF WriteInPlace
  <2>2. CASE Lands(s, c) /\ UNCHANGED <<lease, writer, flagged>>
    <3>1. /\ live' = [t \in Sources |-> IF t = s THEN c ELSE live[t]]
          /\ used' \in [Sources -> SUBSET (Contents \cup {Nothing})]
          /\ staged' \in [Sources -> [how : {"no", "copied", "bound"},
                                     holds : Contents \cup {Nothing}, same : BOOLEAN]]
      BY <2>2, LandsEffect
    <3>2. live' \in [Sources -> Contents]
      BY <3>1
    <3>3. \A t \in Trees : staged'[t].how = staged[t].how
      BY <2>2, LandsEffect DEF Sources
    <3>4. QED
      BY <2>1, <2>2, <3>1, <3>2, <3>3
  <2>3. CASE /\ Tracked(s) /\ lease[s] = "held"
             /\ lease' = [lease EXCEPT ![s] = "breaking"]
             /\ writer' = [writer EXCEPT ![s] = c]
             /\ UNCHANGED <<live, staged, used>>
    BY <2>1, <2>3
  <2>4. QED
    BY <1>22, <2>2, <2>3 DEF WriteInPlace
<1>23. ASSUME NEW s \in Sources, NEW c \in Contents, Replace(s, c) PROVE SourcesTyped'
  <2>1. UNCHANGED <<recorded, lease, writer, used>>
    BY <1>23 DEF Replace
  <2>2. live' \in [Sources -> Contents]
    BY <1>23, ReplaceEffect
  <2>3. \A t \in Trees : staged'[t].how = staged[t].how
    BY <1>23, ReplaceEffect DEF Sources
  <2>4. QED
    BY <1>23, <2>1, <2>2, <2>3, ReplaceEffect
<1>24. ASSUME NEW s \in Sources, LeaseTimesOut(s) PROVE SourcesTyped'
  <2>1. /\ recorded' = recorded /\ lease[s] = "breaking" /\ Lands(s, writer[s])
        /\ lease' = [lease EXCEPT ![s] = "broken"]
        /\ writer' = [writer EXCEPT ![s] = Nothing]
    BY <1>24 DEF LeaseTimesOut
  <2>2. writer[s] \in Contents
    BY <2>1 DEF Unwritten
  <2>3. /\ live' = [t \in Sources |-> IF t = s THEN writer[s] ELSE live[t]]
        /\ used' \in [Sources -> SUBSET (Contents \cup {Nothing})]
        /\ staged' \in [Sources -> [how : {"no", "copied", "bound"},
                                   holds : Contents \cup {Nothing}, same : BOOLEAN]]
    BY <2>1, <2>2, LandsEffect
  <2>4. live' \in [Sources -> Contents]
    BY <2>2, <2>3
  <2>5. \A t \in Trees : staged'[t].how = staged[t].how
    BY <2>1, <2>2, LandsEffect DEF Sources
  <2>6. /\ writer' \in [Sources -> Contents \cup {Nothing}]
        /\ lease' \in [Sources -> {"none", "held", "breaking", "broken"}]
    BY <2>1
  <2>7. \A t \in Trees : lease'[t] = "none"
    BY <2>1 DEF Sources
  <2>8. QED
    BY <2>1, <2>3, <2>4, <2>5, <2>6, <2>7
<1>25. ASSUME NEW part \in Parts, NEW c \in Contents, Upgrade(part, c) PROVE SourcesTyped'
  BY <1>25 DEF Upgrade, Edit, processes, sources, setting
<1>26. CASE Interrupt
  BY <1>26 DEF Interrupt, processes, sources, setting
<1>30. CASE RunnerInterrupted
  BY <1>30 DEF RunnerInterrupted, Handles, Alive, processes, sources, setting
<1>31. CASE SupervisorInterrupted
  BY <1>31 DEF SupervisorInterrupted, Handles, Alive, CommandOrphaned, processes, sources, setting
<1>32. CASE GuardianInterrupted
  BY <1>32 DEF GuardianInterrupted, Handles, Alive, processes, sources, setting
<1>27. ASSUME NEW p \in Processes, Kill(p) PROVE SourcesTyped'
  <2>1. UNCHANGED <<recorded, staged, used>>
    BY <1>27 DEF Kill, Alive, CommandOrphaned
  <2>2. CASE UNCHANGED <<live, writer, lease>>
    BY <2>1, <2>2
  <2>3. CASE
          /\ live' = [s \in Sources |-> IF writer[s] # Nothing THEN writer[s] ELSE live[s]]
          /\ writer' = [s \in Sources |-> Nothing] /\ lease' = [s \in Sources |-> "none"]
    BY <2>1, <2>3 DEF Sources
  <2>4. QED
    BY <1>27, <2>2, <2>3 DEF Kill
<1>28. CASE UNCHANGED vars
  BY <1>28 DEF vars, processes, sources, setting
<1>29. QED
  BY <1>1, <1>2, <1>3, <1>4, <1>5, <1>6, <1>7, <1>8, <1>9, <1>10, <1>11, <1>12, <1>13,
     <1>14, <1>15, <1>16, <1>17, <1>18, <1>19, <1>20, <1>21, <1>22, <1>23, <1>24, <1>25,
     <1>26, <1>30, <1>31, <1>32, <1>27, <1>28 DEF Next, RunnerStep, SupervisorStep, GuardianStep, Outside

(* The runtime, its captures and the bounds. *)
LEMMA RuntimeTypeKept ==
    ASSUME RuntimeTyped, [Next]_vars
    PROVE  RuntimeTyped'
<1> USE DEF RuntimeTyped, Parts
<1>1. CASE Recorded
  BY <1>1 DEF Recorded, RunnerAt, processes, sources, setting
<1>2. ASSUME NEW s \in Sources, Record(s) PROVE RuntimeTyped'
  BY <1>2 DEF Record, processes, sources, setting
<1>3. CASE CaptureLauncher \/ CaptureVenv \/ CaptureManifests
  <2>1. CaptureEffect
    BY <1>3, CaptureMoves
  <2>2. QED
    BY <2>1 DEF CaptureEffect
<1>4. CASE MakeWorkspace
  BY <1>4 DEF MakeWorkspace, RunnerAt, processes, sources, setting
<1>5. CASE ForkGuardian
  BY <1>5 DEF ForkGuardian, RunnerAt, processes, sources, setting
<1>6. ASSUME NEW s \in Sources, Stage(s) PROVE RuntimeTyped'
  BY <1>6 DEF Stage, CopyOf, PinOf, processes, sources, setting
<1>7. CASE Launch
  BY <1>7 DEF Launch, RunnerAt, processes, sources, setting
<1>8. CASE NoticeBrokenLease
  BY <1>8 DEF NoticeBrokenLease, processes, sources, setting
<1>9. CASE WaitEnds
  BY <1>9 DEF WaitEnds, RunnerAt, processes, sources, setting
<1>10. CASE CheckRun \/ CheckRuntime \/ CompareSources
           \/ Precommit \/ Publish \/ Settle \/ Commit
  <2>1. GateEffect
    BY <1>10, GateMoves
  <2>2. QED
    BY <2>1 DEF GateEffect
<1>11. CASE RunnerWipes
  <2>1. RunnerWipeEffect
    BY <1>11, RunnerWipeMoves
  <2>2. QED
    BY <2>1 DEF RunnerWipeEffect
<1>12. CASE ReleaseLeases
  BY <1>12 DEF ReleaseLeases, LeasesGo, RunnerAt, processes, sources, setting
<1>13. CASE Mark
  BY <1>13 DEF Mark, RunnerAt, processes, sources, setting
<1>14. CASE Join
  BY <1>14 DEF Join, RunnerAt, processes, sources, setting
<1>15. CASE StartCommand
  BY <1>15 DEF StartCommand, processes, sources, setting
<1>16. CASE Report
  BY <1>16 DEF Report, processes, sources, setting
<1>17. CASE KillCommand
  BY <1>17 DEF KillCommand, processes, sources, setting
<1>18. CASE SupervisorWipes
  <2>1. SupervisorWipeEffect
    BY <1>18, SupervisorWipeMoves
  <2>2. QED
    BY <2>1 DEF SupervisorWipeEffect
<1>19. CASE GuardianReads
  BY <1>19 DEF GuardianReads, processes, sources, setting
<1>20. CASE GuardianWipes
  <2>1. GuardianWipeEffect
    BY <1>20, GuardianWipeMoves
  <2>2. QED
    BY <2>1 DEF GuardianWipeEffect
<1>21. CASE CommandEnds
  BY <1>21 DEF CommandEnds, processes, sources, setting
<1>22. ASSUME NEW s \in Sources, NEW c \in Contents, WriteInPlace(s, c)
       PROVE  RuntimeTyped'
  BY <1>22, SandboxAssumption DEF WriteInPlace, Edit, processes, sources, setting
<1>23. ASSUME NEW s \in Sources, NEW c \in Contents, Replace(s, c) PROVE RuntimeTyped'
  BY <1>23, SandboxAssumption DEF Replace, Edit, processes, sources, setting
<1>24. ASSUME NEW s \in Sources, LeaseTimesOut(s) PROVE RuntimeTyped'
  BY <1>24 DEF LeaseTimesOut, processes, sources, setting
<1>25. ASSUME NEW part \in Parts, NEW c \in Contents, Upgrade(part, c) PROVE RuntimeTyped'
  BY <1>25, SandboxAssumption DEF Upgrade, Edit, processes, sources, setting
<1>26. CASE Interrupt
  BY <1>26 DEF Interrupt, processes, sources, setting
<1>30. CASE RunnerInterrupted
  BY <1>30 DEF RunnerInterrupted, Handles, Alive, processes, sources, setting
<1>31. CASE SupervisorInterrupted
  BY <1>31 DEF SupervisorInterrupted, Handles, Alive, CommandOrphaned, processes, sources, setting
<1>32. CASE GuardianInterrupted
  BY <1>32 DEF GuardianInterrupted, Handles, Alive, processes, sources, setting
<1>27. ASSUME NEW p \in Processes, Kill(p) PROVE RuntimeTyped'
  BY <1>27 DEF Kill, Alive, CommandOrphaned, processes, sources, setting
<1>28. CASE UNCHANGED vars
  BY <1>28 DEF vars, processes, sources, setting
<1>29. QED
  BY <1>1, <1>2, <1>3, <1>4, <1>5, <1>6, <1>7, <1>8, <1>9, <1>10, <1>11, <1>12, <1>13,
     <1>14, <1>15, <1>16, <1>17, <1>18, <1>19, <1>20, <1>21, <1>22, <1>23, <1>24, <1>25,
     <1>26, <1>30, <1>31, <1>32, <1>27, <1>28 DEF Next, RunnerStep, SupervisorStep, GuardianStep, Outside

-----------------------------------------------------------------------------
(* The theorems *)

LEMMA InitHolds == Init => IInv
<1> SUFFICES ASSUME Init PROVE IInv
  OBVIOUS
<1>1. Before \in Contents
  BY SandboxAssumption DEF Before
<1>2. RunnerTyped /\ OthersTyped /\ FlagsTyped
  BY DEF Init, RunnerTyped, RunnerPlaces, OthersTyped, FlagsTyped
<1>3. SourcesTyped
  BY <1>1 DEF Init, SourcesTyped, Unstaged, Sources
<1>4. RuntimeTyped
  BY <1>1, SandboxAssumption DEF Init, RuntimeTyped
<1>5. Order /\ Cleanup
  BY DEF Init, Order, Cleanup, Early, Accepted, Comparing, Unwinding, Gone
<1>6. OneRuntime
  BY DEF Init, OneRuntime, Compared, Comparing
<1>7. Unwritten
  BY SandboxAssumption DEF Init, Unwritten, Intact, Bound, Unstaged, Early
<1>8. OneContent /\ RecordedMeansUsed
  BY DEF Init, OneContent, RecordedMeansUsed
<1>9. QED
  BY <1>2, <1>3, <1>4, <1>5, <1>6, <1>7, <1>8, TypeParts DEF IInv

LEMMA StepKeeps == IInv /\ [Next]_vars => IInv'
<1> SUFFICES ASSUME IInv, [Next]_vars PROVE IInv'
  OBVIOUS
<1>1. /\ TypeOK /\ Order /\ Cleanup /\ OneRuntime /\ Unwritten /\ OneContent
      /\ RecordedMeansUsed
  BY DEF IInv
<1>2. RunnerTyped' /\ OthersTyped' /\ FlagsTyped'
  BY <1>1, TypeParts, RunnerKept, OthersKept, FlagsKept
<1>3. SourcesTyped' /\ RuntimeTyped'
  BY <1>1, TypeParts, SourcesKept, RuntimeTypeKept
<1>4. TypeOK'
  BY <1>2, <1>3, TypeParts
<1>5. Order' /\ Cleanup'
  BY <1>1, OrderKept, CleanupKept
<1>6. OneRuntime' /\ Unwritten' /\ OneContent'
  BY <1>1, RuntimeKept, UnwrittenKept, ContentKept
<1>7. RecordedMeansUsed'
  BY <1>1, CommittedKept
<1>8. QED
  BY <1>4, <1>5, <1>6, <1>7 DEF IInv

LEMMA InvariantHolds == Spec => []IInv
<1>1. QED
  BY InitHolds, StepKeeps, PTL DEF Spec

(* A guardian that is through without a Control-C has nothing left to remove; *)
(* where it was killed, a runner that was not struck has ended by removing    *)
(* the workspace itself, unless the command has outlived its supervisor. *)
LEMMA SomebodyCleans == IInv => WorkspaceOwned
BY DEF IInv, Cleanup, WorkspaceOwned, Undisturbed, Unwatched, Struck, Gone

(* Every place of the runner, the supervisor and the guardian, every lease    *)
(* and every recorded content is one results_pipeline.py gives it.            *)
THEOREM TypeCorrect == Spec => []TypeOK
<1>1. IInv => TypeOK
  BY DEF IInv
<1>2. QED
  BY <1>1, InvariantHolds, PTL

(* command_run commits no receipt whose recorded sources or runtime are not   *)
(* what the command had, for any sources, contents and any number of writes,  *)
(* renames and upgrades at any point of the run.                              *)
THEOREM RecordedMeansUsedHolds == Spec => []RecordedMeansUsed
<1>1. IInv => RecordedMeansUsed
  BY DEF IInv
<1>2. QED
  BY <1>1, InvariantHolds, PTL

(* The guardian and the runner never both end with the workspace left behind, *)
(* unless the guardian was struck and with it the runner, or in macOS's       *)
(* sandbox the supervisor, for any order of kills and Control-Cs.             *)
THEOREM WorkspaceOwnedHolds == Spec => []WorkspaceOwned
<1>1. QED
  BY SomebodyCleans, InvariantHolds, PTL

=============================================================================
