------------------------- MODULE ResultsPublication -------------------------
(***************************************************************************)
(* What the results pipeline promises of a project's evidence: whoever     *)
(* reads the files and the registry while no transaction is unresolved     *)
(* sees every attempt published as a whole or not at all                   *)
(* (results_pipeline.py; results_evidence.md, "either rolls back a         *)
(* prepared publication or finishes a recorded terminal cleanup").         *)
(***************************************************************************)
CONSTANTS
    Paths,      \* evidence paths under output/
    Attempts,   \* names of lifecycle commands, each used at most once
    Absent,     \* no file at a path; a path the registry does not name
    Foreign     \* a file that no attempt has written

VARIABLES
    files,  \* what is at each path
    names,  \* what the registry, by its receipts, says is there
    by      \* the command that wrote the registry

vars == <<files, names, by>>

Init ==
    /\ files = [p \in Paths |-> Absent]
    /\ names = [p \in Paths |-> Absent]
    /\ by = Absent

(* An attempt's outputs, its receipt and its registry entry, all at once. *)
Publish(a, outputs) ==
    /\ files' = [p \in Paths |-> IF p \in outputs THEN a ELSE files[p]]
    /\ names' = [p \in Paths |-> IF p \in outputs THEN a ELSE names[p]]
    /\ by' = a

(* Activation and retirement change the registry alone. *)
Reregister(a, retired) ==
    /\ names' = [p \in Paths |-> IF p \in retired THEN Absent ELSE names[p]]
    /\ by' = a
    /\ UNCHANGED files

(* Files that are nobody's evidence come and go. *)
Disturb ==
    /\ files' \in [Paths -> Attempts \cup {Absent, Foreign}]
    /\ \A p \in Paths : files'[p] # files[p] =>
         names[p] = Absent /\ {files[p], files'[p]} = {Absent, Foreign}
    /\ UNCHANGED <<names, by>>

Next ==
    \/ \E a \in Attempts, outputs \in SUBSET Paths :
         Publish(a, outputs) \/ Reregister(a, outputs)
    \/ Disturb

Spec == Init /\ [][Next]_vars
=============================================================================
