\* Two analyses, one of them replicated; two edits, which may undo each other.
SPECIFICATION Spec
CONSTANTS
    Analyses = {a, b}
    Contents = {x, y}
    Replicated = {a}
    Edits = 2
INVARIANTS
    CleanMeansVerified
PROPERTIES
    PassWasRun
CHECK_DEADLOCK FALSE
