SPECIFICATION Spec
CONSTANTS
    Receipts = {r1, r2, r3, r4}
    None = none
    Data = {d1}
    Modes = {TRUE, FALSE}
    MaxNamed = 1
    MaxEdits = 1
INVARIANTS
    OperandsAnchored
    PendingAlone
    PairsTravelTogether
    ReleasesCleared
CHECK_DEADLOCK FALSE
