SPECIFICATION PaperSpec
CONSTANTS
    Receipts = {r1, r2}
    None = none
    Data = {}
    Modes = {FALSE}
    MaxNamed = 1
    MaxEdits = 1
    Attempts = {a1}
    Papers = {p1, p2}
SYMMETRY Alike
INVARIANTS
    BoundWasAudited
PROPERTIES
    BindingVerifies
CHECK_DEADLOCK FALSE
