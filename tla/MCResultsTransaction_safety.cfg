SPECIFICATION FairSpec
CONSTANTS
    Paths = {r1, e1, e2}
    Receipts = {r1}
    Attempts = {a1, a2}
    Absent = absent
    Foreign = foreign
    Partial = partial
    MaxFaults = 2
INVARIANTS
    EvidenceWhole
    Undoable
PROPERTIES
    PublicationAtomic
    EveryTransactionEnds
