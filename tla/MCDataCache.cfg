\* Every helper, two processes, files of two chunks.
SPECIFICATION CacheSpec
CONSTANTS
    Callers = {p, q}
    Sources = {"ffiec", "form5500", "schedule", "osbap", "treasury", "liuwu", "deepvest", "bhcf", "tables"}
INVARIANTS
    RenamedIsWhole
    ShortHasCause
    UnreadableHasCause
SYMMETRY Interchangeable
CHECK_DEADLOCK FALSE
