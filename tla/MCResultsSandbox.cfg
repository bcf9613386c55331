SPECIFICATION FairSpec
CONSTANTS
    Files = {file}
    Trees = {tree}
    Contents = {old, new}
    Events = 2
INVARIANTS RecordedMeansUsed WorkspaceOwned
PROPERTIES LeavesNothing
CHECK_DEADLOCK FALSE
