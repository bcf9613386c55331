\* One update with up to two faults of any kind, and a session: does everything that
\* was started come to an end?
SPECIFICATION FairSpec
CONSTANTS
  Updates = {u1}
  Sessions = {s1}
  Breakable = {"state", "ownership"}
  MaxFaults = 2
PROPERTIES SnapshotRemoved LockReleased
CHECK_DEADLOCK FALSE
