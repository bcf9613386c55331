\* Two updates, one session, one fault of any kind; a session may break a
\* control checked after the assembly (MCUpdater_live.cfg has one before it too).
\* The system stops when both updates are over and the marker keeps the session out.
SPECIFICATION Spec
CONSTANTS
  Updates = {u1, u2}
  Sessions = {s1}
  Breakable = {"ownership"}
  MaxFaults = 1
INVARIANTS NoWriterOutlivesLock SnapshotOutlivesMain SessionSeesWhole
PROPERTIES SuccessMeansRefreshed
CHECK_DEADLOCK FALSE
SYMMETRY Alike
