SPECIFICATION Spec
CONSTANTS
  Threads = {t1, t2}
  MaxEvents = 3
  MaxSemaphores = 2
  PC = FALSE
  LocalTypes = {"PING", "WRITE"}
  RemoteTypes = {}
  MaxCalls = 4
  MaxRemote = 0
  MaxSessions = 1
  LinkMayFail = FALSE
  None = None
SYMMETRY ThreadSymmetry
CHECK_DEADLOCK FALSE
INVARIANTS
  NoDuplicateId
