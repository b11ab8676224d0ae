SPECIFICATION Spec
CONSTANTS
  Threads = {t1}
  MaxEvents = 2
  MaxSemaphores = 1
  PC = TRUE
  LocalTypes = {"PING"}
  RemoteTypes = {"RESET"}
  MaxCalls = 3
  MaxRemote = 2
  MaxSessions = 2
  LinkMayFail = FALSE
  None = None
CHECK_DEADLOCK FALSE
INVARIANTS
  ConnectPinged
