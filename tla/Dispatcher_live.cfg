SPECIFICATION FairSpec
CONSTANTS
  Threads = {t1, t2}
  MaxEvents = 4
  MaxSemaphores = 2
  PC = FALSE
  LocalTypes = {"PING", "READ", "WRITE"}
  RemoteTypes = {"WRITE"}
  MaxCalls = 2
  MaxRemote = 1
  MaxSessions = 1
  LinkMayFail = FALSE
  None = None
CHECK_DEADLOCK FALSE
PROPERTIES
  ReadyIsHandled
  PingReturns
