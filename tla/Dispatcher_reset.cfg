SPECIFICATION Spec
CONSTANTS
  Threads = {t1, t2, t3}
  MaxEvents = 3
  MaxSemaphores = 2
  PC = TRUE
  LocalTypes = {"READ"}
  RemoteTypes = {"WRITE", "REL", "RESET"}
  MaxCalls = 4
  MaxRemote = 1
  MaxSessions = 1
  LinkMayFail = TRUE
  None = None
SYMMETRY ThreadSymmetry
CHECK_DEADLOCK FALSE
INVARIANTS
  TypeOK
  DrainFindsNoReady
  WaiterKeepsSem
  SemRefsMatch
  AddFindsSlot
  ResponseHasRequest
  EachEventOnce
  NoLostWakeup
  CompletionSound
