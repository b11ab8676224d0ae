SPECIFICATION FairSpec
CONSTANTS
  host = host  device = device  t1 = t1  t2 = t2  None = None
  Peers <- Both
  Threads = {t1, t2}
  Uses <- UseOneWay
  Sizes = {1, 2}
  MaxPackets = 2
INVARIANTS TypeOK StreamFound
PROPERTIES WriteReturns CloseReturns
CHECK_DEADLOCK FALSE
