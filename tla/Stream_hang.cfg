SPECIFICATION FairSpec
CONSTANTS
  host = host  device = device  t1 = t1  t2 = t2  None = None
  Peers <- Both
  Threads = {t1, t2}
  Uses <- UseAnswering
  Sizes = {1}
  MaxPackets = 2
PROPERTIES CloseReturns
CHECK_DEADLOCK FALSE
