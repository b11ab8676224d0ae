SPECIFICATION Spec
CONSTANTS
  host = host  device = device  t1 = t1  t2 = t2  None = None
  Peers <- Both
  Threads = {t1, t2}
  Uses <- UseCrossing
  Sizes = {1, 2}
  MaxPackets = 2
INVARIANTS EndsAgree
CHECK_DEADLOCK FALSE
