SPECIFICATION FairSpec
CONSTANTS
  t1 = t1  t2 = t2  t3 = t3  None = None
  Threads = {t1, t2, t3}
  Usages <- Live
  Addrs = {1}
  MaxLoads = 3
PROPERTIES CallsReturn
CHECK_DEADLOCK FALSE
