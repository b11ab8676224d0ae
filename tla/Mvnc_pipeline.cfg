SPECIFICATION Spec
CONSTANTS
  t1 = t1  t2 = t2  t3 = t3  None = None
  Threads = {t1, t2, t3}
  Usages <- AllUses
  Addrs = {1, 2}
  MaxLoads = 3
INVARIANTS TypeOK HoldsListed GoneReported NoOverlap LocksReturned HostAndStickAgree ResultPaired
PROPERTIES IsPipe
CHECK_DEADLOCK FALSE
