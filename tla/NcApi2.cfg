SPECIFICATION FairSpec
CONSTANTS
  t1 = t1  t2 = t2  t3 = t3  g1 = g1  g2 = g2  in = in  mid = mid  out = out  None = None
  Threads = {t1, t2, t3}
  Graphs = {g1, g2}
  Fifos = {in, mid, out}
  Usages <- Usages0
  MaxStale = 0
  NumElements = 2
INVARIANTS TypeOK MutexesReturned ResponseOwn ListsSound ParamPaired JobHasElement TensorKept
PROPERTIES CallReturns
CHECK_DEADLOCK FALSE
