SPECIFICATION FairSpec
CONSTANTS
  r1 = r1
  r2 = r2
  a1 = a1
  a2 = a2
  t1 = t1
  t2 = t2
  Empty = Empty
  Open = Open
  None = None
  Runs = {r1}
  Approvals = {a1}
  Threads = {t1, t2}
  MaxIterations = 2
  MaxCrashes = 1
INVARIANTS
  OncePerThread
  ExecutedWasGranted
  ExecutionIsReported
PROPERTIES
  RequestsEnd
CHECK_DEADLOCK FALSE
