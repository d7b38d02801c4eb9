SPECIFICATION Spec
CONSTANTS
  r1 = r1
  r2 = r2
  a1 = a1
  a2 = a2
  t1 = t1
  t2 = t2
  Empty = Empty
  Open = Open
  None = None
  Runs = {r1, r2}
  Approvals = {a1, a2}
  Threads = {t1, t2}
  MaxIterations = 1
  MaxCrashes = 1
SYMMETRY Interchangeable
VIEW WithoutAudit
PROPERTIES
  ImplementsGovernedRun
CHECK_DEADLOCK FALSE
