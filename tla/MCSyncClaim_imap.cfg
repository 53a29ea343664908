CONSTANTS
  r1 = r1
  p1 = p1
  p2 = p2
  None = None
  Runs = {r1, r2}
  Procs = {p1, p2}
  ProcOf <- TwoProcs
  Calls = {c1}
  Gmail = FALSE
  MaxAttempts = 1
  MaxCancels = 1
  MaxCrashes = 1
  Faults = {"slow", "db", "inactive"}
SPECIFICATION Spec
INVARIANT OneRunner
PROPERTY ImplementsLock
