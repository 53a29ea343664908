CONSTANTS
  r1 = r1
  p1 = p1
  p2 = p2
  None = None
  Runs = {r1, r2}
  Procs = {p1}
  ProcOf <- OneProc
  Calls = {}
  Gmail = TRUE
  MaxAttempts = 2
  MaxCancels = 1
  MaxCrashes = 1
  Faults = {"limit", "deaf"}
SPECIFICATION FairSpec
 
PROPERTIES RowSettles
