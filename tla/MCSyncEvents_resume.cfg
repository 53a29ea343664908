CONSTANTS
  None = None
  MaxEvents = 3
  Streams = {s1}
  MaxStreams = 1
  Limit = 2
  MaxReloads = 1
  MaxFaults = 1
  Faults = {"drop", "query", "net", "crash", "prune"}
SPECIFICATION Spec
INVARIANT AwakeWhenTold
PROPERTY ImplementsFeed
CHECK_DEADLOCK FALSE
