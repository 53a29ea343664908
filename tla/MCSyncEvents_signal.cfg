CONSTANTS
  None = None
  MaxEvents = 3
  Streams = {s1}
  MaxStreams = 1
  Limit = 2
  MaxReloads = 0
  MaxFaults = 0
  Faults = {}
SPECIFICATION Spec
INVARIANT NewestSignalKept
CHECK_DEADLOCK FALSE
