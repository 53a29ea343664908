CONSTANTS
  k1 = k1
  r1 = r1
  r2 = r2
  None = None
  Keys = {k1}
  Requests = {r1, r2}
  Workers = {w1}
  KeyOf <- OneKey
  HashOf <- OtherBody
  MaxJobAttempts = 1
  MaxSmtpAttempts = 1
  MaxCrashes = 0
  Faults = {}
SPECIFICATION Spec
CHECK_DEADLOCK FALSE
SYMMETRY WorkerSymmetry
INVARIANT SentIsTheRequest
