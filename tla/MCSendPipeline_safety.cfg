CONSTANTS
  k1 = k1
  r1 = r1
  r2 = r2
  None = None
  Keys = {k1}
  Requests = {r1, r2}
  Workers = {w1, w2}
  KeyOf <- OneKey
  HashOf <- OtherBody
  MaxJobAttempts = 2
  MaxSmtpAttempts = 1
  MaxCrashes = 2
  Faults = {"crash", "db", "lostReply", "sentCopy", "lease", "expiry", "delete"}
SPECIFICATION Spec
CHECK_DEADLOCK FALSE
SYMMETRY WorkerSymmetry
INVARIANTS AtMostOnce SuccessIsTrue NoOrphan
PROPERTY ImplementsMailer
