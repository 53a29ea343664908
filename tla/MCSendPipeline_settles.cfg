CONSTANTS
  k1 = k1
  r1 = r1
  r2 = r2
  None = None
  Keys = {k1}
  Requests = {r1, r2}
  Workers = {w1, w2}
  KeyOf <- OneKey
  HashOf <- SameBody
  MaxJobAttempts = 2
  MaxSmtpAttempts = 2
  MaxCrashes = 1
  Faults = {"crash", "lostReply"}
SPECIFICATION FairSpec
CHECK_DEADLOCK FALSE
PROPERTY QueuedSettles
