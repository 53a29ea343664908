CONSTANTS
  Runs = {r1}
  MaxUid = 3
  MaxMod = 4
  MaxTries = 2
  MaxFaults = 2
  Window = 1
  Recent = 2
  Settings <- LiveSettings
SPECIFICATION LiveSpec
PROPERTY Converges
