CONSTANTS
  Runs = {r1, r2}
  MaxUid = 3
  MaxMod = 4
  MaxTries = 2
  MaxFaults = 2
  Window = 1
  Recent = 2
  Settings <- AllSettings
SPECIFICATION Spec
SYMMETRY RunSymmetry
INVARIANTS NoGap NoStaleFlag OneEra
