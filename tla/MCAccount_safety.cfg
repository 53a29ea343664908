SPECIFICATION AccountSpec
CONSTANTS
  Reqs = {p1, p2}
  Mails = {1, 2}
  MaxRows = 3
  MaxMailUid = 2
  Worlds <- AllWorlds
  Calls = {p1, p2}
  WatchIds = {1, 2}
  MaxErrs = 2
  Setups <- AllSetups
  Jobs = {p1, p2}
  RowKeys = {1, 2}
  Grants = {1, 2, 3}
  Plans <- AllPlans
  Syncs = {p1, p2}
  Letters = {1, 2}
  MaxHistory = 3
  Batch = 1
  Accounts <- AllAccounts
  Parsers = {p1, p2}
  Askers = {p1, p2}
  Parts = {1, 2}
  Files = {1, 2, 3, 4}
  Tries = 2
  Wards <- AllWards
  Sheets = {1, 2, 3}
  Shelves <- AllShelves
  Threads = {p1, p2}
  People = {u1, u2}
  Typed = {"x"}
  Connectors = {}
  OwnerOf <- FirstOwns
  MaxFacts = 2
  MaxTurns = 0
  CacheMax <- Room
  KindLife = 2
  OpenLife = 3
SYMMETRY AccountSymmetry
INVARIANTS  LoopsReachable PushAsSaid    AttachmentsKept  ClearSticks
PROPERTY HitsItsOwn
CHECK_DEADLOCK FALSE
