SPECIFICATION AccountLive
CONSTANTS
  Reqs = {q1}
  Mails = {1, 2}
  MaxRows = 7
  MaxMailUid = 3
  Worlds <- LiveWorlds
  Calls = {c1}
  WatchIds = {1, 2}
  MaxErrs = 2
  Setups <- LiveSetups
  Jobs = {j1}
  RowKeys = {1, 2}
  Grants = {1, 2, 3}
  Plans <- LivePlans
  Syncs = {s1, s2}
  Letters = {1, 2}
  MaxHistory = 3
  Batch = 1
  Accounts <- LiveAccounts
  Parsers = {p1}
  Askers = {k1}
  Parts = {1}
  Files = {1}
  Tries = 2
  Wards <- LiveWards
  Sheets = {1}
  Shelves <- OneShelf
  Threads = {t1, t2}
  People = {u1}
  Typed = {}
  Connectors = {"b"}
  OwnerOf <- FirstOwns
  MaxFacts = 0
  MaxTurns = 1
  CacheMax <- Room
  KindLife = 1
  OpenLife = 2
PROPERTIES  StopsReturn  MailComes VerdictComes KindsComeRound
CHECK_DEADLOCK FALSE
