SPECIFICATION TabSpec
CONSTANTS
  None = None
  MaxEvents = 1
  Streams = {s1, s2}
  MaxStreams = 2
  Limit = 1
  MaxReloads = 1
  MaxFaults = 2
  Faults = {"drop", "query"}
  Tabs <- AllTabs
  Letters = {1, 2}
  Acts = {1, 2}
  Desks <- AllDesks
  Boxes = {"b1", "b2"}
  Senders = {"o1", "o2"}
  Owner <- OwnerOf
  Routes <- AllRoutes
  Notes = {1, 2, 3}
  Bundles <- AllBundles
INVARIANTS SessionFollowsUser ListTells  ReadsInOrder
PROPERTIES Delivered StreamEnds StaysFresh OpenedGetsRead UrlSettles
CHECK_DEADLOCK FALSE
