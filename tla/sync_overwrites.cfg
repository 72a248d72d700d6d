SPECIFICATION EditorsSpec
CONSTANTS
  p1 = p1
  p2 = p2
  a = a
  PP = {p1}
  Posts = {a}
  ParentOf <- SingleRow
  Engines = {e1}
  HasFirstComment = {}
  MAX_RETRIES = 1
  RETRY_BACKOFF <- OneTickBackoff
  MAX_CONCURRENT_PUBLISHES = 2
  MaxNow = 2
  MaxCrashes = 0
  MaxFaults = 0
  MaxLost = 0
  Editors = {w1}
  Kinds = {"save"}
  MaxEdits = 1
  MaxSaves = 1
PROPERTIES
  SyncKeepsStatus
