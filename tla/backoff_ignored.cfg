SPECIFICATION Spec
CONSTANTS
  p1 = p1
  p2 = p2
  a = a
  b = b
  PP = {p1}
  Posts = {a}
  ParentOf <- SingleRow
  Engines = {e1}
  HasFirstComment = {}
  MAX_RETRIES = 2
  RETRY_BACKOFF <- GrowingBackoff
  MAX_CONCURRENT_PUBLISHES = 1
  MaxNow = 3
  MaxCrashes = 0
  MaxFaults = 0
  MaxLost = 0
PROPERTIES
  BackoffIsRespected
