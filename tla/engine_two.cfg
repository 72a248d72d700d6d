SPECIFICATION Spec
CONSTANTS
  p1 = p1
  p2 = p2
  a = a
  b = b
  PP = {p1, p2}
  Posts = {a}
  ParentOf <- OnePost
  Engines = {e1, e2}
  HasFirstComment = {}
  MAX_RETRIES = 1
  RETRY_BACKOFF <- OneTickBackoff
  MAX_CONCURRENT_PUBLISHES = 2
  MaxNow = 2
  MaxCrashes = 0
  MaxFaults = 0
  MaxLost = 0
INVARIANTS
  FirstAttemptExclusive
  PostedOnceUnlessRetried
