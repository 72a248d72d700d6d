SPECIFICATION Spec
CONSTANTS
  p1 = p1
  p2 = p2
  a = a
  b = b
  PP = {p1, p2}
  Posts = {a}
  ParentOf <- OnePost
  Engines = {e1}
  HasFirstComment = {p1}
  MAX_RETRIES = 2
  RETRY_BACKOFF <- OneTickBackoff
  MAX_CONCURRENT_PUBLISHES = 2
  MaxNow = 2
  MaxCrashes = 1
  MaxFaults = 1
  MaxLost = 1
INVARIANTS
  TypeOK
  NoDoublePost
  BooksAreTrue
