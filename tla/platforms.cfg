SPECIFICATION PlatformsSpec
CONSTANTS
  p1 = p1
  p2 = p2
  a = a
  b = b
  PP = {p1, p2}
  Posts = {a, b}
  ParentOf <- TwoPosts
  Engines = {e1}
  HasFirstComment = {}
  MAX_RETRIES = 1
  RETRY_BACKOFF <- OneTickBackoff
  MAX_CONCURRENT_PUBLISHES = 1
  MaxNow = 3
  MaxCrashes = 0
  MaxFaults = 0
  MaxLost = 0
  Contents <- SomeContents
  MAX_POLLS = 2
  MAX_ATTEMPTS = 2
  MaxLostReplies = 1
  NoHint = NoHint
  TokenBound <- SomeTokens
  Checkers = {h1}
  Refreshers = {r1}
  Closers = {d1}
  MaxTokenFaults = 1
  Runners = {n1, n2}
  MAX_REMINDERS = 2
  MaxRounds = 2
  MaxDeaths = 1
  Notices = {no1}
  ChannelOrder <- InAppThenMail
  NoticeThreads = {t1, t2}
  MaxRetries = 3
  MaxMishaps = 1
  draft = draft
  schedule = schedule
  folder_upload = folder_upload
  Workers = {w1, w2}
  Keys = {k1}
  NoKey = NoKey
  Bodies = {draft, schedule, folder_upload}
  KindOf <- KindOfBody
  Items = {i1, i2}
  NoItem = NoItem
  NoBody = NoBody
  LIMIT = 0
  TTL = 2
  WINDOW = 2
  TIMEOUT = 1
  MaxStatementFaults = 1
  MaxServerDeaths = 1
INVARIANTS
  PublishesOnlyReadyMedia
  ReplayIsFaithful
  KeysAreHonoured
PROPERTIES
  WedgedKeyIsFreed
  PostsAreServed
  ImplementsDispatch
  EveryAttemptEnds
  GrantsAreKept
  DeadTokenIsReported
  RemindersEscalate
  NoticesArrive
CHECK_DEADLOCK FALSE
