SPECIFICATION DeskSpec
SYMMETRY Interchangeable
CONSTANTS
  Children = {x1, x2, x3}
  Channels = {t1, t2}
  Deciders = {h1, h2}
  Modes = {"none", "required_internal_and_client"}
  MaxMoves = 3
  Posts = {t1, t2}
  QueueChannels = {qc}
  Queues = {q1}
  QueueOf <- OneChannel
  Planners = {h1, h2}
  FirstSlots = {2, 3}
  LastMoment = 4
  MaxPlans = 3
  LastDate = 3
  Lookahead = 2
  MaxRecurrences = 4
  Intervals = {0, 1}
  Runs = {h1, h2}
  MaxClones = 4
  MaxRetouches = 2
  Pages = {h1, h2}
  Drafts = {t1, t2}
  PickedFiles = {t1, t2, shared}
  Shared = {shared}
  Requests = {h1, h2}
  MaxCalls = 5
  Files = {t1, t2}
  CsvRows = 2
  Tabs = {h1, h2}
  MaxClicks = 7
  Urls = {t1, t2}
  FeedPages = {h1, h2}
  MaxFeeds = 3
  IdeaIds = {t1, t2}
  Columns = {co1, co2}
  IdeaPosts = {ip1, ip2}
  Pictures = {pic}
  Editors = {h1, h2}
  MaxTouches = 6
  Assets = {t1, t2, composed}
  Composed = {composed}
  MediaPosts = {mp}
  Hands = {h1, h2}
  StorageLimit = 1
  MaxVersions = 2
  MaxEdits = 6
  Folders = {t1, t2, f3, f4}
  Names = {"m", "n"}
  Clerks = {h1, h2}
  MaxChores = 6
  Articles = {w1}
  DayHours = 2
  LastHour = 3
  Ladder <- Rungs
  ShortWindow = 3
  RecentDays = 2
  MaxTurns = 1
INVARIANTS
  CalendarIsTrue
  
  MediaFollowsItsPage
  RowsImportedOnce
  PagesMatchTheirFeeds
  MediaIsKept
  PostsStayFresh
PROPERTIES
  OutcomesAreFinal
  ApprovalsTakeTheirCourse
  IdeasAreKept
  FoldersAreKept
CHECK_DEADLOCK FALSE
