SPECIFICATION PeopleSpec
SYMMETRY Interchangeable
CONSTANTS
  Users = {t1, t2, cyd, dan}
  Founders = {t1, t2}
  Staff = {cyd}
  Desks = {h1, h2}
  MaxInvites = 1
  MaxRequests = 3
  MaxDeaths = 1
  Requests = {h1, h2}
  Instances = {t1, t2}
  Kinds = {"pages", "mastodon", "bluesky"}
  MaxFlows = 2
  MAX_OAUTH_INITIATIONS_PER_HOUR = 1
  NoApp = NoApp
  Powers = {p1}
  Caches = {t1, t2}
  Calls = {h1, h2}
  CacheTtl = 1
  LastSecond = 2
  MaxOrders = 3
  Links = {t1, t2, t3}
  Managers = {h1, h2}
  Browsers = {b1, b2}
  MaxVisits = 7
  Messages = {t1, t2}
  Agents = {ag1}
  LastNow = 2
  MaxCares = 3
INVARIANTS
  
  NobodyClimbs
  FlowsEndAsTheyBegan
  KeysFollowTheirIssuer
  PortalIsTheClients
  NobodyIsToldTwice
  
CHECK_DEADLOCK FALSE
