SPECIFICATION ApiSpec
CONSTANTS
  w1 = w1
  w2 = w2
  i1 = i1
  i2 = i2
  i3 = i3
  draft = draft
  schedule = schedule
  folder_upload = folder_upload
  Workers = {w1, w2}
  Keys = {NoKey, k1}
  NoKey = NoKey
  Bodies = {draft, schedule, folder_upload}
  KindOf <- KindOfBody
  Items = {i1, i2, i3}
  NoItem = NoItem
  NoBody = NoBody
  LIMIT = 1
  TTL = 1
  WINDOW = 1
  TIMEOUT = 1
  MaxStatementFaults = 1
  MaxServerDeaths = 1
CONSTRAINT OneItemBeside
SYMMETRY Interchangeable
INVARIANTS
  AdmissionsBounded
