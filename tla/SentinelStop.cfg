\* One life and one delivery.
SPECIFICATION SysSpec
CONSTANTS
  Pulls = {p1}
  NoSHA = {p1}
  Removals = {}
  Others = {}
  Requests = {r1}
  Workers = {w1}
  Stoppers = {s1}
  NoJob = NoJob
  LedgerCap = 2
  QueueCap = 1
  FeedbackCap = 1
  FeedbackOn = FALSE
  ShadowMode = FALSE
  MaxLives = 1
INVARIANTS
  StopDrains
CHECK_DEADLOCK FALSE
