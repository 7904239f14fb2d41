\* Two lives of the process; three requests for a pull request and two removals,
\* so every delivery may be redelivered in the same life and in the next.
SPECIFICATION SysSpec
CONSTANTS
  Pulls = {p1}
  NoSHA = {p1}
  Removals = {v1, v2}
  Others = {}
  Requests = {r1, r2, r3}
  Workers = {w1}
  Stoppers = {s1}
  NoJob = NoJob
  LedgerCap = 3
  QueueCap = 1
  FeedbackCap = 1
  FeedbackOn = TRUE
  ShadowMode = FALSE
  MaxLives = 2
INVARIANTS
  SysTypeOK
  NoPanicUnlessCut
  OneCommentPerLife
PROPERTIES
  KeepsPromise
SYMMETRY MCSymmetry
CHECK_DEADLOCK FALSE
