\* Two requests over every kind of delivery, two workers, one call of Shutdown,
\* and the disagreement log.
SPECIFICATION AckSpec
CONSTANTS
  Pulls = {p1, p2}
  NoSHA = {p1, p2}
  Removals = {v1, v2}
  Others = {o1}
  Requests = {r1, r2}
  Workers = {w1, w2}
  Stoppers = {s1}
  NoJob = NoJob
  LedgerCap = 1
  QueueCap = 1
  FeedbackCap = 1
  FeedbackOn = TRUE
  ShadowMode = FALSE
INVARIANTS
  LogFlushedOnNil
PROPERTIES
  EveryRequestAnswered
  AcceptedGetsVerdict
  ShutdownReturns
CHECK_DEADLOCK FALSE
