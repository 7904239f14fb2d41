\* Three requests for two pull requests and a removal, redelivered in any way; two
\* workers, a queue of one and a ledger of one: full queue and eviction both happen.
SPECIFICATION Spec
CONSTANTS
  Pulls = {p1, p2}
  NoSHA = {p2}
  Removals = {v1}
  Others = {}
  Requests = {r1, r2, r3}
  Workers = {w1, w2}
  Stoppers = {s1}
  NoJob = NoJob
  LedgerCap = 1
  QueueCap = 1
  FeedbackCap = 1
  FeedbackOn = FALSE
  ShadowMode = FALSE
INVARIANTS
  OnePlace
  CountersAgree
  DrainedOnNil
  OncePerWindow
  WritesMatchVerdict
PROPERTIES
  ImplementsPromise
SYMMETRY MCSymmetry
CHECK_DEADLOCK FALSE
