\* Four requests over a ring of two: a delivery is claimed, evicted by two others and
\* claimed again.  One delivery of each kind, two of pull requests to triage, and the
\* slop label removed from a bot's pull request.
SPECIFICATION AdmissionSpec
CONSTANTS
  Ids = {p1, p2, b1, v1, o1, g1}
  NoId = NoId
  Capacity = 2
  Opened = {p1, p2, b1}
  Removals = {v1}
  Garbled = {g1}
  BotAuthored = {b1, v1}
  Requests = {r1, r2, r3, r4}
  FaultSets <- MCFaultSets
INVARIANTS
  RingMatchesSeen
  UnverifiedLearnsNothing
  WantedGetsThrough
PROPERTIES
  ImplementsWindow
  ImplementsRequests
SYMMETRY MCSymmetry
CHECK_DEADLOCK FALSE
