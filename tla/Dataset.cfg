\* Three signals, two of them about one pull request, against a buffer of two, and
\* two callers of Close; one build over the files of an earlier one; one training.
SPECIFICATION LoopSpec
CONSTANTS
  s1 = s1
  s2 = s2
  s3 = s3
  Signals = {s1, s2, s3}
  Closers = {c1, c2}
  NoSignal = NoSignal
  BufferCap = 2
  PullOf <- MCPullOf
  Fetches <- MCFetches
  Raw <- MCRaw
  Draws <- MCDraws
  Earlier <- MCEarlier
  Tenth = 3
  MaxBuilds = 1
  MaxFits = 1
INVARIANTS
  RowsInOrder
  FlushedOnClose
  HeldOut
PROPERTIES
  BufferFrees
  CloseEnds
  CorrectionsKept
CHECK_DEADLOCK FALSE
