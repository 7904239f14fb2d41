\* The same bounds as TriageJob.cfg, without retries.
SPECIFICATION JobSpec
CONSTANTS
  MaxRetries = 0
  BaseBackoff = 1
  CallTimeout = 3
  Deadline = 9
  Afters = {0}
  Resets = {0}
  Lateness = 1
  ModelTimeout = 6
  ShadowMode = FALSE
INVARIANTS
  MarksOnWholeDiff
CHECK_DEADLOCK FALSE
