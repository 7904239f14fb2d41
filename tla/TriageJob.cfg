\* Two retries (the default), a first pause of one tick, and the proportions of the
\* code: 45 s for the job, 15 s for a GitHub call, 30 s for the model are 9, 3 and 6.
\* What a throttling answer asks for lies below, at and beyond the pauses and the budget.
SPECIFICATION JobSpec
CONSTANTS
  MaxRetries = 2
  BaseBackoff = 1
  CallTimeout = 3
  Deadline = 9
  Afters = {0, 1, 3, 9}
  Resets = {0, 6}
  Lateness = 1
  ModelTimeout = 6
  ShadowMode = FALSE
INVARIANTS
  WithinBudget
  FailsOnlyWhenItMust
PROPERTIES
  SpacedAttempts
  RepeatedOnlyInDoubt
  JobEnds
  ImplementsWorker
CHECK_DEADLOCK FALSE
