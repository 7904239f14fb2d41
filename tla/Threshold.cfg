\* Three samples with probabilities below, on and between the candidates; a bar
\* that one of two misses and two of three meet.
SPECIFICATION Spec
CONSTANTS
  Samples = {s1, s2, s3}
  Probs = {30, 500, 505, 603, 990, 995}
  Bar = 60
INVARIANTS
  SelectsLowestClearing
  GateIsHonest
  ServedAsEvaluated
CHECK_DEADLOCK FALSE
