\* Two training runs, two starts of the model service, two of the gateway, in 48
\* environments: what the operator sets lies on both sides of every bound.
SPECIFICATION Spec
CONSTANTS
  MaxBuilds = 2
  MaxLives = 2
  MaxLaunches = 2
  Override = Override
  Unset = Unset
  Bad = Bad
  Environments <- MCEnvironments
INVARIANTS
  CutoffAsAdvertised
  CutoffOfWeights
  NeverHalfConfigured
CHECK_DEADLOCK FALSE
