\* One of everything is enough.
SPECIFICATION Spec
CONSTANTS
  MaxBuilds = 1
  MaxLives = 1
  MaxLaunches = 1
  Override = Override
  Unset = Unset
  Bad = Bad
  Environments <- MCEnvironments
INVARIANTS
  EffectiveIsAdvertised
CHECK_DEADLOCK FALSE
