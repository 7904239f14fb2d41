\* Two runs race to set the maximum while a snapshot is taken.
SPECIFICATION FairSpec
CONSTANTS
  Triages = {t1, t2}
  Nanos = {1, 2}
  MaxSnaps = 1
INVARIANTS
  MaxIsMax
  SnapshotSums
PROPERTIES
  LoopsEnd
CHECK_DEADLOCK FALSE
