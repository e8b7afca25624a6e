CONSTANTS
  MaxVersion = 3
  MaxTime = 4
SPECIFICATION FairSpec
INVARIANTS WatchInvariant NoLostUpdate
PROPERTIES NeverGoesBack NewestPublished
CHECK_DEADLOCK FALSE
