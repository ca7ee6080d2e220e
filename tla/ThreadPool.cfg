\* Three threads, static and dynamic regions, a generation counter that wraps.
SPECIFICATION FairSpec
CONSTANTS
    MaxTeam = 3
    MaxN = 3
    Chunks = {0, 2}
    GenMod = 2
    Readmission = FALSE
INVARIANTS
  RegionComplete
  Barrier
  IInv
PROPERTIES
  RegionSpec
  CallsReturn
  PoolFallsAsleep
