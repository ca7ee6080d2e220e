\* Teams of any size in any order, as THREADS_DECODE below THREADS gives them.
SPECIFICATION Spec
CONSTANTS
    MaxTeam = 3
    MaxN = 3
    Chunks = {0}
    GenMod = 4
    Readmission = TRUE
INVARIANT RegionComplete
