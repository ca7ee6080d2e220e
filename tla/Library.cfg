\* Two handles with any options, three threads clamped to two; five addresses,
\* the shortlist off, every mmap succeeds; tables from 2 to 16 cells;
\* caches that evict or not, layers that fit the budget or not; two containers
\* written from any checkpoint.
SPECIFICATION Spec
CONSTANTS
  Views = {"settings", "memory", "tables", "cache", "stream", "files"}
  Handles = {h1, h2}
  Threads = {0, 1, 3}
  Procs = 2
  MaxTeam = 2
  Params = {"cool", "warm"}
  Seeds = {0, 7}
  Decodes = 2
  Calls = 1
  NoOne = NoOne
  Addrs = {a1, a2, a3, a4, a5}
  Null = Null
  Shortlist = FALSE
  MapFails = FALSE
  Held = 2
  Pointers <- MCPointers
  Hash <- MCHash
  FirstCap = 2
  Tables = {"tracker", "registry"}
  MaxCap = 16
  TickMod = 1024
  E = 4
  Setups <- SmallAndWhole
  K = 2
  Team = {"t1"}
  HeatMax = 1000
  Passes = 3
  NL = 3
  Shapes <- MCShapes
  Budgets <- MCBudgets
  Fixed = 2
  Verified = {0}
  Checkpoints <- MCCheckpoints
  Opens <- MCOpens
  RowBlocks <- MCRowBlocks
  Targets = {"out", "again"}
  MaxSaves = 2
INVARIANTS
  Consistent
  OwnSettings
  MemorySound
  UsesOwn
  LoadsTrue
  InPlace
PROPERTIES
  SetSpec
  KeepsHot
