\* The single-token path with fewer slots than experts.
SPECIFICATION Spec
CONSTANTS
  Views = {"cache"}
  Handles = {h1}
  Threads = {0, 1, 3}
  Procs = 2
  MaxTeam = 2
  Params = {"cool", "warm"}
  Seeds = {0, 7}
  Decodes = 2
  Calls = 1
  NoOne = NoOne
  Addrs = {a1}
  Null = Null
  Shortlist = FALSE
  MapFails = FALSE
  Held = 2
  Pointers <- MCPointers
  Hash <- MCHash
  FirstCap = 2
  Tables = {"tracker"}
  MaxCap = 16
  TickMod = 1024
  E = 4
  Setups <- SmallAndSingle
  K = 2
  Team = {"t1"}
  HeatMax = 1000
  Passes = 4
  NL = 3
  Shapes <- MCShapes
  Budgets <- MCBudgets
  Fixed = 2
  Verified = {0}
  Checkpoints <- MCCheckpoints
  Opens <- MCOpens
  RowBlocks <- MCRowBlocks
  Targets = {"out", "again"}
  MaxSaves = 2
INVARIANT UsesRouted
