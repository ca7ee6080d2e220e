\* Three mechanisms that read experts, and the one that exchanges them.
SPECIFICATION FairSpec
CONSTANTS
  Setups = {"pipe", "pilot", "uring", "repin"}
  Workers = {w1, w2}
  Sizes = {2}
  Blocks = 2
  NL = 2
  Experts = {0, 1, 2}
  Cap = 2
  K = 1
  Ring = 2
  Forwards = 2
  Read = {e1, e2, e3}
  Slots = {s1, s2}
  Parts = {"weights", "scales"}
  LoadMax = 2
  EnterFails = FALSE
  Batches = 2
  E = 4
  Start = {0, 1}
  Every = 5
  HeatMax = 6
  Tokens = 12
  TickMod = 8
INVARIANTS
  Consistent
  UsesWhole
PROPERTIES
  NoPingPong
  AllEnd
