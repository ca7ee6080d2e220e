CONSTANTS
  Workers = {w1, w2}
  Sizes = {1, 2}
  Blocks = 2
SPECIFICATION Spec
INVARIANTS
  UsesLoaded
