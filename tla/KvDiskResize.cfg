CONSTANTS
  Tokens = {0, 1}
  Limits = {2, 4}
  Slack = 0
  Dims = {full}
  Faults = {}
SPECIFICATION Spec
INVARIANTS
  KvTrue
