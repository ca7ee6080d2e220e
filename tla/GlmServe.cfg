\* A conversation file of up to four positions, and two slots for two clients.
SPECIFICATION FairSpec
CONSTANTS
  Modes = {"one", "batch"}
  Tokens = {0, 1}
  Limits = {3}
  Slack = 1
  Dims = {full}
  Faults = {}
  Vocabulary = {0, 1, 2}
  Slots = {s1, s2}
  Ids = {1, 2}
  Prompts <- SmallPrompts
  Budgets = {1, 3}
  Stops = {2}
  Best <- SmallBest
  MaxCtx = 5
  Frames = 3
  NoSlot = none
INVARIANTS
  Consistent
  Durable
  OwnAnswer
PROPERTIES
  AllEnd
