\* The three kinds of turns, the forward passes, each to the end of its context.
SPECIFICATION Spec
CONSTANTS
  Entries = {"glm", "grams", "chat", "pass", "steps", "train"}
  Vocab = {0, 1, 2}
  Stops = {2}
  Best <- GlmChoice
  MaxT = 10
  Margin = 6
  DraftK = 2
  Asked = {1, 4, 12}
  MoreToo = {TRUE, FALSE}
  Choice <- GramChoice
  Hybrid = FALSE
  Order = 2
  SpecK = 2
  Positions = 12
  Answers = 9
  Lengths = {1, 2, 3, 4}
  Engines = {"shared", "olmoe", "ngram"}
  MaxCtx = 20
  Ngen = 4
  Chunk = 2
  Bos = 1
  SuffixLen = 2
  LineLens = {1, 3, 8, 30}
  Files <- TheFiles
  Letters = {0, 1}
  Img = 10
  Places = 3
  Block = 2
  Window = 2
  ConvL = 3
  TtaN = 2
  Models <- TheModels
  Held = 7
  TopK = 1
  AbsorbRows = 1
  Longest = 2
  BatchPlaces = 3
  MaxFed = 3
  Jobs <- TheJobs
  Given <- TheGiven
  HeadsOfQ = 2
  G = 2
  LeastWindow = 2
  MaxTensors = 31
  MaxJobs = 2
INVARIANTS
  InRoom
  RowsTrue
  ChatTurnTrue
  LogitsTrue
  PairsTrue
  TrainsTrue
PROPERTIES
  Lossless
