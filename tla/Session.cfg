\* Models over three tokens that look at two, a context of six positions;
\* greedy and sampled calls, under fairness of the engine and the callback.
SPECIFICATION FairSpec
CONSTANTS
    Tokens <- Vocab
    Weights <- TwoModels
    LM <- Predict
    Prompts <- Asks
    Samplings <- Mixed
    Stops = {3}
    Ctx = 6
    MaxNew = 3
    DraftK = 2
    ChunkOpts = {0, 1}
    CanVerify = TRUE
    None = None
INVARIANTS
  Consistent
  InKv
  AbortPrompt
PROPERTIES
  Conversing
  CallsEnd
