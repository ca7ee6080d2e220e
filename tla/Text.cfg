\* Every part of the text, each written to its end.
SPECIFICATION Spec
CONSTANTS
  Parts = {"drafts", "schema", "words", "picks"}
  Sources <- TheGrammars
  Long = 8
  Bytes = {1, 2, 3}
  Said <- OneOrTwo
  MaxDepth = 6
  MaxStacks = 4
  DraftBytes = 3
  DraftMax = 2
  FeedBytes = 3
  GuardAt = 2
  MaxSaid = 4
  MaxProp = 3
  Schemas <- TheSchemas
  Terminals <- TheTerminals
  MaxNest = 2
  Longest = 9
  Spaces = 2
  Tokenizers <- TheTokenizers
  Chars <- TheChars
  Class <- TheClass
  Quote = "'"
  Blank = "_"
  Single = {"s"}
  Double <- TheDouble
  Utf8 <- TheBytes
  MaxText = 4
  V = 4
  Laws <- TheLaws
  Tops = {60, 90, 100}
  Small = 2
  Few = 1
  Grid = 60
  Teams = {1, 2, 3}
  NoToken = 0
INVARIANTS
  Consistent
  FollowsLanguage
  ForcedTrue
  SchemaTrue
  TokensTrue
  DistTrue
CHECK_DEADLOCK FALSE
