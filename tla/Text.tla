--------------------------------- MODULE Text --------------------------------
(* What is between the text and the forward pass: the tokenizer, the         *)
(* sampler, and for glm the grammar that drafts the answer, compiled from a  *)
(* schema or written by hand.  None of them keeps state of another: the      *)
(* grammar is fed the bytes of tokens that are said, whoever picked them, so *)
(* each is a part of its own.                                                *)
EXTENDS Integers, Sequences

CONSTANTS
  Parts,                                                     \* those considered
  Sources, Long, Bytes, Said,                                \* the grammar
  MaxDepth, MaxStacks, DraftBytes, DraftMax, FeedBytes, GuardAt, MaxSaid, MaxProp,
  Schemas, Terminals, MaxNest, Longest, Spaces,              \* the schema
  Tokenizers, Chars, Class, Quote, Blank, Single, Double, Utf8, MaxText,
  V, Laws, Tops, Small, Few, Grid, Teams, NoToken            \* the sampler

VARIABLES
  part,
  g, walker, prop, acc, spoken, doc,
  schema, answer, stacks,
  tokenizer, text,
  law, top, kept, tried, ban, drawn, picking

Drafts  == INSTANCE Grammar WITH Tokens <- Said, said <- spoken
Schemata == INSTANCE Schema WITH text <- answer
Words   == INSTANCE Tokens WITH Files <- Tokenizers, Bytes <- Utf8, file <- tokenizer
Picks   == INSTANCE Sampler WITH guess <- tried, at <- picking

draftVars  == <<g, walker, prop, acc, spoken, doc>>
schemaVars == <<schema, answer, stacks>>
wordVars   == <<tokenizer, text>>
pickVars   == <<law, top, kept, tried, ban, drawn, picking>>
vars == <<part, draftVars, schemaVars, wordVars, pickVars>>

ASSUME TextAssumption ==
  /\ Parts \subseteq {"drafts", "schema", "words", "picks"}
  /\ Words!TokensAssumption /\ Picks!SamplerAssumption

\* The parts that are not at work keep one initial state.
IdleDrafts == g = 1
IdleSchema == schema = 1
IdleWords  == tokenizer = CHOOSE f \in Words!Loaded : TRUE
IdlePicks  == law = (CHOOSE l \in Laws : TRUE) /\ top = CHOOSE n \in Tops : TRUE
Idle == part = (CHOOSE p \in Parts : TRUE)
        /\ IdleDrafts /\ IdleSchema /\ IdleWords /\ IdlePicks

Init ==
  /\ part \in Parts
  /\ Drafts!Init   /\ (part # "drafts" => IdleDrafts)
  /\ Schemata!Init /\ (part # "schema" => IdleSchema)
  /\ Words!Init    /\ (part # "words" => IdleWords)
  /\ Picks!Init    /\ (part # "picks" => IdlePicks)

Draft    == part = "drafts" /\ Drafts!Next /\ UNCHANGED <<part, schemaVars, wordVars, pickVars>>
Document == part = "schema" /\ Schemata!Next /\ UNCHANGED <<part, draftVars, wordVars, pickVars>>
Encode   == part = "words" /\ Words!Next /\ UNCHANGED <<part, draftVars, schemaVars, pickVars>>
Pick     == part = "picks" /\ Picks!Next /\ UNCHANGED <<part, draftVars, schemaVars, wordVars>>

Next == Draft \/ Document \/ Encode \/ Pick

Spec == Init /\ [][Next]_vars

-----------------------------------------------------------------------------
\* What each part keeps; the others keep their initial state.
Consistent ==
  CASE part = "drafts" -> Drafts!Consistent
    [] part = "schema" -> Schemata!TypeOK
    [] part = "words" -> Words!TypeOK
    [] part = "picks" -> Picks!TypeOK

\* Grammar: the walker admits what the grammar means, and a draft is forced.
FollowsLanguage == part = "drafts" => Drafts!FollowsLanguage
ForcedTrue == part = "drafts" => Drafts!ForcedTrue

\* Schema: the grammar of a schema admits its documents and nothing else.
SchemaTrue == part = "schema" => Schemata!SchemaTrue

\* Tokens: the pieces of the regular expression, merged as far as they go, and
\* the text back from its tokens.
TokensTrue == part = "words" => Words!TokensTrue

\* Sampler: the nucleus, and the law of what is picked, drafts or not.
DistTrue == part = "picks" => Picks!DistTrue
=============================================================================
