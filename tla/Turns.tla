-------------------------------- MODULE Turns --------------------------------
(* What the dispatcher src/c/moty.c chooses from the architecture of the     *)
(* model file: a turn of glm with its speculative decoding, a turn of        *)
(* qwenmoe with n-gram drafts, the chat of one of the engines, or a forward  *)
(* pass under them, that of glm or that of the others, or the training of    *)
(* adapters for qwen.  main() calls one entry and never comes back to choose *)
(* another.                                                                  *)
EXTENDS Integers, Sequences

CONSTANTS
  Entries,                        \* the entries considered
  Vocab, Stops,
  Best(_), MaxT, Margin, DraftK, Asked, MoreToo,             \* glm
  Choice(_), Hybrid, Order, SpecK, Positions, Answers, Lengths,   \* qwenmoe
  Engines, MaxCtx, Ngen, Chunk, Bos, SuffixLen, LineLens,    \* the chats
  Files, Letters, Img, Places, Block, Window, ConvL, TtaN,   \* the forward pass
  Models, Held, TopK, AbsorbRows, Longest, BatchPlaces, MaxFed, \* the one of glm
  Jobs, Given, HeadsOfQ, G, LeastWindow, MaxTensors, MaxJobs \* the training

VARIABLES
  entry,    \* the entry main() has called
  more, hist, rows, len, logit, left, draft, k, pc, intr, said,
  out, pos, kvrows, fed, saved, behind, table, rest, guess, done, naccept, at,
  engine, used, kv, stopped, turn,
  file, layers, cells, rec, history, todo, taken, logits, tta,
  net, caches, keys, start, bound, sel, told, hidden, scores, asked,
  job, phase, lo, lm, alpha, off, ep, steps, dx, grads, ghead, layer, disk, jobs

Glm == INSTANCE SpecDecode
Grams == INSTANCE NgramSpec WITH
  Best <- Choice, MaxCtx <- Positions, Ngen <- Answers,
  rows <- kvrows, logit <- behind, left <- rest, draft <- guess, k <- done, pc <- at
Chats == INSTANCE Chat WITH len <- used
Passes == INSTANCE Dense WITH
  Vocab <- Letters, MaxT <- Places, kv <- cells, hist <- history, used <- taken
Steps == INSTANCE GlmForward WITH
  Places <- Held, Drafts <- DraftK, kv <- caches, hist <- told, logits <- scores, fed <- asked
Trains == INSTANCE Trainer WITH at <- layer

glmVars   == <<more, hist, rows, len, logit, left, draft, k, pc, intr, said>>
gramsVars == <<out, pos, kvrows, fed, saved, behind, table, rest, guess, done, naccept, at>>
chatVars  == <<engine, used, kv, stopped, turn>>
passVars  == <<file, layers, cells, rec, history, todo, taken, logits, tta>>
stepVars  == <<net, caches, keys, start, bound, sel, told, hidden, scores, asked>>
trainVars == <<job, phase, lo, lm, alpha, off, ep, steps, dx, grads, ghead, layer, disk, jobs>>
vars == <<entry, glmVars, gramsVars, chatVars, passVars, stepVars, trainVars>>

ASSUME TurnsAssumption ==
  /\ Entries \subseteq {"glm", "grams", "chat", "pass", "steps", "train"}
  /\ Glm!SpecAssumption /\ Grams!NgramAssumption /\ Chats!ChatAssumption
  /\ Passes!DenseAssumption /\ Steps!GlmForwardAssumption /\ Trains!TrainerAssumption

\* The parts that were not called keep one initial state.
Init ==
  /\ entry \in Entries
  /\ Glm!Init    /\ (entry # "glm" => more = FALSE)
  /\ Grams!Init  /\ (entry # "grams" => out = CHOOSE c \in [1..1 -> Vocab] : TRUE)
  /\ Chats!Init  /\ (entry # "chat" => engine = "shared")
  /\ Passes!Init /\ (entry # "pass" => file = CHOOSE f \in Files : Passes!Accepted(f))
  /\ Steps!Init  /\ (entry # "steps" => net = Steps!LoadedNet(CHOOSE f \in Models : TRUE))
  /\ Trains!Init /\ (entry # "train" => disk = Trains!NoFile)

GlmTurns ==
  entry = "glm" /\ Glm!Next /\ UNCHANGED <<entry, gramsVars, chatVars, passVars, stepVars, trainVars>>
GramTurns ==
  entry = "grams" /\ Grams!Next /\ UNCHANGED <<entry, glmVars, chatVars, passVars, stepVars, trainVars>>
ChatTurns ==
  entry = "chat" /\ Chats!Next /\ UNCHANGED <<entry, glmVars, gramsVars, passVars, stepVars, trainVars>>
Forward ==
  entry = "pass" /\ Passes!Next /\ UNCHANGED <<entry, glmVars, gramsVars, chatVars, stepVars, trainVars>>
GlmForwards ==
  entry = "steps" /\ Steps!Next /\ UNCHANGED <<entry, glmVars, gramsVars, chatVars, passVars, trainVars>>
Training ==
  entry = "train" /\ Trains!Next /\ UNCHANGED <<entry, glmVars, gramsVars, chatVars, passVars, stepVars>>
Next == GlmTurns \/ GramTurns \/ ChatTurns \/ Forward \/ GlmForwards \/ Training

Spec == Init /\ [][Next]_vars

-----------------------------------------------------------------------------
\* The decoders and the chats have their types.
TypeOK == entry \in Entries /\ Glm!TypeOK /\ Grams!TypeOK /\ Chats!TypeOK

\* No forward and no token past the context, in any of the three.
InRoom == TypeOK /\ Glm!InRoom /\ Grams!InRoom /\ Chats!InRoom

\* glm, qwenmoe (spec_decode, rt_gen_loop): the rows that count are those of
\* the history, whatever was drafted and dropped.
RowsTrue == Glm!RowsTrue /\ Grams!RowsTrue

\* glm, qwenmoe (spec_decode, rt_gen_loop): drafts change nothing that is said,
\* be they any tokens or those of the n-gram table.
Lossless == Glm!Lossless /\ Grams!Lossless

\* The chats (Chat): the rows of a turn are in place whenever a token is picked.
ChatTurnTrue == Chats!TurnTrue

\* The forward passes (Dense, GlmForward): the logits are those of the history
\* that was fed, however it was fed, with every weight the files ask for.
LogitsTrue == Passes!TypeOK /\ Steps!TypeOK /\ Passes!LogitsTrue /\ Steps!LogitsTrue

\* The cache of TTA (Dense) and the draft head of glm (GlmForward: mtp_draft,
\* mtp_absorb): their pairs are of this conversation, each state with the token
\* that followed it.
PairsTrue == Passes!PairsTrue /\ Steps!RowsTrue

\* The training (Trainer): the gradients of a window are those of its loss, and
\* the adapters that were trained come back from their file.
TrainsTrue == Trains!TypeOK /\ Trains!GradientTrue /\ Trains!SavedTrue

(* qwenmoe (spec_draft's caller): "all accepted: state is correct, advance".  *)
(* The logits a token is picked from come from a state that was fed prompt   *)
(* and answer once.                                                          *)
StateTrue == entry = "grams" => Grams!StateTrue
=============================================================================
