----------------------------- MODULE SpecDecode -----------------------------
(* spec_decode of src/c/engines/glm.c without temperature, and the turns of  *)
(* run_serve around it: one forward verifies the next token and a draft of   *)
(* guesses behind it.  The model is Best: the choice for a sequence of rows. *)
(* A draft (grammar, MTP, n-gram) is any sequence of tokens.                 *)
EXTENDS Integers, Sequences

CONSTANTS Vocab, Stops, Best(_),
          MaxT,      \* positions of the KV cache
          Margin,    \* positions a prompt leaves free (8 in the source)
          DraftK,    \* g_draft, at most 63
          Asked,     \* the budgets a request may name
          MoreToo    \* whether the line \x02MORE is used: the cases considered

SpecAssumption ==
  /\ Stops \subseteq Vocab /\ \A n \in 0..MaxT : \A c \in [1..n -> Vocab] : Best(c) \in Vocab
  /\ {MaxT, Margin, DraftK} \subseteq Nat /\ MaxT > DraftK + Margin /\ Margin > 2
  /\ Asked \subseteq Nat \ {0} /\ MoreToo \subseteq {TRUE, FALSE}

VARIABLES
  more,     \* whether this run of the engine is asked for \x02MORE
  hist,     \* the tokens of the conversation; the last may have no row yet
  rows,     \* the KV rows, named by their token; behind len they are stale
  len,      \* the rows that count
  logit,    \* the rows the logits at hand were computed from
  left,     \* n_new - emitted
  draft,    \* the guesses in the forward
  k,        \* how many of them are accepted
  pc,       \* idle, pick or verify
  intr,     \* g_intr
  said      \* what the user has asked and read, for the properties

vars == <<more, hist, rows, len, logit, left, draft, k, pc, intr, said>>

MinOf(a, b) == IF a < b THEN a ELSE b
Head0(s, n) == SubSeq(s, 1, n)

\* A forward of ids from position p on: rows before p stay, rows behind go stale.
Forward(p, ids) == Head0(rows, p) \o ids

Init ==
  /\ more \in MoreToo
  /\ hist = <<>> /\ rows = <<>> /\ len = 0 /\ logit = <<>>
  /\ left = 0 /\ draft = <<>> /\ k = 0
  /\ pc = "idle" /\ intr = FALSE /\ said = <<>>

-----------------------------------------------------------------------------
(* The turns.  cur is cut to what fits behind the conversation.              *)

CurUncut(n, used) == n
Cur(n, used) ==
  IF used + n + DraftK + 2 >= MaxT THEN MaxT - used - DraftK - 2 ELSE n

Shares(c, n) == n <= MinOf(Len(c), len) /\ Head0(c, n) = Head0(hist, n)
Prefix(c) == CHOOSE n \in 0..len : Shares(c, n) /\ ~Shares(c, n + 1)

Answer(cur) == left' = cur /\ pc' = IF cur > 0 THEN "pick" ELSE "idle"

\* \x02PROMPT: the rows of the shared prefix are kept; an identical one runs its
\* last token again for the logits.
Prompt(c, n) ==
  /\ pc = "idle" /\ c # <<>> /\ Len(c) <= MaxT - Margin - DraftK
  /\ LET p == MinOf(Prefix(c), Len(c) - 1) IN
     rows' = Forward(p, SubSeq(c, p + 1, Len(c)))
  /\ hist' = c /\ len' = Len(c) /\ logit' = Head0(rows', Len(c))
  /\ Answer(Cur(n, Len(c)))
  /\ intr' = FALSE /\ said' = c
  /\ UNCHANGED <<more, draft, k>>

\* \x02MORE: the last row is run again for the logits.  MaxT also bounds said here.
More(n) ==
  /\ more /\ pc = "idle" /\ len >= 1 /\ Len(said) < MaxT
  /\ rows' = Forward(len - 1, <<hist[len]>>) /\ logit' = Head0(rows', len)
  /\ Answer(Cur(n, len))
  /\ intr' = FALSE
  /\ UNCHANGED <<more, hist, len, draft, k, said>>

-----------------------------------------------------------------------------
(* The loop of spec_decode.                                                  *)

\* all[i] = t, and t goes to the user.
Emit(i, t) ==
  /\ hist' = Append(Head0(hist, i), t)
  /\ left' = left - 1 /\ said' = Append(said, t)

Over ==
  /\ pc = "pick" /\ (left = 0 \/ intr)
  /\ pc' = "idle"
  /\ UNCHANGED <<more, hist, rows, len, logit, left, draft, k, intr, said>>

PickStop ==
  /\ pc = "pick" /\ left > 0 /\ ~intr /\ Best(logit) \in Stops
  /\ pc' = "idle"
  /\ UNCHANGED <<more, hist, rows, len, logit, left, draft, k, intr, said>>

\* The last token asked for is not forwarded: it has no row when the loop is Over.
PickLast ==
  /\ pc = "pick" /\ left = 1 /\ ~intr /\ Best(logit) \notin Stops
  /\ Emit(len, Best(logit))
  /\ UNCHANGED <<more, rows, len, logit, draft, k, pc, intr>>

\* What is left of g guesses: the rest of the budget, the rest of the cache.
Guesses(g) ==
  LET fits == MinOf(MinOf(g, left - 1), MaxT - len - 2) IN IF fits < 0 THEN 0 ELSE fits

PickAndForward(d) ==
  /\ pc = "pick" /\ left > 1 /\ ~intr /\ Best(logit) \notin Stops
  /\ Len(d) <= Guesses(DraftK)
  /\ Emit(len, Best(logit))
  /\ rows' = Forward(len, <<Best(logit)>> \o d)
  /\ draft' = d /\ k' = 0 /\ pc' = "verify"
  /\ UNCHANGED <<more, len, logit, intr>>

\* The choice after next and the first k guesses.
Chosen == Best(Head0(rows, len + 1 + k))
GuessHolds == k < Len(draft) /\ Chosen = draft[k + 1]
GuessSaidUnchecked == left > 0 /\ k < Len(draft) /\ draft[k + 1] \notin Stops
GuessSaid == left > 0 /\ GuessHolds /\ draft[k + 1] \notin Stops

Accept ==
  /\ pc = "verify" /\ GuessSaid
  /\ Emit(len + 1 + k, draft[k + 1])
  /\ k' = k + 1
  /\ UNCHANGED <<more, rows, len, logit, draft, pc, intr>>

\* Row next and the rows of the accepted guesses count from here on.
KeptAll == 1 + Len(draft)
Kept == 1 + k

Verified ==
  /\ pc = "verify" /\ ~GuessSaid
  /\ len' = len + Kept /\ logit' = Head0(rows, len')
  /\ pc' = IF left > 0 /\ GuessHolds THEN "idle" ELSE "pick"
  /\ UNCHANGED <<more, hist, rows, left, draft, k, intr, said>>

Interrupt ==
  /\ pc # "idle" /\ ~intr /\ intr' = TRUE
  /\ UNCHANGED <<more, hist, rows, len, logit, left, draft, k, pc, said>>

Drafts == UNION {[1..g -> Vocab] : g \in 0..DraftK}
Prompts == UNION {[1..n -> Vocab] : n \in 1..MaxT - Margin - DraftK}

Next ==
  \/ \E c \in Prompts, n \in Asked : Prompt(c, n)
  \/ \E n \in Asked : More(n)
  \/ \E d \in Drafts : PickAndForward(d)
  \/ Over \/ PickStop \/ PickLast \/ Accept \/ Verified \/ Interrupt

Spec == Init /\ [][Next]_vars

-----------------------------------------------------------------------------
TypeOK ==
  /\ hist \in Seq(Vocab) /\ rows \in Seq(Vocab) /\ logit \in Seq(Vocab) /\ said \in Seq(Vocab)
  /\ len \in 0..Len(rows) /\ draft \in Seq(Vocab) /\ k \in 0..Len(draft)
  /\ left \in 0..MaxT /\ pc \in {"idle", "pick", "verify"} /\ intr \in {TRUE, FALSE}

(* The rows that count are the rows of the history, so the next prompt that  *)
(* shares a prefix of it may reuse them ("KV oltre kv e' stantia"), and the  *)
(* logits at hand are those of the last of them.                             *)
RowsTrue ==
  /\ Len(hist) >= len /\ Head0(hist, len) = Head0(rows, len)
  /\ logit = Head0(rows, len)

(* No forward writes past the cache and no token past the history, however   *)
(* many turns and drafts it takes ("capacita' >= kv+n_new+g_draft+2").       *)
InRoom == Len(rows) <= MaxT /\ Len(hist) <= MaxT

Plain == INSTANCE GreedyDecode WITH answering <- pc # "idle"

(* "LOSSLESS (output identico al greedy puro)": with any drafts, what the    *)
(* user reads is what plain greedy decoding says.  It does not hold after    *)
(* \x02MORE, which drops the last token of an answer that ran its budget.    *)
Lossless == Plain!Init /\ [][more \/ Plain!Next]_<<said, left, pc # "idle">>
=============================================================================
