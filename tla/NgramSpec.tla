----------------------------- MODULE NgramSpec ------------------------------
(* gen_turn_spec of src/c/engines/qwenmoe.c (SPEC_K > 0, greedy): a table of *)
(* n-grams drafts, one batched forward verifies.  Attention reads the KV     *)
(* rows of the positions before; a DeltaNet layer reads a recurrent state,   *)
(* which every forward advances and only spec_state_restore takes back.  The *)
(* model is Best: the choice for the tokens it has seen.                     *)
EXTENDS Integers, Sequences, SequencesExt

CONSTANTS Vocab, Stops, Best(_),
          Hybrid,    \* whether the model has DeltaNet layers
          Order,     \* SPEC_NGRAM_N, 4 in the source
          SpecK,     \* g_spec_k
          MaxCtx,    \* positions of the KV cache
          Ngen,      \* NGEN
          Lengths    \* lengths of a prompt

NgramAssumption ==
  /\ Stops \subseteq Vocab /\ Hybrid \in {TRUE, FALSE}
  /\ {Order, SpecK, MaxCtx, Ngen} \subseteq Nat \ {0}
  /\ Lengths \subseteq 1..MaxCtx - 2
  /\ \A n \in 1..MaxCtx - 1 : \A c \in [1..n -> Vocab] : Best(c) \in Vocab

VARIABLES
  out,       \* prompt and answer
  pos,       \* where the code believes the next token goes
  rows,      \* the KV rows, named by their token
  fed,       \* the recurrent state: every token it was advanced with
  saved,     \* SpecStateBackup
  logit,     \* what the logits at hand were computed from
  table,     \* g_spec_table
  left,      \* n_new - si
  draft, k,  \* the draft, and how much of it is said or replayed
  naccept,
  pc

vars == <<out, pos, rows, fed, saved, logit, table, left, draft, k, naccept, pc>>

Head0(s, n) == SubSeq(s, 1, n)
Last0(s, n) == SubSeq(s, Len(s) - n + 1, Len(s))

\* What the logits behind a forward of ids at position p depend on.
Rows(p, ids) == Head0(rows, p) \o ids
Seen(p, ids, state) == IF Hybrid THEN state \o ids ELSE Rows(p, ids)

\* A forward of ids at position p.
Forward(p, ids) == rows' = Rows(p, ids) /\ fed' = fed \o ids

Init ==
  /\ \E n \in Lengths : out \in [1..n -> Vocab]
  /\ pos = Len(out) /\ rows = out /\ fed = out /\ logit = out /\ saved = <<>> /\ table = <<>>
  /\ left = IF Len(out) + Ngen + 1 > MaxCtx THEN MaxCtx - Len(out) - 1 ELSE Ngen
  /\ draft = <<>> /\ k = 0 /\ naccept = 0 /\ pc = "pick"

-----------------------------------------------------------------------------
\* spec_observe: the n-gram at the end of hist, and the token it is filed with.
Observe(hist, next) ==
  IF Len(hist) < Order THEN table
  ELSE LET gram == Last0(hist, Order) IN
       [g \in DOMAIN table \cup {gram} |-> IF g = gram THEN next ELSE table[g]]

LimitMissed == SpecK + 1
Limit == SpecK

\* spec_draft: each token drafted extends the n-gram that is looked up, and an
\* entry may have lost its slot to another n-gram.
Chain[n \in 0..Limit] ==
  IF n = 0 THEN <<>>
  ELSE LET c == Chain[n - 1]
           gram == Last0(out \o c, Order) IN
       IF Len(c) < n - 1 \/ Len(out) < Order \/ gram \notin DOMAIN table THEN c
       ELSE Append(c, table[gram])

\* A token is said; a stop token is printed too, and ends the answer.
Say(t, next) ==
  /\ out' = Append(out, t)
  /\ IF t \in Stops THEN pc' = "stopped" /\ UNCHANGED left
     ELSE left' = left - 1 /\ pc' = next

Pick ==
  /\ pc = "pick" /\ left > 0
  /\ Say(Best(logit), IF left > 1 THEN "draft" ELSE "over")
  /\ pos' = pos + 1
  /\ table' = Observe(out', Best(logit))
  /\ UNCHANGED <<rows, fed, saved, logit, draft, k, naccept>>

\* The last token said is forwarded alone, for the logits.
StepLast(next) ==
  /\ Forward(pos - 1, <<Last(out)>>)
  /\ logit' = Seen(pos - 1, <<Last(out)>>, fed)
  /\ pc' = next

NoDraft ==
  /\ pc = "draft" /\ StepLast("pick")
  /\ UNCHANGED <<out, pos, saved, table, left, draft, k, naccept>>

\* am[i - 1]: the choice behind the last token said and i - 1 guesses.
Argmax(d, i) == Best(Seen(pos - 1, <<Last(out)>> \o Head0(d, i - 1), fed))
AgreesUnchecked(d) == Len(d)
Agrees(d) == CHOOSE n \in 0..Len(d) :
  /\ \A i \in 1..n : Argmax(d, i) = d[i]
  /\ n < Len(d) => Argmax(d, n + 1) # d[n + 1]

\* The state is saved, and one batched forward judges the whole draft.
Verify(d) ==
  /\ pc = "draft" /\ d # <<>>
  /\ Forward(pos - 1, <<Last(out)>> \o d)
  /\ saved' = fed /\ draft' = d /\ k' = 0 /\ naccept' = Agrees(d)
  /\ pc' = IF Agrees(d) < Len(d) THEN "restore" ELSE "accept"
  /\ UNCHANGED <<out, pos, logit, table, left>>

\* A guess was wrong: the state is restored ...
Restore ==
  /\ pc = "restore"
  /\ fed' = saved /\ pc' = "replay"
  /\ UNCHANGED <<out, pos, rows, saved, logit, table, left, draft, k, naccept>>

\* ... and what was right is forwarded and picked again, one by one.
Replay ==
  /\ pc = "replay" /\ k < naccept /\ left > 0
  /\ Forward(pos - 1, <<Last(out)>>)
  /\ Say(Best(Seen(pos - 1, <<Last(out)>>, fed)), "replay")
  /\ pos' = pos + 1 /\ k' = k + 1
  /\ UNCHANGED <<saved, logit, table, draft, naccept>>

Replayed ==
  /\ pc = "replay" /\ (k = naccept \/ left = 0)
  /\ StepLast("pick")
  /\ UNCHANGED <<out, pos, saved, table, left, draft, k, naccept>>

AdvancedLess == Len(draft) - 1
Advanced == Len(draft)

\* Every guess was right: they are said, and the last one is forwarded again.
Accept ==
  /\ pc = "accept" /\ k < Len(draft) /\ left > 0
  /\ Say(draft[k + 1], "accept")
  /\ pos' = IF k = 0 THEN pos + Advanced ELSE pos
  /\ k' = k + 1
  /\ UNCHANGED <<rows, fed, saved, logit, table, draft, naccept>>

Accepted ==
  /\ pc = "accept" /\ (k = Len(draft) \/ left = 0)
  /\ StepLast("pick")
  /\ UNCHANGED <<out, pos, saved, table, left, draft, k, naccept>>

Over ==
  /\ \/ pc = "stopped"
     \/ pc = "over"
     \/ pc = "pick" /\ left = 0
  /\ pc' = "done"
  /\ UNCHANGED <<out, pos, rows, fed, saved, logit, table, left, draft, k, naccept>>

Ended == pc = "done" /\ UNCHANGED vars

Next ==
  \/ Pick \/ NoDraft \/ (\E d \in Prefixes(Chain[Limit]) : Verify(d))
  \/ Restore \/ Replay \/ Replayed \/ Accept \/ Accepted \/ Over
  \/ Ended

Spec == Init /\ [][Next]_vars

-----------------------------------------------------------------------------
TypeOK ==
  /\ out \in Seq(Vocab) /\ rows \in Seq(Vocab) /\ fed \in Seq(Vocab) /\ logit \in Seq(Vocab)
  /\ draft \in Seq(Vocab) /\ k \in 0..Len(draft) /\ naccept \in 0..Len(draft)
  /\ Len(draft) <= SpecK /\ left \in 0..Ngen /\ pos \in Nat

(* When logits are at hand for another token, the rows before it are those   *)
(* of prompt and answer, whatever drafts were laid over them.                *)
RowsTrue ==
  pc = "pick" /\ left > 0 => pos = Len(out) /\ Head0(rows, pos) = out

(* The logits at hand are those behind what was said, once.                  *)
StateTrue == pc = "pick" /\ left > 0 => logit = out

(* The drafts change the speed and nothing else: what is said before a stop  *)
(* is what plain greedy decoding says.                                       *)
Said == IF out # <<>> /\ pc \in {"stopped", "done"} /\ Last(out) \in Stops THEN Front(out) ELSE out
Plain == INSTANCE GreedyDecode WITH said <- Said, answering <- pc # "done"

\* The question is asked before the first state here.
Lossless == [][Plain!Say \/ Plain!End]_<<Said, left, pc # "done">>

(* Every forward stays within the KV cache, the drafts' rows included.       *)
InRoom == Len(rows) <= MaxCtx

(* "record: after generating 'next' following the n-gram ending at           *)
(* hist[len-1]": what an n-gram is filed with has followed it.               *)
FiledTrue ==
  \A g \in DOMAIN table :
    \E i \in 1..Len(out) - Order : SubSeq(out, i, i + Order - 1) = g /\ out[i + Order] = table[g]
=============================================================================
