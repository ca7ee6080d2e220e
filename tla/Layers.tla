------------------------------- MODULE Layers --------------------------------
(* The layers of src/c/nn that read what earlier forwards left behind:       *)
(* attention and its KV rows, the recurrent state of Gated DeltaNet, the     *)
(* window of the short convolution.  No number is computed.  A row is named  *)
(* by the history it stands for, the tokens up to its own; a layer that      *)
(* reads anything but what belongs to that history makes a Wrong row.        *)
EXTENDS Integers, Sequences, SequencesExt

Wrong == <<-1>>
Begin(h, n) == SubSeq(h, 1, n)

\* A KV row: the history, the layer that projected it, what its V is made of.
Row(h, i, v) == [at |-> h, of |-> i, v |-> v]
Hole == Row(Wrong, 0, "v")

\* One row behind the other, from position p on.
Stored(cache, x, p, i, v) ==
  [t \in DOMAIN cache |-> IF t - p \in 1..Len(x) THEN Row(x[t - p], i, v) ELSE cache[t]]

\* The positions a query looks at: all up to its own, or the last Window.
Seen(q, window) == IF window = 0 THEN 1..q ELSE {t \in 1..q : t > q - window}

\* Attention of x, from position p on, over rows of layer i whose V is v.
Attended(cache, x, p, window, i, v) ==
  [s \in 1..Len(x) |->
     IF x[s] # Wrong /\ Len(x[s]) = p + s
        /\ \A t \in Seen(p + s, window) : cache[t] = Row(Begin(x[s], t), i, v)
     THEN x[s] ELSE Wrong]

\* The recurrence, token by token: a state takes the row that follows it.
Recurred(state, x) ==
  LET Next(h, row) == IF row # Wrong /\ h # Wrong /\ h = Front(row) THEN row ELSE Wrong
      State[s \in 0..Len(x)] == IF s = 0 THEN state ELSE Next(State[s - 1], x[s])
  IN  [s \in 1..Len(x) |-> State[s]]

\* The convolution: the window holds the rows just before, zeros before them.
Convolved(window, x) ==
  LET all == window \o x
      Before(s) == SubSeq(all, s, s + Len(window) - 1)
  IN  [s \in 1..Len(x) |->
         IF x[s] # Wrong
            /\ \A j \in 1..Len(window) :
                 Before(s)[j] = Begin(x[s], Len(x[s]) - Len(window) + j - 1)
         THEN x[s] ELSE Wrong]
Shifted(window, x) == LET all == window \o x IN SubSeq(all, Len(x) + 1, Len(all))
=============================================================================
