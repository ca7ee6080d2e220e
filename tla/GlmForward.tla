----------------------------- MODULE GlmForward ------------------------------
(* The forward pass of src/c/engines/glm.c: MLA attention over one KV cache  *)
(* or over one per row, the top-k selection that the full layers make and    *)
(* the shared ones use again, and the draft head (MTP) with its own KV rows. *)
(* As in Layers a row is named by the history it stands for.  One caller     *)
(* decodes behind drafts (run_serve); the other feeds several conversations  *)
(* and decodes them in one batch, without drafts (run_serve_mux).            *)
EXTENDS Layers, FiniteSetsExt

CONSTANTS
  Models,      \* config and weights; see ModelOK
  Vocab,       \* tokens
  Letters,     \* those of a prompt
  Best(_),     \* the token picked behind a history
  Places,      \* max_t
  TopK,        \* index_topk
  AbsorbRows,  \* 4: the largest batch of one conversation that is absorbed
  Drafts,      \* g_draft
  Longest,     \* bound on a prompt
  BatchPlaces, \* at most Places: the positions decoded in batches
  MaxFed       \* bound on the number of prompts

ModelOK(f) ==
  /\ f.layers \in Nat \ {0} /\ f.freq \in Nat \ {0} /\ f.off \in Nat
  /\ f.types \in Seq({"full", "shared"}) /\ f.indexer \subseteq 1..f.layers
  /\ {f.mtp, f.plain} \subseteq BOOLEAN /\ f.slots \in Nat \ {0}

\* indexer_types, or every freq-th layer from the offset on.
Full(f, i) ==
  IF i <= Len(f.types) THEN f.types[i] = "full"
  ELSE LET v == i - f.off IN (IF v < 0 THEN 0 ELSE v) % f.freq = 0

\* The config of the model begins with a full layer: a shared one before it
\* would read the selection of the forward before.  Of two letters one is wrong.
GlmForwardAssumption ==
  /\ \A f \in Models : ModelOK(f) /\ Full(f, 1)
  /\ {Places, AbsorbRows, MaxFed} \subseteq Nat \ {0} /\ {TopK, Drafts} \subseteq Nat
  /\ {BatchPlaces, Longest} \subseteq 1..Places
  /\ Letters \subseteq Vocab /\ Vocab \subseteq Nat /\ \E a, b \in Letters : a # b
  /\ \A n \in 0..Places : \A h \in [1..n -> Vocab] : Best(h) \in Vocab

VARIABLES
  net,      \* what was loaded
  kv,       \* per conversation and layer: the rows of Lc and Rc
  keys,     \* per conversation and layer: the rows of Ic
  start,    \* kv_start of the draft head, -1 when it has no row
  bound,    \* m->kv
  sel,      \* dsa_sel, dsa_nsel: per row of the batch, <<>> for every position
  hist,     \* per conversation: its tokens
  hidden,   \* hlast
  logits,   \* per conversation: the history its logits are of, <<>> for none
  fed       \* prompts so far

vars == <<net, kv, keys, start, bound, sel, hist, hidden, logits, fed>>

-----------------------------------------------------------------------------
(* Loading.                                                                  *)

\* The indexer is used when every full layer has its weights.
HasDsa(f) == TopK > 0 /\ \A i \in 1..f.layers : Full(f, i) => i \in f.indexer

LoadedNet(f) ==
  [layers |-> f.layers, full |-> [i \in 1..f.layers |-> Full(f, i)], dsa |-> HasDsa(f),
   mtp |-> f.mtp, plain |-> f.plain, slots |-> f.slots]

\* run_serve_mux sets g_draft to 0.
DraftsOf == IF net.slots > 1 \/ ~net.mtp THEN 0 ELSE Drafts
Head1 == net.layers + 1
Slots == 1..net.slots

\* kv_alloc: a row more for the draft head, keys where the layer is full.
Fresh(layers) == [c \in Slots |-> [i \in layers |-> [t \in 1..Places |-> Hole]]]

Blank ==
  [kv |-> Fresh(1..Head1),
   keys |-> Fresh({i \in 1..net.layers : net.dsa /\ net.full[i]}),
   hist |-> [c \in Slots |-> <<>>]]

Init ==
  /\ net \in {LoadedNet(f) : f \in Models}
  /\ kv = Blank.kv /\ keys = Blank.keys
  /\ start = -1 /\ bound = 1 /\ sel = <<>>
  /\ hist = Blank.hist /\ hidden = <<>> /\ logits = Blank.hist /\ fed = 0

-----------------------------------------------------------------------------
(* Attention.  A batch names the conversation and the position of each row.  *)

Contiguous(c, p, n) ==
  [at |-> [s \in 1..n |-> <<c, p + s>>], ragged |-> FALSE, own |-> c, base |-> p]
Ragged(places) == [at |-> places, ragged |-> TRUE, own |-> bound, base |-> 0]

\* The same sequence; TLC evaluates it here, once.
Made(x) == x \o <<>>

\* Each row goes to its own cache.
Written(cache, b, x, i) ==
  [c \in Slots |-> [cache[c] EXCEPT ![i] =
     Made([t \in 1..Places |->
        LET mine == {s \in DOMAIN b.at : b.at[s] = <<c, t>>} IN
        IF mine = {} THEN @[t] ELSE Row(x[Max(mine)], i, "v")])]]

Whole(rows, h, i, q) ==
  h # Wrong /\ Len(h) = q /\ \A t \in 1..q : rows[t] = Row(Begin(h, t), i, "v")

\* What a query must look at: every position, or the choice of layer i.
TopOf(h, i) == IF Len(h) <= TopK THEN <<>> ELSE <<i>> \o h

\* A full layer scores the keys up to each row; the rows of a larger batch
\* before it stay.
Selected(r, b, i) ==
  LET New(s) == LET c == b.at[s][1]
                    q == b.at[s][2] IN
                IF q <= TopK THEN <<>>
                ELSE IF Whole(r.keys[c][i], r.x[s], i, q) THEN TopOf(r.x[s], i) ELSE Wrong
  IN  Made([s \in 1..Max({Len(r.sel), Len(r.x)}) |->
              IF s <= Len(r.x) THEN New(s) ELSE r.sel[s]])

Indexed(r, b, i) ==
  IF net.dsa /\ i <= net.layers /\ net.full[i]
  THEN LET k == [r EXCEPT !.keys = Written(@, b, r.x, i)] IN [k EXCEPT !.sel = Selected(k, b, i)]
  ELSE r

\* The absorbed form reads the cache of the row; the other one rebuilds K and V
\* of the conversation that is bound.
Absorbed(b) == b.ragged \/ Len(b.at) <= AbsorbRows
ReadAt(b, s) == IF Absorbed(b) THEN b.at[s] ELSE <<b.own, b.base + s>>

LastFull(i) == Max({j \in 1..i : net.full[j]})

Attention(r, b, i) ==
  LET w == Indexed([r EXCEPT !.kv = Written(@, b, r.x, i)], b, i)
      Looked(s) == IF net.dsa /\ i <= net.layers THEN w.sel[s] ELSE <<>>
      Due(s) == IF net.dsa /\ i <= net.layers THEN TopOf(w.x[s], LastFull(i)) ELSE <<>>
      Good(s) == Whole(w.kv[ReadAt(b, s)[1]][i], w.x[s], i, ReadAt(b, s)[2]) /\ Looked(s) = Due(s)
  IN  [w EXCEPT !.x = Made([s \in DOMAIN @ |-> IF Good(s) THEN @[s] ELSE Wrong])]

\* A layer: attention, then the experts row by row.
Layer(r, b, i) == Attention(r, b, i)
Pass(x, b) ==
  LET After[i \in 0..net.layers] ==
        IF i = 0 THEN [x |-> x, kv |-> kv, keys |-> keys, sel |-> sel]
        ELSE Layer(After[i - 1], b, i)
  IN  After[net.layers]

-----------------------------------------------------------------------------
(* The draft head: row t is made of the state at t and of the token behind.  *)

StartAt(st, p) == IF st < 0 \/ st > p THEN p ELSE st

\* mtp_draft: the first row is of the true state, the others of guesses.
Drafted(rows, h, next, len) ==
  [t \in 1..Places |->
     IF t = len THEN Row(Append(h, next), Head1, "v")
     ELSE IF t \in len + 1..len + DraftsOf - 1 THEN Row(Wrong, Head1, "v") ELSE rows[t]]

\* mtp_absorb: pairs of a verified state with the token that came behind it.
AbsorbedPairs(rows, x, next, p) ==
  [t \in 1..Places |->
     IF t - p \in 1..Len(next)
     THEN Row(IF x[t - p] = Wrong THEN Wrong ELSE Append(x[t - p], next[t - p]), Head1, "v")
     ELSE rows[t]]

-----------------------------------------------------------------------------
Named(h, ids) == [s \in 1..Len(ids) |-> h \o Begin(ids, s)]

\* A prompt that shares p tokens with the conversation; an identical one runs
\* its last token again.
Feed(c, p, ids) ==
  LET h == Begin(hist[c], p)
      r == Pass(Named(h, ids), Contiguous(c, p, Len(ids)))
      from == IF p < Len(hist[c]) THEN -1 ELSE start
      absorbs == DraftsOf > 0 /\ Len(ids) >= 2 IN
  /\ ids # <<>> /\ p + Len(ids) <= Longest /\ fed < MaxFed /\ fed' = fed + 1
  /\ net.plain => p < Len(hist[c]) \/ p = 0
  /\ bound' = c
  /\ hist' = [hist EXCEPT ![c] = h \o ids]
  /\ kv' = IF absorbs THEN [r.kv EXCEPT ![c][Head1] = AbsorbedPairs(@, r.x, Tail(ids), p)]
           ELSE r.kv
  /\ start' = IF absorbs THEN StartAt(from, p) ELSE from
  /\ keys' = r.keys /\ sel' = r.sel
  /\ hidden' = r.x[Len(ids)] /\ logits' = [logits EXCEPT ![c] = r.x[Len(ids)]]
  /\ UNCHANGED net

\* A turn of spec_decode: next and its drafts in one forward, of which n hold.
\* The drafts come from the head, or from a grammar or while the head is paused.
\* The answer was cut to what fits behind the conversation.
Verify(next, d, n, head) ==
  LET len == Len(hist[1])
      r == Pass(Named(hist[1], <<next>> \o d), Contiguous(1, len, 1 + Len(d)))
      out == IF head THEN Drafted(kv[1][Head1], hidden, next, len) ELSE kv[1][Head1] IN
  /\ net.slots = 1 /\ logits[1] # <<>>
  /\ len + 1 + Len(d) + DraftsOf + 2 <= Places
  /\ head => DraftsOf > 0
  /\ net.plain /\ DraftsOf > 0 => head
  /\ bound' = bound
  /\ hist' = [hist EXCEPT ![1] = @ \o <<next>> \o Begin(d, n)]
  /\ kv' = [r.kv EXCEPT ![1][Head1] = IF net.mtp /\ n >= 1
                                      THEN AbsorbedPairs(out, r.x, Begin(d, n), len) ELSE out]
  /\ start' = IF head THEN StartAt(start, len - 1)
              ELSE IF net.mtp /\ n >= 1 THEN StartAt(start, len) ELSE start
  /\ keys' = r.keys /\ sel' = r.sel
  /\ hidden' = r.x[n + 1]
  /\ logits' = [logits EXCEPT ![1] = r.x[n + 1]]
  /\ UNCHANGED <<net, fed>>

\* step_decode_batch: a token of each of several conversations, in their order.
Ascending(C) ==
  {o \in [1..Cardinality(C) -> C] : \A a, b \in DOMAIN o : a < b => o[a] < o[b]}

Batch(token, order) ==
  LET places == [s \in 1..Len(order) |-> <<order[s], Len(hist[order[s]]) + 1>>]
      r == Pass([s \in 1..Len(order) |-> Append(hist[order[s]], token[order[s]])], Ragged(places)) IN
  /\ net.slots > 1 /\ DOMAIN token # {}
  /\ \A c \in DOMAIN token : logits[c] # <<>> /\ Len(hist[c]) < BatchPlaces
  /\ bound' = bound
  /\ hist' = [c \in Slots |-> IF c \in DOMAIN token THEN Append(hist[c], token[c]) ELSE hist[c]]
  /\ kv' = r.kv /\ keys' = r.keys /\ sel' = r.sel
  /\ logits' = [c \in Slots |->
       IF c \in DOMAIN token THEN r.x[CHOOSE s \in 1..Len(order) : order[s] = c] ELSE logits[c]]
  /\ UNCHANGED <<net, start, hidden, fed>>

\* The caches go with the process; the next one has new ones.
Closed ==
  /\ fed > 0
  /\ kv' = Blank.kv /\ keys' = Blank.keys /\ hist' = Blank.hist /\ logits' = Blank.hist
  /\ start' = -1 /\ bound' = 1 /\ sel' = <<>> /\ hidden' = <<>> /\ fed' = 0
  /\ UNCHANGED net

TextsOf(k) == UNION {[1..j -> Letters] : j \in 1..k}

\* What the model says behind h, and g drafts of which the first n are that.
Says(h, n) ==
  LET Said[j \in 0..n] == IF j = 0 THEN h ELSE Append(Said[j - 1], Best(Said[j - 1]))
  IN  SubSeq(Said[n], Len(h) + 1, Len(h) + n)
Guessed(h, g, n) ==
  [j \in 1..g |-> IF j <= n THEN Says(h, n)[j] ELSE CHOOSE t \in Letters : t # Best(h \o Says(h, n))]

Next ==
  \/ \E c \in Slots : \E p \in 0..Len(hist[c]), ids \in TextsOf(Longest) : Feed(c, p, ids)
  \/ \E g \in 0..Drafts, head \in BOOLEAN : \E n \in 0..g :
       LET next == Best(hist[1]) IN Verify(next, Guessed(Append(hist[1], next), g, n), n, head)
  \/ Closed
  \/ \E C \in SUBSET Slots : \E order \in Ascending(C) :
       Batch([c \in C |-> Best(hist[c])], order)

Spec == Init /\ [][Next]_vars

-----------------------------------------------------------------------------
TypeOK ==
  /\ bound \in Slots /\ fed \in 0..MaxFed /\ start \in -1..Places - 1
  /\ \A c \in Slots : hist[c] \in Seq(Nat) /\ Len(hist[c]) <= Places

(* In one block, behind drafts that were dropped, in a batch with others,    *)
(* with a selection made here or one layer before: the logits are those of   *)
(* the conversation, and the state the next draft begins with too.           *)
LogitsTrue ==
  /\ \A c \in Slots : logits[c] # <<>> => logits[c] = hist[c]
  /\ net.slots = 1 /\ logits[1] # <<>> => hidden = hist[1]

(* "La KV del layer MTP ... e' valida da kv_start": from there on the rows of *)
(* the head are the verified pairs, as long as every draft comes from the    *)
(* head and a prompt begins at the start or cuts the conversation.           *)
RowsTrue ==
  net.plain /\ start >= 0 =>
    \A t \in start + 1..Len(hist[1]) - 1 :
      kv[1][Head1][t] = Row(Begin(hist[1], t + 1), Head1, "v")
=============================================================================
