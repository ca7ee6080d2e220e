-------------------------------- MODULE Dense --------------------------------
(* The forward pass of the engines that share src/c/runtime (qwen, lfm2,     *)
(* gemma, qwenmoe) and of olmoe: a history is fed in blocks, token by token  *)
(* or as drafts to judge, aborted, reset and begun anew, and the logits must *)
(* be those of the history, computed with every weight the files ask for.    *)
(* A client is a handle of the library or a turn of gen_turn.                *)
EXTENDS Layers, FiniteSets

CONSTANTS
  Files,      \* model files, adapter files and settings; see FileOK
  Vocab,      \* tokens, below Img
  Img,        \* item Img + n stands for the n-th row of EMBEDS
  MaxT,       \* positions of the KV cache
  Block,      \* PREFILL_CHUNK, or the chunk of the library
  Window,     \* sliding_window
  ConvL,      \* conv_L_cache
  TtaN        \* TTA_N

FileOK(f) ==
  /\ f.engine \in {"qwen", "lfm2", "gemma", "qwenmoe", "olmoe"}
  /\ f.client \in {"library", "turn"} /\ f.client = "library" => f.engine \in {"qwen", "lfm2"}
  /\ f.layers \in Nat \ {0} /\ f.every \in Nat \ {0} /\ f.shared \in Nat
  /\ f.with \subseteq {"lora_q", "lora_gate", "lm_lora", "gated", "r4", "streamed", "micro",
                       "shortlist", "tta", "own_k", "v_proj", "int4"}

DenseAssumption ==
  /\ \A f \in Files : FileOK(f)
  /\ {MaxT, Window, TtaN} \subseteq Nat \ {0} /\ Block \in Nat /\ ConvL \in Nat \ {0, 1}
  /\ Img \in Nat \ {0} /\ Vocab \subseteq 0..Img - 1

VARIABLES
  file,      \* what was loaded
  layers,    \* the layers it was loaded into
  kv, rec,   \* per layer: KV rows; recurrent state or window
  hist,      \* the tokens the caller has fed (n_past, len)
  todo,      \* what is left of a prompt
  used,      \* inj_used
  logits,    \* the logits at hand: of what, through which head
  tta        \* g_tta in mode cache

vars == <<file, layers, kv, rec, hist, todo, used, logits, tta>>

Has(f, what) == what \in f.with
None == [of |-> <<>>, head |-> {}]

-----------------------------------------------------------------------------
(* Loading: which kind every layer is, and how its matrices are stored.      *)

\* layer_types of the config, or every n-th layer full.
Patterned(f, other, i) == IF i % f.every = 0 THEN "full" ELSE other
QwenKind(f, i) ==
  IF f.types # <<>> THEN IF f.types[i] = "linear" THEN "linear" ELSE "full"
  ELSE IF f.every > 1 THEN Patterned(f, "linear", i) ELSE "full"
QwenmoeKind(f, i) ==
  IF f.types # <<>> THEN IF f.types[i] = "full" THEN "full" ELSE "linear"
  ELSE Patterned(f, "linear", i)
GemmaKind(f, i) ==
  IF f.types # <<>> THEN IF f.types[i] = "full" THEN "full" ELSE "sliding"
  ELSE IF i = f.layers THEN "full" ELSE Patterned(f, "sliding", i)

\* A layer with q_proj is attention, whatever the config says.
Lfm2Kind(f, i) == IF f.types[i] = "full" THEN "full" ELSE "conv"

Kind(f, i) ==
  CASE f.engine = "qwen" -> QwenKind(f, i)
    [] f.engine = "qwenmoe" -> QwenmoeKind(f, i)
    [] f.engine = "gemma" -> GemmaKind(f, i)
    [] f.engine = "lfm2" -> Lfm2Kind(f, i)
    [] OTHER -> "full"

\* The last layers of gemma take the rows of the last one before them that is
\* of their kind; a config without such a layer is refused.
KvSources(f, i) ==
  IF f.engine = "gemma" /\ i > f.layers - f.shared
  THEN {j \in 1..f.layers - f.shared : GemmaKind(f, j) = GemmaKind(f, i)}
  ELSE {i}
KvSource(f, i) == CHOOSE j \in KvSources(f, i) : \A k \in KvSources(f, i) : k <= j
Accepted(f) == f.shared < f.layers /\ \A i \in 1..f.layers : KvSources(f, i) # {}

\* A shared layer that has a k_proj all the same is loaded as one of its own.
WritesKv(f, i) == KvSource(f, i) = i \/ Has(f, "own_k")

\* The values of gemma: v_proj is looked for as f32 or int8, else V is K.
VTensor(f) == IF f.engine = "gemma" /\ ~Has(f, "v_proj") THEN "k" ELSE "v"
VApplied(f) == IF f.engine = "gemma" /\ Has(f, "int4") THEN "k" ELSE VTensor(f)

\* lora_load: the adapters of a layer (here of the first one).
Adapters(f, i) ==
  IF f.engine = "qwen" /\ i = 1
  THEN (IF Has(f, "lora_q") THEN {"q"} ELSE {}) \cup (IF Has(f, "lora_gate") THEN {"gate"} ELSE {})
  ELSE {}

Resident(f, i) == ~Has(f, "micro") /\ (Has(f, "streamed") => i = 1)

\* qwen_fuse, lfm2_fuse: one matrix for q, k, v and one for gate and up.
FusableAdapted(f, i, lo) == Has(f, "r4") /\ Resident(f, i)
Fusable(f, i, lo) == lo = {} /\ Has(f, "r4") /\ Resident(f, i)
Qkv(f, i) == Fusable(f, i, Adapters(f, i)) /\ Kind(f, i) = "full" /\ ~Has(f, "gated")
GateUp(f, i) == Fusable(f, i, Adapters(f, i))

\* What attention and mlp apply: the fused rows take the place of adapted ones.
Applied(f, i) == Adapters(f, i) \ ((IF Qkv(f, i) THEN {"q"} ELSE {}) \cup
                                   (IF GateUp(f, i) THEN {"gate"} ELSE {}))

LayerOf(f, i) ==
  [kind |-> Kind(f, i), src |-> KvSource(f, i), writes |-> WritesKv(f, i),
   v |-> VApplied(f), wants |-> VTensor(f), exact |-> Applied(f, i) = Adapters(f, i)]

\* kv_alloc: rows for the layers that own some.
Owner(f, i) == Kind(f, i) \in {"full", "sliding"} /\ KvSource(f, i) = i

\* The states after state_reset; gemma and olmoe have none.
StartOf(f, i) ==
  CASE Kind(f, i) = "conv" -> [j \in 1..ConvL - 1 |-> <<>>]
    [] OTHER -> <<>>
Zeroed(f) == [i \in 1..f.layers |-> StartOf(f, i)]

\* The ring of the cache: the slots in use, in their order.
FreshTta == [alloc |-> FALSE, valid |-> FALSE, h |-> <<>>, head |-> 0, ring |-> <<>>]

Init ==
  /\ file \in {f \in Files : Accepted(f)}
  /\ layers = [i \in 1..file.layers |-> LayerOf(file, i)]
  /\ kv = [i \in {j \in 1..file.layers : Owner(file, j)} |-> [t \in 1..MaxT |-> Hole]]
  /\ rec = Zeroed(file)
  /\ hist = <<>> /\ todo = <<>> /\ used = 0 /\ logits = None /\ tta = FreshTta

-----------------------------------------------------------------------------
(* One forward of ids behind hist.                                           *)

\* embed_row: a placeholder takes the next external row.
Placed(ids, s) == used + Cardinality({r \in 1..s : ids[r] >= Img})
Embedded(ids) ==
  [s \in 1..Len(ids) |->
     IF ids[s] >= Img => ids[s] = Img + Placed(ids, s) THEN hist \o Begin(ids, s) ELSE Wrong]

\* The rows of a layer are stored, then read.
Attention(l, i, r, p, window) ==
  LET rows == IF l.writes THEN [r.kv EXCEPT ![l.src] = Stored(@, r.x, p, i, l.v)] ELSE r.kv
      of == IF l.writes THEN i ELSE l.src IN
  [r EXCEPT !.kv = rows, !.x = Attended(rows[l.src], @, p, window, of, l.wants)]

DeltaNet(i, r) ==
  LET x == Recurred(r.rec[i], r.x) IN [r EXCEPT !.x = x, !.rec[i] = x[Len(x)]]

ShortConv(i, r) ==
  [r EXCEPT !.x = Convolved(r.rec[i], @), !.rec[i] = Shifted(@, r.x)]

\* Then the feed-forward half, or the experts, row by row; a layer without all
\* its adapters makes no row that counts.
FeedForward(l, r) == IF l.exact THEN r ELSE [r EXCEPT !.x = [s \in DOMAIN @ |-> Wrong]]

QwenLayer(l, i, r, p) ==
  FeedForward(l, IF l.kind = "linear" THEN DeltaNet(i, r) ELSE Attention(l, i, r, p, 0))
Lfm2Layer(l, i, r, p) ==
  FeedForward(l, IF l.kind = "conv" THEN ShortConv(i, r) ELSE Attention(l, i, r, p, 0))
GemmaLayer(l, i, r, p) ==
  FeedForward(l, Attention(l, i, r, p, IF l.kind = "full" THEN 0 ELSE Window))
QwenmoeLayer(l, i, r, p) ==
  FeedForward(l, IF l.kind = "linear" THEN DeltaNet(i, r) ELSE Attention(l, i, r, p, 0))
OlmoeLayer(l, i, r, p) == FeedForward(l, Attention(l, i, r, p, 0))

Layer(l, i, r, p) ==
  CASE file.engine = "qwen" -> QwenLayer(l, i, r, p)
    [] file.engine = "lfm2" -> Lfm2Layer(l, i, r, p)
    [] file.engine = "gemma" -> GemmaLayer(l, i, r, p)
    [] file.engine = "qwenmoe" -> QwenmoeLayer(l, i, r, p)
    [] OTHER -> OlmoeLayer(l, i, r, p)

Pass(ids) ==
  LET After[i \in 0..file.layers] ==
        IF i = 0 THEN [x |-> Embedded(ids), kv |-> kv, rec |-> rec]
        ELSE Layer(layers[i], i, After[i - 1], Len(hist))
  IN  After[file.layers]

\* The head of a decode step, and the plain one of g_all_logits.
HeadUsed(f) ==
  (IF Has(f, "lm_lora") THEN {"base", "adapter"}
   ELSE IF Has(f, "shortlist") /\ f.engine \in {"qwen", "lfm2"} THEN {"short"} ELSE {"base"})
  \cup (IF Has(f, "tta") THEN {"cache"} ELSE {})
FullHead == {"base"}

\* What step() leaves, and the part of it that moves with ids.
Fed(r, ids) ==
  /\ kv' = r.kv /\ rec' = r.rec
  /\ used' = used + Cardinality({s \in 1..Len(ids) : ids[s] >= Img})

\* step() keeps the state that predicts, tta_adjust allocates and mixes it in.
Stashed(h) ==
  IF Has(file, "tta") THEN [tta EXCEPT !.alloc = TRUE, !.valid = @ \/ tta.alloc,
                                       !.h = IF tta.alloc THEN h ELSE @]
  ELSE tta

\* tta_observe: the state and the token that followed it go into the ring.
Observed(t) ==
  IF Has(file, "tta") /\ tta.alloc /\ tta.valid
  THEN [tta EXCEPT !.head = (@ + 1) % TtaN,
                   !.ring = IF Len(@) < TtaN THEN Append(@, Append(tta.h, t))
                            ELSE [@ EXCEPT ![tta.head + 1] = Append(tta.h, t)]]
  ELSE tta

ResetTtaNot == tta
ResetTta == [tta EXCEPT !.valid = FALSE, !.head = 0, !.ring = <<>>]

-----------------------------------------------------------------------------
\* A prompt arrives: tokens, and in the library rows for the placeholders.
Ask(ids) ==
  /\ todo = <<>> /\ ids # <<>> /\ Len(hist) + Len(ids) <= MaxT
  /\ file.client = "turn" => hist = <<>>
  /\ todo' = ids /\ used' = 0 /\ logits' = None
  /\ UNCHANGED <<file, layers, kv, rec, hist, tta>>

\* A block of it; only the last one has logits.
BlockLen == IF Block > 0 /\ Len(todo) > Block /\ file.engine # "olmoe" THEN Block ELSE Len(todo)
Prefill ==
  /\ todo # <<>>
  /\ LET ids == Begin(todo, BlockLen)
         r == Pass(ids) IN
     /\ Fed(r, ids)
     /\ hist' = hist \o ids /\ todo' = SubSeq(todo, BlockLen + 1, Len(todo))
     /\ IF todo' = <<>>
        THEN logits' = [of |-> r.x[Len(ids)], head |-> HeadUsed(file)] /\ tta' = Stashed(r.x[Len(ids)])
        ELSE UNCHANGED <<logits, tta>>
  /\ UNCHANGED <<file, layers>>

\* What is left of a conversation that is reset: the rows, and no state.
StartedAnewNot == UNCHANGED rec
StartedAnew == rec' = Zeroed(file)

Restart ==
  /\ StartedAnew /\ tta' = ResetTta
  /\ hist' = <<>> /\ todo' = <<>> /\ used' = 0 /\ logits' = None
  /\ UNCHANGED <<file, layers, kv>>

\* eng_prefill looks at the abort flag between two blocks, and the call that
\* fails resets; so does moty_reset, and a chat whose context is full.
Abort == todo # <<>> /\ hist # <<>> /\ file.client = "library" /\ Restart
Reset == todo = <<>> /\ hist # <<>> /\ Restart

\* A token is picked and fed for the next logits; the last one is only picked.
Decode(t) ==
  /\ logits # None /\ Len(hist) < MaxT
  /\ LET r == Pass(<<t>>)
         seen == Observed(t) IN
     /\ Fed(r, <<t>>) /\ hist' = Append(hist, t)
     /\ logits' = [of |-> r.x[1], head |-> HeadUsed(file)]
     /\ tta' = IF Has(file, "tta") THEN [seen EXCEPT !.h = r.x[1], !.valid = TRUE] ELSE seen
  /\ UNCHANGED <<file, layers, todo>>

LastPick(t) ==
  /\ logits # None /\ file.client = "turn"
  /\ logits' = None /\ tta' = Observed(t)
  /\ UNCHANGED <<file, layers, kv, rec, hist, todo, used>>

\* qwen_verify_ok: no state to take back, no head but the plain one.
VerifyOkRecurrent ==
  /\ file.engine = "qwen" /\ Adapters(file, 1) = {}
  /\ {"shortlist", "lm_lora", "tta", "micro", "streamed"} \cap file.with = {}
VerifyOk ==
  /\ file.engine = "qwen" /\ Adapters(file, 1) = {}
  /\ \A i \in 1..file.layers : Kind(file, i) # "linear"
  /\ {"shortlist", "lm_lora", "tta", "micro", "streamed"} \cap file.with = {}

\* Drafts are judged in one forward; the caller keeps n of them.
Verify(ids, n) ==
  /\ logits # None /\ file.client = "library" /\ VerifyOk /\ Len(hist) + Len(ids) <= MaxT
  /\ LET r == Pass(ids) IN
     /\ Fed(r, ids)
     /\ hist' = hist \o Begin(ids, n) /\ logits' = [of |-> r.x[n], head |-> FullHead]
  /\ UNCHANGED <<file, layers, todo, tta>>

Texts(n) == UNION {[1..k -> Vocab] : k \in 1..n}
Prompts == Texts(3) \cup
  (IF file.client = "library"
   THEN {<<Img + 1>>, <<Img + 1, 0, Img + 2>>} ELSE {})

Next ==
  \/ \E ids \in Prompts : Ask(ids)
  \/ Prefill \/ Abort \/ Reset
  \/ \E t \in Vocab : Decode(t)
  \/ \E t \in Vocab : LastPick(t)
  \/ \E ids \in [1..2 -> Vocab], n \in 1..2 : Verify(ids, n)

Spec == Init /\ [][Next]_vars

-----------------------------------------------------------------------------
TypeOK ==
  /\ file \in Files /\ Len(hist) + Len(todo) <= MaxT /\ used \in 0..MaxT
  /\ Len(layers) = file.layers /\ DOMAIN rec = 1..file.layers
  /\ Len(tta.ring) <= TtaN /\ tta.head \in 0..TtaN - 1

(* However a history was fed, in blocks, one by one, behind drafts that were *)
(* dropped, after an abort or a reset: the logits at hand are those of the   *)
(* history, through the head a decode step uses and with every adapter.      *)
LogitsTrue == logits # None => logits = [of |-> hist, head |-> HeadUsed(file)]

(* "hidden normalizzati", "token osservato dopo h_i": each pair of the cache *)
(* is a state of this conversation with the token that followed it, and the  *)
(* state that weighs them is the one that predicts.                          *)
PairsTrue ==
  /\ tta.valid /\ logits # None => tta.h = hist
  /\ \A n \in 1..Len(tta.ring) :
       LET pair == tta.ring[n] IN
       IsPrefix(Front(pair), hist) /\ (Len(pair) <= Len(hist) => IsPrefix(pair, hist))
=============================================================================
