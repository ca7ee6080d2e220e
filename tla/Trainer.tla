------------------------------- MODULE Trainer -------------------------------
(* src/c/engines/qwen_train.h: TRAIN=corpus trains the LoRA adapters of the  *)
(* last layers (and of the head) with a backward pass written by hand.  No   *)
(* number is computed: a gradient is a bag of the ways that lead to it, from *)
(* a position's loss back through the operations of the forward, one entry   *)
(* for each term the chain rule sums.  An operation is a node <<name,        *)
(* position, head>>.                                                         *)
EXTENDS Integers, Sequences, FiniteSets, Bags, SequencesExt

CONSTANTS
  Jobs,         \* trainings: settings and corpus; see JobOK
  Given,        \* the adapter files that may be there before
  HeadsOfQ, G,  \* n_heads, and how many of them share a head of K and V
  LeastWindow,  \* 8: shorter windows are left out
  MaxTensors,   \* 256, what stw_add takes
  MaxJobs       \* bound on the number of trainings

VARIABLES
  job,       \* the settings of this training
  phase,     \* off, refused, window, back, lost (not saved)
  lo, lm,    \* adapters: per layer and slot; of the head
  alpha,     \* what is saved as lora.alpha
  off, ep,   \* the window, the epoch
  steps,     \* adam_t
  dx,        \* per position: the gradient at the layer the way back has reached
  grads, ghead,
  at,        \* that layer
  disk,      \* LORA_OUT, which the next training may take as its LORA
  jobs

vars == <<job, phase, lo, lm, alpha, off, ep, steps, dx, grads, ghead, at, disk, jobs>>

Slots == {"q", "k", "v", "o", "gate", "up", "down"}
NoAdapter == [r |-> 0, alpha |-> 0, val |-> <<>>]
Absent == [r |-> 0, val |-> <<>>]
NoFile == [alpha |-> 0, lo |-> <<>>, lm |-> Absent]
Adapted(layer) == \E s \in Slots : layer[s].r > 0

\* LORA_LAYERS=0 trains the head alone; with LORA it would look at a layer
\* behind the last.
JobOK(j) ==
  /\ {j.layers, j.ctx, j.stride, j.epochs, j.rank, j.alpha} \subseteq Nat \ {0}
  /\ j.ctx >= LeastWindow /\ {j.want, j.tokens} \subseteq Nat /\ j.chunk \in Int
  /\ {j.head, j.warm, j.plain} \subseteq BOOLEAN /\ (j.warm => j.want > 0)
TrainerAssumption ==
  /\ \A j \in Jobs : JobOK(j)
  /\ {HeadsOfQ, G, LeastWindow, MaxTensors, MaxJobs} \subseteq Nat \ {0} /\ HeadsOfQ % G = 0

FirstLayer(j) == (IF j.layers > j.want THEN j.layers - j.want ELSE 0) + 1
Trained == FirstLayer(job)..job.layers
WindowLen == IF job.tokens - off < job.ctx THEN job.tokens - off ELSE job.ctx
Rows == 1..WindowLen
Heads == 0..HeadsOfQ - 1

-----------------------------------------------------------------------------
(* Adapters.                                                                 *)

\* lora_load: alpha of the file, or twice the rank; nothing unknown in it.
LoadedSlot(f, s) ==
  IF s.r = 0 THEN NoAdapter
  ELSE [r |-> s.r, alpha |-> IF f.alpha > 0 THEN f.alpha ELSE 2 * s.r, val |-> s.val]
SlotOfFile(f, i, s) == IF i \in DOMAIN f.lo THEN LoadedSlot(f, f.lo[i][s]) ELSE NoAdapter
Known(f, n) == DOMAIN f.lo \subseteq 1..n
LoadedLayers(f, n) == [i \in 1..n |-> [s \in Slots |-> SlotOfFile(f, i, s)]]

\* lora_train_alloc: every slot, B = 0.
New(j) == [r |-> j.rank, alpha |-> j.alpha, val |-> <<>>]
NewLayers(j) ==
  [i \in 1..j.layers |-> [s \in Slots |-> IF i >= FirstLayer(j) THEN New(j) ELSE NoAdapter]]

\* A warm start continues from the adapters of the file.
WarmLayers(j) == LoadedLayers(disk, j.layers)
WarmOK(j) ==
  /\ disk # NoFile /\ Known(disk, j.layers)
  /\ \A i \in FirstLayer(j)..j.layers : Adapted(WarmLayers(j)[i])
  /\ j.head => disk.lm.r > 0

\* train_guard (f32, plain attention, resident, KV in f32), and the corpus.
Allowed(j) == j.plain /\ j.tokens >= LeastWindow /\ (j.warm => WarmOK(j))

Refuse(j) ==
  /\ phase \in {"off", "refused"} /\ ~Allowed(j)
  /\ phase' = "refused" /\ job' = j
  /\ UNCHANGED <<lo, lm, alpha, off, ep, steps, dx, grads, ghead, at, disk, jobs>>

Begin(j) ==
  /\ phase \in {"off", "refused"} /\ jobs < MaxJobs /\ Allowed(j)
  /\ IF j.warm
     THEN LET q == WarmLayers(j)[FirstLayer(j)]["q"] IN
          /\ lo' = WarmLayers(j) /\ lm' = LoadedSlot(disk, disk.lm)
          /\ alpha' = IF q.r > 0 THEN q.alpha ELSE j.alpha
     ELSE /\ lo' = NewLayers(j) /\ lm' = (IF j.head THEN New(j) ELSE NoAdapter)
          /\ alpha' = j.alpha
  /\ job' = j /\ jobs' = jobs + 1 /\ phase' = "window"
  /\ off' = 0 /\ ep' = 1 /\ steps' = 0 /\ at' = 0 /\ dx' = <<>>
  /\ grads' = [i \in FirstLayer(j)..j.layers |-> [s \in Slots |-> EmptyBag]]
  /\ ghead' = EmptyBag
  /\ UNCHANGED disk

-----------------------------------------------------------------------------
(* The forward of a trained layer, by what each operation reads.             *)

Inputs(n) ==
  LET s == n[2]
      h == n[3]
      one(name) == {<<name, s, 0>>} IN
  CASE n[1] = "out"      -> one("mid") \cup one("h")
    [] n[1] = "h"        -> one("g") \cup one("u")
    [] n[1] \in {"g", "u"} -> one("m")
    [] n[1] = "m"        -> one("mid")
    [] n[1] = "mid"      -> one("in") \cup {<<"ctx", s, k>> : k \in Heads}
    [] n[1] = "ctx"      -> {<<"probs", s, h>>} \cup {<<"v", t, 0>> : t \in 1..s}
    [] n[1] = "probs"    -> {<<"q", s, h>>} \cup {<<"k", t, h \div G>> : t \in 1..s}
    [] n[1] = "q"        -> one("q_pre")
    [] n[1] = "k"        -> one("k_pre")
    [] n[1] \in {"q_pre", "k_pre", "v"} -> one("a")
    [] n[1] = "a"        -> one("in")
    [] OTHER             -> {}

Via(bag, n) == BagOfAll(LAMBDA w : Append(w, n), bag)
Summed(bags) == FoldFunction(LAMBDA a, b : a (+) b, EmptyBag, bags)

-----------------------------------------------------------------------------
(* A window: zero, forward and loss, back layer by layer, step.              *)

ZeroedNot == grads                                  \* Mutant
Zeroed == [i \in Trained |-> [s \in Slots |-> EmptyBag]]

\* The logits are made and judged a chunk of positions at a time; the target is
\* the token that follows, so that the last position has none.
LossChunk == IF job.chunk < 1 THEN 32 ELSE job.chunk
TargetOfChunk(s0, p) == off + p + 1                 \* Mutant
Target(s0, p) == off + s0 + p + 1
Judged ==
  [s \in Rows |->
     LET s0 == ((s - 1) \div LossChunk) * LossChunk IN
     IF s < WindowLen THEN SetToBag({<<<<"ce", s, Target(s0, s - s0)>>>>}) ELSE EmptyBag]

Loss ==
  /\ phase = "window" /\ off + LeastWindow <= job.tokens
  /\ grads' = Zeroed
  /\ dx' = Judged
  /\ ghead' = IF job.head THEN Summed(Judged) ELSE EmptyBag
  /\ at' = job.layers /\ phase' = "back"
  /\ UNCHANGED <<job, lo, lm, alpha, off, ep, steps, disk, jobs>>

\* What reaches a layer from above, all of it, is one way from here on down.
Incoming(s) ==
  IF dx[s] = EmptyBag THEN EmptyBag ELSE SetToBag({<<<<"window", steps, at>>, <<"out", s, 0>>>>})

\* up and gate read the same rows; each has a buffer for what it sends back.
IntoNormLast(du, dg) == [s \in Rows |-> Via(dg[s], <<"m", s, 0>>)]  \* Mutant: one buffer
IntoNorm(du, dg) == [s \in Rows |-> Via(du[s], <<"m", s, 0>>) (+) Via(dg[s], <<"m", s, 0>>)]

\* t_layer_backward: what comes into each matrix, and what leaves the layer.
Backward ==
  LET d == [s \in Rows |-> Incoming(s)]
      dh == [s \in Rows |-> Via(d[s], <<"h", s, 0>>)]
      du == [s \in Rows |-> Via(dh[s], <<"u", s, 0>>)]
      dg == [s \in Rows |-> Via(dh[s], <<"g", s, 0>>)]
      dn == IntoNorm(du, dg)
      mid == [s \in Rows |-> Via(d[s] (+) dn[s], <<"mid", s, 0>>)]
      dctx == [x \in Rows \X Heads |-> Via(mid[x[1]], <<"ctx", x[1], x[2]>>)]
      dp == [x \in Rows \X Heads |-> Via(dctx[x], <<"probs", x[1], x[2]>>)]
      dq == [s \in Rows |-> [h \in Heads |-> Via(dp[<<s, h>>], <<"q", s, h>>)]]
      Later(t) == (t..WindowLen) \X Heads
      dk == [t \in Rows |-> [x \in Later(t) |-> Via(dp[x], <<"k", t, x[2] \div G>>)]]
      dv == [t \in Rows |-> [x \in Later(t) |-> Via(dctx[x], <<"v", t, 0>>)]]
      v == [t \in Rows |-> Summed(dv[t])]
      qpre == [s \in Rows |-> Via(Summed(dq[s]), <<"q_pre", s, 0>>)]
      kpre == [t \in Rows |-> Via(Summed(dk[t]), <<"k_pre", t, 0>>)]
      dna == [s \in Rows |-> Via(qpre[s] (+) kpre[s] (+) v[s], <<"a", s, 0>>)]
  IN  [dx |-> [s \in Rows |-> Via(mid[s] (+) dna[s], <<"in", s, 0>>)],
       y |-> [down |-> d, up |-> du, gate |-> dg, o |-> mid, q |-> qpre, k |-> kpre, v |-> v]]

\* bw_lora_mat: an adapter adds what comes into its matrix to its gradient.
BackwardLayer ==
  /\ phase = "back" /\ at \in Trained
  /\ LET b == Backward IN
     /\ dx' = b.dx
     /\ grads' = [grads EXCEPT ![at] =
          [s \in Slots |-> IF lo[at][s].r > 0 THEN @[s] (+) Summed(b.y[s]) ELSE @[s]]]
  /\ at' = at - 1
  /\ UNCHANGED <<job, phase, lo, lm, alpha, off, ep, steps, ghead, disk, jobs>>

\* Behind the last window of an epoch the next one begins; what is not worth a
\* window is left out.
Stepped(a) == [a EXCEPT !.val = Append(@, <<jobs, steps + 1>>)]
Step ==
  /\ phase = "back" /\ at \notin Trained
  /\ steps' = steps + 1
  /\ lo' = [i \in DOMAIN lo |-> [s \in Slots |->
              IF i \in Trained /\ lo[i][s].r > 0 THEN Stepped(lo[i][s]) ELSE lo[i][s]]]
  /\ lm' = IF job.head THEN Stepped(lm) ELSE lm
  /\ LET next == off + job.stride
         more == next + LeastWindow <= job.tokens IN
     off' = (IF more THEN next ELSE 0) /\ ep' = (IF more THEN ep ELSE ep + 1)
  /\ phase' = IF ep' > job.epochs THEN "save" ELSE "window"
  /\ UNCHANGED <<job, alpha, dx, grads, ghead, at, disk, jobs>>

-----------------------------------------------------------------------------
\* lora_save: the trained layers and the head, under one alpha.
OnFile(a) == [r |-> a.r, val |-> a.val]
WrittenLayers == [i \in {l \in Trained : Adapted(lo[l])} |-> [s \in Slots |-> OnFile(lo[i][s])]]
WrittenAsAsked == [alpha |-> job.alpha, lm |-> OnFile(lm), lo |-> WrittenLayers]  \* Mutant
Written == [alpha |-> alpha, lm |-> OnFile(lm), lo |-> WrittenLayers]

\* Tensors of the file.
Count ==
  1 + 2 * (Cardinality({x \in Trained \X Slots : lo[x[1]][x[2]].r > 0}) + (IF lm.r > 0 THEN 1 ELSE 0))

\* stw_add has room for so many tensors, and ends the process at the next.
Save ==
  /\ phase = "save"
  /\ IF Count <= MaxTensors THEN disk' = Written /\ phase' = "off"
     ELSE phase' = "lost" /\ UNCHANGED disk
  /\ UNCHANGED <<job, lo, lm, alpha, off, ep, steps, dx, grads, ghead, at, jobs>>

Init ==
  /\ job = (CHOOSE j \in Jobs : TRUE) /\ phase = "off" /\ lo = <<>> /\ lm = NoAdapter /\ alpha = 0
  /\ off = 0 /\ ep = 1 /\ steps = 0 /\ dx = <<>> /\ grads = <<>> /\ ghead = EmptyBag /\ at = 0
  /\ disk \in Given \cup {NoFile} /\ jobs = 0

Next == (\E j \in Jobs : Begin(j) \/ Refuse(j)) \/ Loss \/ BackwardLayer \/ Step \/ Save
Spec == Init /\ [][Next]_vars

-----------------------------------------------------------------------------
TypeOK ==
  /\ job \in Jobs /\ jobs \in 0..MaxJobs /\ at \in 0..job.layers
  /\ phase \in {"off", "refused", "window", "back", "save", "lost"}

(* By the chain rule: every way down the graph of the forward, once.         *)
Ways(from) ==
  LET Down[n \in 0..11] ==
        IF n = 0 THEN from
        ELSE UNION {{Append(w, x) : x \in Inputs(Last(w))} : w \in Down[n - 1]}
  IN  UNION {Down[n] : n \in 0..11}
Ending(ways, name) == {w \in ways : Last(w)[1] = name}
Above(i) == {<<<<"window", steps, i>>, <<"out", s, 0>>>> : s \in 1..WindowLen - 1}
OutputOf(s) ==
  CASE s = "q" -> "q_pre" [] s = "k" -> "k_pre" [] s = "v" -> "v" [] s = "o" -> "mid"
    [] s = "gate" -> "g" [] s = "up" -> "u" [] s = "down" -> "out"

(* "backward SCRITTO A MANO (niente autograd)": behind a layer, the gradient *)
(* of its input and of each of its adapters has one term for every way the   *)
(* loss of this window depends on it, and no other; so has the head's.       *)
GradientTrue ==
  phase = "back" =>
    LET losses == {<<<<"ce", s, off + s + 1>>>> : s \in 1..WindowLen - 1}
        ways == [i \in at + 1..job.layers |-> Ways(Above(i))] IN
    /\ at = job.layers => \A s \in Rows : dx[s] = SetToBag({w \in losses : w[1][2] = s})
    /\ at < job.layers => \A s \in Rows :
         dx[s] = SetToBag({w \in Ending(ways[at + 1], "in") : Last(w)[2] = s})
    /\ \A i \in DOMAIN grads : i > at => \A s \in Slots :
         grads[i][s] = IF lo[i][s].r > 0 THEN SetToBag(Ending(ways[i], OutputOf(s))) ELSE EmptyBag
    /\ ghead = IF job.head THEN SetToBag(losses) ELSE EmptyBag

(* "LORA=<file> = warm start": what was trained comes back from the file.    *)
SavedTrue ==
  /\ phase # "lost"
  /\ phase = "off" /\ jobs > 0 =>
       LoadedLayers(disk, job.layers) = lo /\ LoadedSlot(disk, disk.lm) = lm
=============================================================================
