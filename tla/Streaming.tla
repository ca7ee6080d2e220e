----------------------------- MODULE Streaming ------------------------------
(* Weight streaming under MEM_GB (src/c/runtime/rt_model_load.h): the first  *)
(* layers that fit the budget stay resident, the others are read again at    *)
(* every forward into one scratch, over the layer before.  Sizes are counts  *)
(* of f32 weights (QBITS=0).  step() of every engine streams;                *)
(* step_argmax_all of qwenmoe.c, the forward that verifies a draft, does not *)
EXTENDS Integers, Sequences, FiniteSets, FiniteSetsExt

CONSTANTS NL,        \* n_layers
          Shapes,    \* the sizes the matrices of a layer may have
          Budgets,   \* MEM_GB; 0 keeps every layer
          Fixed,     \* embedding, head, norms, KV cache
          Verified   \* the budgets under which drafts are verified (SPEC_K)

StreamingAssumption ==
  /\ NL \in Nat \ {0} /\ Shapes \subseteq Seq(Nat \ {0}) /\ Shapes # {}
  /\ Budgets \subseteq Nat /\ Fixed \in Nat /\ Verified \subseteq Budgets

Layers == 0..NL - 1
NotRead == -1     \* f of a matrix that was never read
Unread == <<>>    \* a cell of the scratch nobody wrote

VARIABLES
  shape,      \* layer_matrefs: the sizes of each layer's matrices
  budget,     \* budget_bytes
  resident,   \* n_resident
  scratch,    \* stream_buf: per cell, the layer and matrix it holds
  f,          \* per layer and matrix, where it points into the scratch
  forward     \* the forward that runs, its layer, the matrices read, off

vars == <<shape, budget, resident, scratch, f, forward>>

Mats(l)       == DOMAIN shape[l]
\* a running total: b += size, from the first
Sums(s)       == LET sum[j \in 0..Len(s)] == IF j = 0 THEN 0 ELSE sum[j - 1] + s[j] IN sum
Total(s)      == Sums(s)[Len(s)]
Bytes(l)      == Total(shape[l])                       \* layer_f32_bytes
BytesBelow(R) == Total([q \in 1..R |-> Bytes(q - 1)])  \* used += lb, over the layers below R
Largest(S)    == Max({Bytes(l) : l \in S} \cup {0})
Streamed(l)   == l >= resident
Room          == Cardinality(DOMAIN scratch)

-----------------------------------------------------------------------------
(* Loading: model_init_ex                                                    *)

FitsWithoutScratch(R) == Fixed + BytesBelow(R) <= budget
FitsResident(R) == Fixed + Largest(Layers) + BytesBelow(R) <= budget

\* budget_resident: layers are kept in order until one does not fit
Resident ==
  IF budget = 0 THEN NL
  ELSE Max({0} \cup {R \in 1..NL : \A q \in 1..R : FitsResident(q)})

ScratchSizeOneOff == Largest({l \in Layers : l > resident})
\* stream_scratch_alloc: the largest layer that is really streamed
ScratchSize == Largest({l \in Layers : Streamed(l)})

Idle == [kind |-> "idle", layer |-> 0, read |-> 0, off |-> 0]

Init ==
  /\ shape \in [Layers -> Shapes]
  /\ budget \in Budgets
  /\ resident = Resident
  /\ scratch = [c \in 0..ScratchSize - 1 |-> Unread]
  /\ f = [l \in Layers |-> [j \in Mats(l) |-> NotRead]]
  /\ forward = Idle

-----------------------------------------------------------------------------
(* A forward: each layer is read into the scratch, then computed             *)

\* the forwards that call layer_stream_in
Streams(kind) == kind = "step"

Begin(kind) ==
  /\ forward = Idle
  /\ forward' = [Idle EXCEPT !.kind = kind]
  /\ UNCHANGED <<shape, budget, resident, scratch, f>>

Step == Begin("step")
StepArgmaxAll ==       \* after the prefill, itself a step
  /\ budget \in Verified
  /\ \A l \in Layers : Streamed(l) => \A j \in Mats(l) : f[l][j] # NotRead
  /\ Begin("verify")

ToRead == /\ forward.kind # "idle"
          /\ Streams(forward.kind) /\ Streamed(forward.layer)
          /\ forward.read < Len(shape[forward.layer])

NotAdvanced(l, j, off) == off
Advanced(l, j, off) == off + shape[l][j]

\* layer_stream_in, one matrix of it
LayerStreamIn ==
  LET l == forward.layer  j == forward.read + 1  off == forward.off IN
  /\ ToRead
  /\ scratch' = [c \in DOMAIN scratch |->
                   IF c \in off..off + shape[l][j] - 1 THEN <<l, j>> ELSE scratch[c]]
  /\ f' = [f EXCEPT ![l][j] = off]
  /\ forward' = [forward EXCEPT !.read = j, !.off = Advanced(l, j, off)]
  /\ UNCHANGED <<shape, budget, resident>>

LastLayerPassed == forward.layer = NL
LastLayer == forward.layer = NL - 1

\* the kernels of the layer, over its matrices wherever they point
Compute ==
  /\ forward.kind # "idle" /\ ~ToRead
  /\ forward' = IF LastLayer THEN Idle
                ELSE [Idle EXCEPT !.kind = forward.kind, !.layer = forward.layer + 1]
  /\ UNCHANGED <<shape, budget, resident, scratch, f>>

Next == Step \/ StepArgmaxAll \/ LayerStreamIn \/ Compute
Spec == Init /\ [][Next]_vars

-----------------------------------------------------------------------------
\* the state of the streamer is well formed
TypeOK ==
  /\ shape \in [Layers -> Shapes] /\ budget \in Budgets /\ resident \in 0..NL
  /\ \A c \in DOMAIN scratch : scratch[c] = Unread
        \/ scratch[c] \in UNION {{l} \X Mats(l) : l \in Layers}
  /\ \A l \in Layers : f[l] \in [Mats(l) -> -1..Room]
  /\ forward.kind \in {"idle", "step", "verify"} /\ forward.layer \in Layers

Cells(l, j) == f[l][j]..f[l][j] + shape[l][j] - 1

\* a layer is computed over its own weights: whatever forward runs, each
\* matrix of a streamed layer points at cells that hold that matrix, though
\* every streamed layer is read over the one before (layer_stream_in before
\* the kernels in step; step_batch_logits "come step", qwenmoe.c:570)
UsesOwn ==
  forward.kind # "idle" /\ ~ToRead /\ Streamed(forward.layer) =>
    \A j \in Mats(forward.layer) :
      /\ f[forward.layer][j] # NotRead
      /\ \A c \in Cells(forward.layer, j) :
           c \in DOMAIN scratch /\ scratch[c] = <<forward.layer, j>>

\* no matrix is read past the end of the scratch, which is sized by the
\* layers left out of the budget and not by the largest layer of the model
InScratch == \A l \in Layers : \A j \in Mats(l) :
               f[l][j] # NotRead => Cells(l, j) \subseteq DOMAIN scratch

\* what stays in memory is what MEM_GB allows, the scratch included, once the
\* budget holds more than the part that cannot be streamed
WithinMemory ==
  budget > 0 /\ Fixed + Largest(Layers) <= budget =>
    Fixed + BytesBelow(resident) + Room <= budget
=============================================================================
