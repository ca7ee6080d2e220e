------------------------------- MODULE MCTurns -------------------------------
(* Two models of three tokens.  GlmChoice looks at the last token, at the    *)
(* length and at the first; token 2 stops what begins with a 1.  GramChoice  *)
(* repeats a token for a while, then another, and stops what begins with a 1 *)
(* at the sixth place.  The files of the forward pass: every kind of layer,  *)
(* with what changes the way its matrices are applied; for glm, the head     *)
(* alone and with other drafts, several conversations, and no indexer.  The  *)
(* trainings: all layers or some, with and without the head, windows that    *)
(* overlap and that leave gaps, begun anew or from a file, and refused.      *)
EXTENDS Turns

GlmChoice(c) ==
  IF c = <<>> THEN 0
  ELSE IF c[1] = 1 /\ Len(c) >= 5 THEN 2 ELSE (c[Len(c)] + Len(c) \div 2) % 2

GramChoice(c) ==
  IF c[1] = 1 /\ Len(c) = 6 THEN 2
  ELSE IF Len(c) % 4 < 3 THEN c[Len(c)] % 2 ELSE (c[Len(c)] + 1) % 2

Model(e, c, types, every, shared, with) ==
  [engine |-> e, client |-> c, layers |-> IF types = <<>> THEN 3 ELSE Len(types),
   types |-> types, every |-> every, shared |-> shared, with |-> with]
FullFull == <<"full", "full">>
TheFiles ==
  {Model("qwen", "library", FullFull, 1, 0, with) :
     with \in {{}, {"lora_q", "r4"}, {"lora_gate", "r4"}, {"lm_lora", "shortlist"},
               {"shortlist", "r4", "streamed"}, {"micro"}}}
  \cup {Model("qwen", "library", <<"linear", "full">>, 1, 0, with) :
          with \in {{}, {"gated", "r4"}}}
  \cup {Model("qwen", "turn", <<>>, 2, 0, {"tta"}),
        Model("lfm2", "library", <<"conv", "full">>, 1, 0, {"r4"}),
        Model("gemma", "turn", <<"sliding", "full", "sliding", "full">>, 1, 2, {"v_proj"}),
        Model("gemma", "turn", <<"sliding", "full", "sliding">>, 1, 2, {}),
        Model("gemma", "turn", <<>>, 2, 1, {}),
        Model("qwenmoe", "turn", <<"linear", "full">>, 1, 0, {}),
        Model("olmoe", "turn", FullFull, 1, 0, {})}

GlmModel(types, indexer, mtp, plain, slots) ==
  [layers |-> 3, types |-> types, freq |-> 2, off |-> 1, indexer |-> indexer,
   mtp |-> mtp, plain |-> plain, slots |-> slots]
TheModels ==
  {GlmModel(<<"full", "shared", "full">>, {1, 3}, TRUE, TRUE, 1),
   GlmModel(<<>>, {1, 3}, TRUE, FALSE, 1),
   GlmModel(<<>>, {1, 3}, FALSE, FALSE, 2),
   GlmModel(<<>>, {1}, FALSE, FALSE, 1)}

Job(n, want, head, ctx, stride, epochs, tokens, chunk, warm, plain) ==
  [layers |-> n, want |-> want, head |-> head, ctx |-> ctx, stride |-> stride, epochs |-> epochs,
   tokens |-> tokens, chunk |-> chunk, rank |-> 2, alpha |-> 3, warm |-> warm, plain |-> plain]
TheJobs ==
  {Job(2, 2, TRUE, 3, 3, 2, 5, 1, FALSE, TRUE),
   Job(2, 1, FALSE, 3, 1, 1, 5, 2, FALSE, TRUE),
   Job(2, 3, FALSE, 3, 2, 2, 5, 0, TRUE, TRUE),
   Job(2, 2, TRUE, 2, 3, 1, 5, 3, TRUE, TRUE),
   Job(2, 0, TRUE, 3, 2, 1, 4, 2, FALSE, TRUE),
   Job(2, 2, TRUE, 3, 2, 1, 1, 2, FALSE, TRUE),
   Job(2, 2, TRUE, 3, 2, 1, 5, 2, FALSE, FALSE)}
Rank(r) == [r |-> r, val |-> <<>>]
Matrices == {"q", "k", "v", "o", "gate", "up", "down"}
Adapters(scale, adapted, slots, r, head) ==
  [alpha |-> scale, lm |-> Rank(IF head THEN r ELSE 0),
   lo |-> [i \in adapted |-> [s \in Matrices |-> Rank(IF s \in slots THEN r ELSE 0)]]]
TheGiven == {Adapters(5, {1, 2}, {"q", "v"}, 1, FALSE), Adapters(0, {1, 2}, {"q", "down"}, 1, TRUE),
             Adapters(5, {1, 3}, {"q"}, 1, TRUE)}
=============================================================================
