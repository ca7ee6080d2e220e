---------------------------- MODULE Conversation -----------------------------
(***************************************************************************)
(* What moty.h promises of one handle: calls of moty_generate continue one *)
(* conversation.  A call appends its prompt and then tokens, each of which *)
(* is the model's own continuation of everything before it (greedy) or     *)
(* some token (sampled); a call that is aborted or fails leaves an empty   *)
(* conversation.  How the tokens are computed - one at a time, or several  *)
(* verified in one forward - does not show.                                *)
(***************************************************************************)
EXTENDS Integers, Sequences

CONSTANTS Tokens,      \* the vocabulary
          Prompts,     \* the prompts of calls: sequences of tokens
          Weights,     \* the models
          LM(_, _)     \* LM(w, s): the token model w predicts after s

VARIABLES weights,     \* the model of this handle
          conv,        \* the conversation
          busy,        \* a call of moty_generate is in progress
          greedy       \* its temperature is 0

vars == <<weights, conv, busy, greedy>>

Init == /\ weights \in Weights
        /\ conv = <<>>
        /\ busy = FALSE
        /\ greedy = TRUE

Begin == /\ ~busy
         /\ busy' = TRUE
         /\ greedy' \in BOOLEAN
         /\ \E p \in Prompts : conv' = conv \o p
         /\ UNCHANGED weights

Produce == /\ busy
           /\ \E t \in IF greedy THEN {LM(weights, conv)} ELSE Tokens :
                 conv' = Append(conv, t)
           /\ UNCHANGED <<weights, busy, greedy>>

End == /\ busy
       /\ busy' = FALSE
       /\ UNCHANGED <<weights, conv, greedy>>

Forget == /\ busy' = FALSE
          /\ conv' = <<>>
          /\ UNCHANGED <<weights, greedy>>

Next == Begin \/ Produce \/ End \/ Forget

Spec == Init /\ [][Next]_vars
=============================================================================
