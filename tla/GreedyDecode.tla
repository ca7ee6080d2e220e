---------------------------- MODULE GreedyDecode ----------------------------
(* What glm.c promises of a decode without temperature, whatever it          *)
(* speculates: after the conversation so far, the next word said is the      *)
(* model's own choice for exactly that conversation, one after the other,    *)
(* never a stop token and never more than was asked for.                     *)
EXTENDS Integers, Sequences

CONSTANTS Vocab, Stops, Best(_)

VARIABLES said,       \* the conversation: what was asked and what was answered
          left,       \* how many more tokens the answer may have
          answering   \* between the question and the end of its answer

vars == <<said, left, answering>>

Init == said = <<>> /\ left = 0 /\ answering = FALSE

\* A new conversation, or more of the answer to the old one.
Ask == ~answering /\ answering' = TRUE /\ said' \in Seq(Vocab) /\ left' \in Nat
Continue == ~answering /\ answering' = TRUE /\ UNCHANGED said /\ left' \in Nat

Say ==
  /\ answering /\ left > 0 /\ Best(said) \notin Stops
  /\ said' = Append(said, Best(said)) /\ left' = left - 1
  /\ UNCHANGED answering

End == answering /\ answering' = FALSE /\ UNCHANGED <<said, left>>

Next == Ask \/ Continue \/ Say \/ End

Spec == Init /\ [][Next]_vars
=============================================================================
