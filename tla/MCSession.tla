------------------------------ MODULE MCSession ------------------------------
(***************************************************************************)
(* Session over models that look at the last two tokens; a stop token      *)
(* counts as 1.                                                            *)
(***************************************************************************)
EXTENDS Session

Vocab      == {1, 2, 3}
Last(s, i) == IF Len(s) <= i THEN 1 ELSE IF s[Len(s) - i] = 3 THEN 1 ELSE s[Len(s) - i]
Models     == {w \in [{1, 2} \X {1, 2} -> Vocab] :
                  w[<<1, 1>>] = 2 /\ w[<<2, 2>>] # 2 /\ w[<<2, 1>>] # 3}
TwoModels  == {w \in Models : w[<<1, 2>>] = 1 /\ w[<<2, 2>>] = 3}
Predict(w, s) == w[<<Last(s, 1), Last(s, 0)>>]
Asks       == {<<>>, <<2, 1>>}
Mixed      == [greedy : {TRUE}, draft : {<<>>, <<1, 2, 1, 2, 3>>}]
                \cup [greedy : {FALSE}, draft : {<<2, 1, 1>>}]
=============================================================================
