------------------------------- MODULE PtrSet -------------------------------
(* What the tracker and the big-block registry of src/c/nn/alloc.c promise:  *)
(* a set of the blocks that are owned.  Removing says whether the block was  *)
(* in it, and releasing everything visits each owned block once.             *)
EXTENDS FiniteSets

CONSTANT Pointers

VARIABLES owned,   \* the blocks that are owned
          answer   \* what the last call returned: found, or the blocks visited

Init == owned = {} /\ answer = <<"add", {}>>

Add(p) == p \notin owned /\ owned' = owned \cup {p} /\ answer' = <<"add", {}>>
Delete(p) == owned' = owned \ {p} /\ answer' = <<"delete", p, owned \cap {p}>>
Merge(S) == S \cap owned = {} /\ owned' = owned \cup S /\ answer' = <<"add", {}>>
FreeAll == owned' = {} /\ answer' = <<"free_all", owned>>

Next == \/ \E p \in Pointers : Add(p) \/ Delete(p)
        \/ \E S \in SUBSET Pointers : Merge(S)
        \/ FreeAll
Spec == Init /\ [][Next]_<<owned, answer>>
=============================================================================
