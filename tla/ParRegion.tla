------------------------------ MODULE ParRegion ------------------------------
(***************************************************************************)
(* What nn/par.h promises of one parallel loop, whatever backend runs it:  *)
(* "fn(ctx, i0, i1, tid) runs indices [i0, i1) ... a region ends when      *)
(* every index is done (implicit barrier)".  A region is opened with a     *)
(* number of indices, ranges of them run in any order, each index once,    *)
(* and it closes when none is left.  A region whose workers cannot be      *)
(* created is given up before any index has run.                           *)
(***************************************************************************)
EXTENDS Integers

CONSTANT MaxN      \* the largest number of indices of a region

VARIABLES open,    \* a call of moty_par_for is in progress
          size,    \* its number of indices
          runs     \* how often each index has run in it

vars == <<open, size, runs>>

Indices == 0 .. MaxN - 1

Init == /\ open = FALSE
        /\ size = 0
        /\ runs = [i \in Indices |-> 0]

Begin(n) == /\ ~open
            /\ open' = TRUE
            /\ size' = n
            /\ runs' = [i \in Indices |-> 0]

\* One call of fn: the indices [lo, hi), none of which has run before.
RunRange(lo, hi) ==
    /\ open
    /\ \A i \in lo .. hi - 1 : i < size /\ runs[i] = 0
    /\ runs' = [i \in Indices |-> IF i \in lo .. hi - 1 THEN 1 ELSE runs[i]]
    /\ UNCHANGED <<open, size>>

End == /\ open
       /\ \A i \in 0 .. size - 1 : runs[i] = 1
       /\ open' = FALSE
       /\ UNCHANGED <<size, runs>>

GiveUp == /\ open
          /\ \A i \in Indices : runs[i] = 0
          /\ open' = FALSE
          /\ size' = 0
          /\ UNCHANGED runs

Next == \/ \E n \in 1 .. MaxN : Begin(n)
        \/ \E lo, hi \in 0 .. MaxN : lo < hi /\ RunRange(lo, hi)
        \/ End
        \/ GiveUp

Spec == Init /\ [][Next]_vars
=============================================================================
