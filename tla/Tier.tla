--------------------------------- MODULE Tier ---------------------------------
(***************************************************************************)
(* Which expert is worth its memory (src/c/io/tier.c): the LFRU score and  *)
(* the choice of a resident to replace.  heat counts accesses, last is the *)
(* tick of the latest one.  Ticks are unsigned 32-bit (TickMod of them).   *)
(***************************************************************************)
EXTENDS Integers, FiniteSets

CONSTANT TickMod            \* 2^32; smaller values make ticks wrap in a run

TierAssumption == TickMod \in Nat \ {0}

\* Frequency counts 256 points, the recency of one access at most 255.
LfruScore(heat, last, clock) ==
    LET age == (clock - last) % TickMod
    IN  256 * heat + (IF age < 255 THEN 255 - age ELSE 0)

\* Mutants: no fixed margin; no margin at all.
HysteresisQuarter(score) == score + score \div 4
HysteresisNone(score)    == score

\* The margin a newcomer must beat a resident by.
Hysteresis(score) == score + score \div 4 + 1024

Coldest(S, score) == {e \in S : \A x \in S : score[e] <= score[x]}
Hottest(S, score) == {e \in S : \A x \in S : score[e] >= score[x]}

\* Mutant: residents are candidates too.
PickAny(residents, experts, score) ==
    {p \in Coldest(residents, score) \X Hottest(experts, score) :
        score[p[2]] > Hysteresis(score[p[1]])}

(***************************************************************************)
(* pick_lfru: the swaps <<resident, newcomer>> it may propose (the order   *)
(* of slots and ids only breaks ties); none when the margin is not beaten. *)
(***************************************************************************)
PickLfru(residents, experts, score) ==
    {p \in Coldest(residents, score) \X Hottest(experts \ residents, score) :
        score[p[2]] > Hysteresis(score[p[1]])}

Decay(heat) == [e \in DOMAIN heat |-> heat[e] \div 2]
=============================================================================
