-------------------------------- MODULE Repin --------------------------------
(***************************************************************************)
(* The hot store of one layer of glm.c: which experts stay in memory       *)
(* (m->pin), adapted to the routing by repin_pass every g_repin emitted    *)
(* tokens (src/c/engines/glm.c).  The pass exchanges at most one expert of *)
(* a layer, and the candidates of other layers may crowd it out; then the  *)
(* heat of all experts halves.                                             *)
(***************************************************************************)
EXTENDS Tier

CONSTANTS E,           \* experts of the layer: 0 .. E-1
          Start,       \* residents after start-up
          K,           \* experts of a token
          Every,       \* g_repin > 0: tokens between two passes
          HeatMax,     \* the counter saturates (2^32 - 1)
          Tokens       \* bound: tokens of a run

Eids == 0 .. E - 1

RepinAssumption ==
    /\ E \in Nat \ {0} /\ Start \subseteq Eids /\ Start # {}
    /\ K \in 1 .. E /\ Every \in Nat \ {0}
    /\ HeatMax \in Nat /\ Tokens \in Nat

VARIABLES pin,            \* experts resident in the layer's hot store
          heat, last, clock,
          emitted, lastPass,   \* m->n_emit, g_last_repin
          since           \* history: accesses since an expert lost its slot

vars == <<pin, heat, last, clock, emitted, lastPass, since>>

Init == /\ pin = Start
        /\ heat = [e \in Eids |-> 0] /\ last = [e \in Eids |-> 0] /\ clock = 0
        /\ emitted = 0 /\ lastPass = 0
        /\ since = [e \in Eids |-> 0]

\* Mutant: the counter does not saturate.
AccessUnbounded(S) ==
    /\ heat' = [e \in Eids |-> IF e \in S THEN heat[e] + 1 ELSE heat[e]]
    /\ \E o \in [S -> 1 .. Cardinality(S)] :
          /\ \A x, y \in S : o[x] = o[y] => x = y
          /\ last' = [e \in Eids |-> IF e \in S THEN (clock + o[e]) % TickMod ELSE last[e]]
    /\ clock' = (clock + Cardinality(S)) % TickMod

\* A token is routed to the experts of S: the counters of each go up, in
\* some order (++eaccess_clock).
Access(S) ==
    /\ heat' = [e \in Eids |-> IF e \in S /\ heat[e] < HeatMax THEN heat[e] + 1
                                  ELSE heat[e]]
    /\ \E o \in [S -> 1 .. Cardinality(S)] :
          /\ \A x, y \in S : o[x] = o[y] => x = y
          /\ last' = [e \in Eids |-> IF e \in S THEN (clock + o[e]) % TickMod ELSE last[e]]
    /\ clock' = (clock + Cardinality(S)) % TickMod

Token == /\ emitted < Tokens
         /\ emitted - lastPass < Every      \* else the pass comes first
         /\ \E S \in SUBSET Eids :
               /\ Cardinality(S) = K
               /\ Access(S)
               /\ since' = [e \in Eids |-> IF e \in S THEN since[e] + 1 ELSE since[e]]
         /\ emitted' = emitted + 1
         /\ UNCHANGED <<pin, lastPass>>

Scores == [e \in Eids |-> LfruScore(heat[e], last[e], clock)]

Swap == \E p \in PickLfru(pin, Eids, Scores) :
           /\ pin' = (pin \ {p[1]}) \cup {p[2]}
           /\ since' = [since EXCEPT ![p[1]] = 0]

Pass == /\ emitted - lastPass >= Every
        /\ lastPass' = emitted
        /\ Swap \/ UNCHANGED <<pin, since>>
        /\ heat' = Decay(heat)
        /\ UNCHANGED <<last, clock, emitted>>

Finished == emitted = Tokens /\ emitted - lastPass < Every /\ UNCHANGED vars

Next == Token \/ Pass \/ Finished
Spec == Init /\ [][Next]_vars
-----------------------------------------------------------------------------
\* Every variable has its type.
TypeOK == /\ pin \subseteq Eids
          /\ heat \in [Eids -> 0 .. HeatMax]
          /\ last \in [Eids -> 0 .. TickMod - 1] /\ clock \in 0 .. TickMod - 1
          /\ 0 <= lastPass /\ lastPass <= emitted /\ emitted <= Tokens

(***************************************************************************)
(* The store keeps its size: an exchange never admits a resident expert.   *)
(***************************************************************************)
SameSize == Cardinality(pin) = Cardinality(Start)

(***************************************************************************)
(* "Prevents ping-pong" (tier.h): an expert that lost its slot is routed   *)
(* to at least four times before it comes back.                            *)
(***************************************************************************)
NoPingPong == [][ \A e \in pin' \ pin : e \in Start => since[e] >= 4 ]_vars

(***************************************************************************)
(* Who comes in has been routed to more often, after decay, than who goes. *)
(***************************************************************************)
HotterIn == [][ \A e \in pin' \ pin, x \in pin \ pin' : heat[e] > heat[x] + heat[x] \div 4 ]_vars
=============================================================================
