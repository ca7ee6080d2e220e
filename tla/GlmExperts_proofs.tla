-------------------------- MODULE GlmExperts_proofs --------------------------
(* Proofs about GlmExperts: the four mechanisms of glm.c that bring experts  *)
(* into memory, for any number of threads, slabs, layers, slots, experts,    *)
(* batches and tokens.                                                       *)
EXTENDS GlmExperts, FiniteSetTheorems, SequenceTheorems, TLAPS

\* The instances name the operators of the standard modules anew.
LEMMA Cardinalities ==
    ASSUME NEW S
    PROVE  /\ Store!Cardinality(S) = Cardinality(S) /\ Ahead!Cardinality(S) = Cardinality(S)
           /\ Ahead!IsFiniteSet(S) <=> IsFiniteSet(S)
<1>1. Store!Cardinality(S) = Cardinality(S)
  BY DEF Store!Cardinality, Cardinality
<1>2. Ahead!Cardinality(S) = Cardinality(S)
  BY DEF Ahead!Cardinality, Cardinality
<1>3. Ahead!IsFiniteSet(S) <=> IsFiniteSet(S)
  BY DEF Ahead!IsFiniteSet, IsFiniteSet
<1>. QED
  BY <1>1, <1>2, <1>3

-----------------------------------------------------------------------------
(* The exchange of resident experts (REPIN).                                 *)

\* A score is the heat, 256 points each, and less than one access for recency.
LEMMA ScoreIs ==
    ASSUME NEW h \in Nat, NEW l \in Int, NEW c \in Int, TickMod \in Nat \ {0}
    PROVE  /\ Store!LfruScore(h, l, c) \in Nat
           /\ 256 * h <= Store!LfruScore(h, l, c) /\ Store!LfruScore(h, l, c) <= 256 * h + 255
<1>. DEFINE age == (c - l) % TickMod
<1>1. age \in Nat
  <2>1. c - l \in Int
    OBVIOUS
  <2>. QED
    BY <2>1
<1>2. Store!LfruScore(h, l, c) = 256 * h + (IF age < 255 THEN 255 - age ELSE 0)
  BY DEF Store!LfruScore
<1>. HIDE DEF age
<1>3. CASE age < 255
  BY <1>1, <1>2, <1>3
<1>4. CASE ~(age < 255)
  BY <1>1, <1>2, <1>4
<1>. QED
  BY <1>3, <1>4

\* Who beats the margin has been routed to more often than who goes, by a quarter
\* and by more than three accesses; who is not colder has not been less often.
LEMMA MarginIs ==
    ASSUME NEW a \in Nat, NEW b \in Nat, NEW x \in Nat, NEW y \in Nat,
           256 * a <= x, x <= 256 * a + 255, 256 * b <= y, y <= 256 * b + 255
    PROVE  /\ y > Store!Hysteresis(x) => b > a + a \div 4 /\ b >= a + 4
           /\ x <= y => a <= b
<1>1. ASSUME y > Store!Hysteresis(x) PROVE b > a + a \div 4 /\ b >= a + 4
  <2>. DEFINE q == x \div 4
              r == a \div 4
  <2>1. /\ q \in Nat /\ x < 4 * q + 4 /\ 4 * q <= x
        /\ r \in Nat /\ 4 * r <= a /\ a < 4 * r + 4
    OBVIOUS
  <2>2. y > x + q + 1024
    BY <1>1 DEF Store!Hysteresis
  <2>. HIDE DEF q, r
  <2>3. b > a + r /\ b >= a + 4
    BY <2>1, <2>2
  <2>. QED
    BY <2>3 DEF r
<1>2. ASSUME x <= y PROVE a <= b
  BY <1>2
<1>. QED
  BY <1>1, <1>2

StoreTypes ==
  /\ pin \subseteq Store!Eids
  /\ heat \in [Store!Eids -> 0..HeatMax] /\ since \in [Store!Eids -> Nat]
  /\ last \in [Store!Eids -> 0..TickMod - 1] /\ clock \in 0..TickMod - 1
  /\ emitted \in 0..Tokens /\ lastPass \in 0..emitted

\* Who has lost its slot is not hotter than anyone resident but for the accesses
\* since then; a decay halves both sides.
Cooler == \A e \in Start \ pin, x \in pin : heat[e] <= heat[x] + since[e]

StoreInv == StoreTypes /\ Store!SameSize /\ Cooler

StoreAssumption == Store!RepinAssumption /\ TickMod \in Nat \ {0}

LEMMA StoreInit == ASSUME StoreAssumption, Store!Init PROVE StoreInv
<1>1. /\ E \in Nat \ {0} /\ Start \subseteq Store!Eids /\ HeatMax \in Nat /\ Tokens \in Nat
      /\ TickMod \in Nat \ {0}
  BY DEF StoreAssumption, Store!RepinAssumption
<1>2. /\ pin = Start /\ emitted = 0 /\ lastPass = 0 /\ clock = 0
      /\ heat = [e \in Store!Eids |-> 0] /\ last = [e \in Store!Eids |-> 0]
      /\ since = [e \in Store!Eids |-> 0]
  BY DEF Store!Init
<1>. QED
  BY <1>1, <1>2 DEF StoreInv, StoreTypes, Store!SameSize, Cooler

\* The two of an exchange: a coldest resident and a newcomer beyond the margin.
LEMMA SwapIs ==
    ASSUME StoreAssumption, StoreInv, NEW p, p \in Store!PickLfru(pin, Store!Eids, Store!Scores)
    PROVE  /\ p[1] \in pin /\ p[2] \in Store!Eids \ pin
           /\ heat[p[2]] > heat[p[1]] + heat[p[1]] \div 4 /\ heat[p[2]] >= heat[p[1]] + 4
           /\ \A x \in pin : heat[p[1]] <= heat[x]
<1>. DEFINE old == p[1]
            new == p[2]
            sc(e) == Store!LfruScore(heat[e], last[e], clock)
<1>1. /\ pin \subseteq Store!Eids /\ TickMod \in Nat \ {0}
      /\ \A e \in Store!Eids : /\ heat[e] \in Nat /\ last[e] \in Int
                               /\ Store!Scores[e] = sc(e)
      /\ clock \in Int
  BY DEF StoreInv, StoreTypes, StoreAssumption, Store!RepinAssumption, Store!Scores
<1>2. /\ p \in Store!Coldest(pin, Store!Scores)
                 \X Store!Hottest(Store!Eids \ pin, Store!Scores)
      /\ Store!Scores[new] > Store!Hysteresis(Store!Scores[old])
  BY DEF Store!PickLfru
<1>3. /\ old \in pin /\ \A x \in pin : Store!Scores[old] <= Store!Scores[x]
      /\ new \in Store!Eids \ pin
  BY <1>2 DEF Store!Coldest, Store!Hottest
<1>4. \A e \in Store!Eids : /\ sc(e) \in Nat /\ 256 * heat[e] <= sc(e)
                            /\ sc(e) <= 256 * heat[e] + 255
  BY <1>1, ScoreIs, ZenonT(60)
<1>. HIDE DEF old, new, sc
<1>5. heat[new] > heat[old] + heat[old] \div 4 /\ heat[new] >= heat[old] + 4
  <2>1. sc(new) > Store!Hysteresis(sc(old)) /\ old \in Store!Eids /\ new \in Store!Eids
    BY <1>1, <1>2, <1>3
  <2>. DEFINE a == heat[old]
              b == heat[new]
              x == sc(old)
              y == sc(new)
  <2>2. /\ a \in Nat /\ b \in Nat /\ x \in Nat /\ y \in Nat /\ 256 * a <= x /\ x <= 256 * a + 255
        /\ 256 * b <= y /\ y <= 256 * b + 255 /\ y > Store!Hysteresis(x)
    BY <1>1, <1>4, <2>1
  <2>. HIDE DEF a, b, x, y
  <2>3. b > a + a \div 4 /\ b >= a + 4
    BY <2>2, MarginIs
  <2>. QED
    BY <2>3 DEF a, b
<1>6. ASSUME NEW e \in pin PROVE heat[old] <= heat[e]
  <2>1. sc(old) <= sc(e) /\ old \in Store!Eids /\ e \in Store!Eids
    BY <1>1, <1>3
  <2>. DEFINE a == heat[old]
              b == heat[e]
              x == sc(old)
              y == sc(e)
  <2>2. /\ a \in Nat /\ b \in Nat /\ x \in Nat /\ y \in Nat /\ 256 * a <= x /\ x <= 256 * a + 255
        /\ 256 * b <= y /\ y <= 256 * b + 255 /\ x <= y
    BY <1>1, <1>4, <2>1
  <2>. HIDE DEF a, b, x, y
  <2>3. a <= b
    BY <2>2, MarginIs
  <2>. QED
    BY <2>3 DEF a, b
<1>. QED
  BY <1>3, <1>5, <1>6 DEF old, new

LEMMA TokenStep == ASSUME StoreAssumption, StoreInv, Store!Token PROVE StoreInv'
<1>1. PICK S \in SUBSET Store!Eids :
        /\ Store!Cardinality(S) = K /\ Store!Access(S)
        /\ since' = [e \in Store!Eids |-> IF e \in S THEN since[e] + 1 ELSE since[e]]
  BY DEF Store!Token
<1>2. /\ emitted < Tokens /\ emitted' = emitted + 1 /\ UNCHANGED <<pin, lastPass>>
  BY DEF Store!Token
<1>3. PICK o \in [S -> 1..Store!Cardinality(S)] :
        last' = [e \in Store!Eids |-> IF e \in S THEN (clock + o[e]) % TickMod ELSE last[e]]
  BY <1>1 DEF Store!Access
<1>4. /\ heat' = [e \in Store!Eids |-> IF e \in S /\ heat[e] < HeatMax THEN heat[e] + 1
                                       ELSE heat[e]]
      /\ clock' = (clock + K) % TickMod
  BY <1>1 DEF Store!Access
<1>5. /\ K \in Nat /\ TickMod \in Nat \ {0} /\ Tokens \in Nat /\ HeatMax \in Nat
      /\ Start \subseteq Store!Eids
  <2>1. E \in Nat /\ K \in 1..E
    BY DEF StoreAssumption, Store!RepinAssumption
  <2>. QED
    BY <2>1 DEF StoreAssumption, Store!RepinAssumption
<1>6. \A n \in Int : n % TickMod \in 0..TickMod - 1
  BY <1>5
<1>7. /\ heat' \in [Store!Eids -> 0..HeatMax] /\ since' \in [Store!Eids -> Nat]
  <2>1. \A e \in Store!Eids : heat[e] \in 0..HeatMax /\ since[e] \in Nat
    BY DEF StoreInv, StoreTypes
  <2>2. \A e \in Store!Eids : heat'[e] \in 0..HeatMax /\ since'[e] \in Nat
    BY <1>1, <1>4, <1>5, <2>1
  <2>. QED
    BY <1>1, <1>4, <2>2
<1>8. last' \in [Store!Eids -> 0..TickMod - 1] /\ clock' \in 0..TickMod - 1
  <2>1. ASSUME NEW e \in Store!Eids PROVE last'[e] \in 0..TickMod - 1
    <3>1. CASE e \in S
      <4>1. o[e] \in Int /\ clock \in Int
        BY <1>1, <1>3, <1>5, <3>1 DEF StoreInv, StoreTypes
      <4>2. clock + o[e] \in Int
        BY <4>1
      <4>. QED
        BY <1>3, <1>6, <3>1, <4>2
    <3>2. CASE e \notin S
      BY <1>3, <3>2 DEF StoreInv, StoreTypes
    <3>. QED
      BY <3>1, <3>2
  <2>2. clock + K \in Int
    BY <1>5 DEF StoreInv, StoreTypes
  <2>. QED
    BY <1>3, <1>4, <1>6, <2>1, <2>2
<1>9. StoreTypes' /\ Store!SameSize'
  <2>1. emitted' \in 0..Tokens /\ lastPass' \in 0..emitted'
    BY <1>2, <1>5 DEF StoreInv, StoreTypes
  <2>. QED
    BY <1>2, <1>7, <1>8, <2>1 DEF StoreInv, StoreTypes, Store!SameSize
<1>10. ASSUME NEW e \in Start \ pin, NEW x \in pin PROVE heat'[e] <= heat'[x] + since'[e]
  <2>1. /\ e \in Store!Eids /\ x \in Store!Eids
        /\ heat[e] \in 0..HeatMax /\ heat[x] \in 0..HeatMax /\ since[e] \in Nat
        /\ heat[e] <= heat[x] + since[e]
    BY <1>5 DEF StoreInv, StoreTypes, Cooler
  <2>2. heat'[x] >= heat[x]
    BY <1>4, <1>5, <2>1
  <2>3. CASE e \in S
    <3>1. since'[e] = since[e] + 1 /\ heat'[e] <= heat[e] + 1
      BY <1>1, <1>4, <1>5, <2>1, <2>3
    <3>. QED
      BY <1>7, <2>1, <2>2, <3>1
  <2>4. CASE e \notin S
    <3>1. since'[e] = since[e] /\ heat'[e] = heat[e]
      BY <1>1, <1>4, <2>1, <2>4
    <3>. QED
      BY <1>7, <2>1, <2>2, <3>1
  <2>. QED
    BY <2>3, <2>4
<1>. QED
  BY <1>2, <1>9, <1>10 DEF StoreInv, Cooler

LEMMA ExchangeKeepsSize ==
    ASSUME NEW n \in Nat, NEW S \in SUBSET 0..n, NEW a \in S, NEW b, b \notin S
    PROVE  Cardinality((S \ {a}) \cup {b}) = Cardinality(S)
<1>1. IsFiniteSet(S)
  <2>1. IsFiniteSet(0..n)
    BY FS_Interval
  <2>. QED
    BY <2>1, FS_Subset
<1>. DEFINE T == S \ {a}
<1>2. IsFiniteSet(T) /\ Cardinality(T) = Cardinality(S) - 1 /\ Cardinality(S) \in Nat
  BY <1>1, FS_RemoveElement, FS_CardinalityType
<1>3. b \notin T
  OBVIOUS
<1>. HIDE DEF T
<1>4. Cardinality(T \cup {b}) = Cardinality(T) + 1
  BY <1>2, <1>3, FS_AddElement
<1>5. Cardinality(T \cup {b}) = Cardinality(S)
  BY <1>2, <1>4
<1>. QED
  BY <1>5 DEF T

\* repin_pass, and what it may exchange.
LEMMA PassStep ==
    ASSUME StoreAssumption, StoreInv, Store!Pass
    PROVE  /\ StoreInv'
           /\ \A e \in pin' \ pin : e \in Start => since[e] >= 4
           /\ \A e \in pin' \ pin, x \in pin \ pin' : heat[e] > heat[x] + heat[x] \div 4
<1>1. /\ emitted - lastPass >= Every /\ lastPass' = emitted /\ UNCHANGED <<last, clock, emitted>>
      /\ Store!Swap \/ UNCHANGED <<pin, since>>
      /\ heat' = [e \in Store!Eids |-> heat[e] \div 2]
  BY DEF Store!Pass, Store!Decay, StoreInv, StoreTypes
<1>2. /\ pin \subseteq Store!Eids /\ Start \subseteq Store!Eids /\ emitted \in 0..Tokens
      /\ since \in [Store!Eids -> Nat] /\ HeatMax \in Nat /\ Tokens \in Nat
      /\ \A e \in Store!Eids : heat[e] \in 0..HeatMax /\ heat[e] \in Nat
  <2>1. HeatMax \in Nat /\ Tokens \in Nat /\ Start \subseteq Store!Eids
    BY DEF StoreAssumption, Store!RepinAssumption
  <2>. QED
    BY <2>1 DEF StoreInv, StoreTypes
<1>3. heat' \in [Store!Eids -> 0..HeatMax]
  BY <1>1, <1>2
\* The heat decays on both sides of Cooler.
<1>4. ASSUME NEW e \in Store!Eids, NEW x \in Store!Eids, NEW n \in Nat, heat[e] <= heat[x] + n
      PROVE  heat'[e] <= heat'[x] + n
  <2>. DEFINE a == heat[e]
              b == heat[x]
  <2>1. a \in Nat /\ b \in Nat /\ a <= b + n
    BY <1>2, <1>4
  <2>. HIDE DEF a, b
  <2>2. a \div 2 <= (b \div 2) + n
    BY <2>1
  <2>. QED
    BY <1>1, <2>2 DEF a, b
<1>5. CASE UNCHANGED <<pin, since>>
  <2>1. Cooler'
    <3>1. ASSUME NEW e \in Start \ pin, NEW x \in pin PROVE heat'[e] <= heat'[x] + since[e]
      <4>1. e \in Store!Eids /\ x \in Store!Eids /\ since[e] \in Nat
        BY <1>2
      <4>. QED
        BY <1>4, <4>1 DEF StoreInv, Cooler
    <3>. QED
      BY <1>5, <3>1 DEF Cooler
  <2>2. StoreTypes' /\ Store!SameSize'
    BY <1>1, <1>2, <1>3, <1>5 DEF StoreInv, StoreTypes, Store!SameSize
  <2>. QED
    BY <1>5, <2>1, <2>2 DEF StoreInv
<1>6. CASE Store!Swap
  <2>1. PICK p \in Store!PickLfru(pin, Store!Eids, Store!Scores) :
          /\ pin' = (pin \ {p[1]}) \cup {p[2]}
          /\ since' = [since EXCEPT ![p[1]] = 0]
    BY <1>6 DEF Store!Swap
  <2>. DEFINE old == p[1]
              new == p[2]
  <2>2. /\ old \in pin /\ new \in Store!Eids \ pin
        /\ heat[new] > heat[old] + heat[old] \div 4 /\ heat[new] >= heat[old] + 4
        /\ \A x \in pin : heat[old] <= heat[x]
    BY SwapIs
  <2>3. /\ pin' = (pin \ {old}) \cup {new}
        /\ \A e \in Store!Eids : since'[e] = IF e = old THEN 0 ELSE since[e]
        /\ since' \in [Store!Eids -> Nat]
    BY <1>2, <2>1
  <2>. HIDE DEF old, new
  <2>4. old \in Store!Eids /\ new # old /\ heat[old] \in Nat /\ heat[new] \in Nat
    BY <1>2, <2>2
  <2>5. Store!SameSize'
    <3>1. PICK n \in Nat : Store!Eids = 0..n
      <4>1. E \in Nat \ {0}
        BY DEF StoreAssumption, Store!RepinAssumption
      <4>2. E - 1 \in Nat /\ Store!Eids = 0..E - 1
        BY <4>1 DEF Store!Eids
      <4>. QED
        BY <4>2
    <3>2. Cardinality((pin \ {old}) \cup {new}) = Cardinality(pin)
      BY <1>2, <2>2, <3>1, ExchangeKeepsSize
    <3>. QED
      BY <2>3, <3>2, Cardinalities DEF StoreInv, Store!SameSize
  <2>6. ASSUME NEW e \in Start \ pin', NEW x \in pin' PROVE heat'[e] <= heat'[x] + since'[e]
    <3>1. /\ e \in Store!Eids /\ x \in Store!Eids /\ since'[e] \in Nat
          /\ heat[e] \in Nat /\ heat[x] \in Nat
      BY <1>2, <2>2, <2>3
    <3>2. heat[e] <= heat[x] + since'[e]
      <4>1. heat[x] >= heat[old]
        <5>1. CASE x = new
          BY <2>2, <2>4, <5>1
        <5>2. CASE x # new
          BY <2>2, <2>3, <5>2
        <5>. QED
          BY <5>1, <5>2
      <4>2. CASE e = old
        BY <2>3, <3>1, <4>1, <4>2
      <4>3. CASE e # old
        <5>1. e \in Start \ pin /\ since'[e] = since[e] /\ since[e] \in Nat
          BY <1>2, <2>3, <3>1, <4>3
        <5>2. heat[e] <= heat[old] + since[e]
          BY <2>2, <5>1 DEF StoreInv, Cooler
        <5>. QED
          BY <2>4, <3>1, <4>1, <5>1, <5>2
      <4>. QED
        BY <4>2, <4>3
    <3>. QED
      BY <1>4, <3>1, <3>2
  <2>7. StoreTypes'
    BY <1>1, <1>2, <1>3, <2>2, <2>3 DEF StoreInv, StoreTypes
  <2>8. ASSUME NEW e \in pin' \ pin
        PROVE  /\ e \in Start => since[e] >= 4
               /\ \A x \in pin \ pin' : heat[e] > heat[x] + heat[x] \div 4
    <3>1. e = new
      BY <2>3
    <3>2. e \in Start => heat[new] <= heat[old] + since[new]
      BY <2>2, <3>1 DEF StoreInv, Cooler
    <3>3. since[new] \in Nat
      BY <1>2, <2>2
    <3>4. e \in Start => since[e] >= 4
      BY <2>2, <2>4, <3>1, <3>2, <3>3
    <3>5. \A x \in pin \ pin' : x = old
      BY <2>3
    <3>. QED
      BY <2>2, <3>1, <3>4, <3>5
  <2>. QED
    BY <2>5, <2>6, <2>7, <2>8 DEF StoreInv, Cooler
<1>. QED
  BY <1>1, <1>5, <1>6

LEMMA StoreNext ==
    ASSUME StoreAssumption, StoreInv, Store!Next \/ UNCHANGED storeVars
    PROVE  /\ StoreInv'
           /\ \A e \in pin' \ pin : e \in Start => since[e] >= 4
           /\ \A e \in pin' \ pin, x \in pin \ pin' : heat[e] > heat[x] + heat[x] \div 4
<1>1. CASE Store!Token
  BY <1>1, TokenStep DEF Store!Token
<1>2. CASE Store!Pass
  BY <1>2, PassStep
<1>3. CASE Store!Finished \/ UNCHANGED storeVars
  BY <1>3 DEF Store!Finished, Store!vars, storeVars, StoreInv, StoreTypes, Store!SameSize, Cooler
<1>. QED
  BY <1>1, <1>2, <1>3 DEF Store!Next

LEMMA StoreAlways == Spec => []StoreInv /\ [][Store!Next]_storeVars
<1>1. StoreAssumption
  BY GlmExpertsAssumption DEF StoreAssumption
<1>2. Init => StoreInv
  BY <1>1, StoreInit DEF Init
<1>3. [Next]_vars => [Store!Next]_storeVars
  BY DEF Next, PipeSteps, PilotSteps, UringSteps, RepinSteps, vars
<1>4. StoreInv /\ [Store!Next]_storeVars => StoreInv'
  BY <1>1, StoreNext
<1>. QED
  BY <1>2, <1>3, <1>4, PTL DEF Spec

\* An expert that lost its place in the hot store comes back only after four more
\* accesses, and who takes a place has been routed to more than a quarter oftener
\* than who gives it up (repin_pass, pick_lfru): for any experts, counters that
\* saturate and ticks that wrap.
THEOREM StoreDoesNotSwing == Spec => NoPingPong
<1>1. StoreAssumption
  BY GlmExpertsAssumption DEF StoreAssumption
<1>2. StoreInv /\ [Store!Next]_storeVars
        => /\ [\A e \in pin' \ pin : e \in Start => since[e] >= 4]_storeVars
           /\ [\A e \in pin' \ pin, x \in pin \ pin' :
                 heat[e] > heat[x] + heat[x] \div 4]_storeVars
  BY <1>1, StoreNext
<1>3. storeVars = Store!vars
  BY DEF storeVars, Store!vars
<1>4. NoPingPong <=>
        /\ [][\A e \in pin' \ pin : e \in Start => since[e] >= 4]_storeVars
        /\ [][\A e \in pin' \ pin, x \in pin \ pin' :
                 heat[e] > heat[x] + heat[x] \div 4]_storeVars
  BY <1>3, Zenon DEF NoPingPong, Store!NoPingPong, Store!HotterIn, storeVars, Store!vars
<1>. QED
  BY <1>2, <1>4, StoreAlways, PTL

-----------------------------------------------------------------------------
(* The pilot (PILOT_REAL).                                                   *)

\* A read in flight, from the reservation of its slot to its publication.
Reading == pilot.pc \in {"open", "read", "publish", "failed"}

Mains ==
  [pc : {"between", "predict", "enqueue", "barrier", "asleep", "use", "promote"},
   l : Ahead!Layers, guesses : Nat, guess : Ahead!Eids,
   hits : SUBSET Ahead!SlotIds, misses : SUBSET Experts, promo : Nat, forwards : Nat]

Pilots ==
  [pc : {"idle", "check", "open", "read", "publish", "failed"},
   l : Ahead!Layers, e : Ahead!Eids, z : Ahead!SlotIds, isnew : BOOLEAN]

PilotTypes ==
  /\ cache \in [Ahead!Layers -> [Ahead!SlotIds -> [eid : Ahead!Eids, data : Ahead!Eids]]]
  /\ ecn \in [Ahead!Layers -> 0..Cap] /\ curMoe \in Ahead!Layers \cup {-1}
  /\ inflight \in [Ahead!Layers -> 0..1]
  /\ queue \in Seq(Ahead!Layers \X Experts) /\ Len(queue) <= Ring
  /\ main \in Mains /\ pilot \in Pilots

\* Which layers the two threads are in: the lock and the barrier keep them apart.
Apart ==
  /\ \A l \in Ahead!Layers : inflight[l] = IF Reading /\ pilot.l = l THEN 1 ELSE 0
  /\ main.pc \in {"barrier", "asleep", "use", "promote"} => curMoe = main.l
  /\ main.pc \in {"use", "promote"} => inflight[main.l] = 0
  /\ main.pc = "enqueue" => main.l + 1 < NL /\ main.guess \in Experts
  /\ pilot.pc # "idle" => pilot.e \in Experts /\ queue # <<>>

\* The slot of the read in flight: in use or the next one, hidden until the read
\* is over, for an expert that is nowhere else in its layer.
InSlot ==
  /\ Reading => IF pilot.isnew THEN pilot.z = ecn[pilot.l] + 1 ELSE pilot.z \in Ahead!InUse(pilot.l)
  /\ pilot.pc \in {"open", "read", "failed"} => cache[pilot.l][pilot.z].eid = Ahead!None
  /\ pilot.pc \in {"open", "read"} => ~Ahead!Resident(pilot.l, pilot.e)
  /\ pilot.pc = "publish" =>
       /\ cache[pilot.l][pilot.z] = [eid |-> pilot.e, data |-> pilot.e]
       /\ \A y \in Ahead!InUse(pilot.l) : y # pilot.z => cache[pilot.l][y].eid # pilot.e

\* What the main thread has resolved: its hits are in its layer, its misses not.
Resolved ==
  /\ main.pc \in {"use", "promote"} => \A e \in main.misses : ~Ahead!Resident(main.l, e)
  /\ main.pc = "use" =>
       \A z \in main.hits : z \in Ahead!InUse(main.l) /\ cache[main.l][z].eid # Ahead!None

PilotInv == PilotTypes /\ Apart /\ InSlot /\ Resolved /\ Ahead!Truthful /\ Ahead!OneCopy

LEMMA LayersAre ==
    ASSUME Ahead!PilotAssumption
    PROVE  /\ NL \in Nat \ {0} /\ Cap \in Nat \ {0} /\ K \in Nat \ {0} /\ Ring \in Nat \ {0}
           /\ Experts \subseteq Nat /\ IsFiniteSet(Experts) /\ Forwards \in Nat
           /\ Ahead!Layers = 0..NL - 1 /\ Ahead!SlotIds = 1..Cap /\ Ahead!None = -1
           /\ Ahead!None \notin Experts /\ 0 \in Ahead!Layers /\ 1 \in Ahead!SlotIds
           /\ Ahead!Eids = Experts \cup {Ahead!None}
  BY Cardinalities DEF Ahead!PilotAssumption, Ahead!Layers, Ahead!SlotIds, Ahead!None, Ahead!Eids

LEMMA PilotInit == ASSUME Ahead!PilotAssumption, Ahead!Init PROVE PilotInv
<1>1. /\ cache = [l \in Ahead!Layers |-> [z \in Ahead!SlotIds |-> Ahead!Empty]]
      /\ ecn = [l \in Ahead!Layers |-> 0] /\ curMoe = -1
      /\ inflight = [l \in Ahead!Layers |-> 0] /\ queue = <<>>
      /\ main = [pc |-> "between", l |-> 0, guesses |-> 0, guess |-> Ahead!None,
                 hits |-> {}, misses |-> {}, promo |-> 0, forwards |-> 0]
      /\ pilot = [pc |-> "idle", l |-> 0, e |-> Ahead!None, z |-> 1, isnew |-> FALSE]
  BY DEF Ahead!Init
<1>2. main.pc = "between" /\ pilot.pc = "idle"
  BY <1>1
<1>3. Ahead!Empty \in [eid : Ahead!Eids, data : Ahead!Eids]
  BY LayersAre DEF Ahead!Empty
<1>4. PilotTypes
  <2>1. main \in Mains
    BY <1>1, LayersAre DEF Mains
  <2>2. pilot \in Pilots
    BY <1>1, LayersAre DEF Pilots
  <2>3. queue \in Seq(Ahead!Layers \X Experts) /\ Len(queue) <= Ring
    BY <1>1, LayersAre, EmptySeq
  <2>4. /\ ecn \in [Ahead!Layers -> 0..Cap] /\ curMoe \in Ahead!Layers \cup {-1}
        /\ inflight \in [Ahead!Layers -> 0..1]
    BY <1>1, LayersAre
  <2>. QED
    BY <1>1, <1>3, <2>1, <2>2, <2>3, <2>4 DEF PilotTypes
<1>5. \A l \in Ahead!Layers : Ahead!InUse(l) = {}
  BY <1>1 DEF Ahead!InUse
<1>. QED
  BY <1>1, <1>2, <1>4, <1>5
     DEF PilotInv, Apart, InSlot, Resolved, Reading, Ahead!Truthful, Ahead!OneCopy

\* The main thread changes neither the caches nor the pilot: what it has resolved
\* must still be so.
LEMMA MainQuiet ==
    ASSUME PilotInv, UNCHANGED <<cache, ecn, inflight, pilot>>, PilotTypes',
           main'.pc \in {"barrier", "asleep", "use", "promote"} => curMoe' = main'.l,
           main'.pc \in {"use", "promote"} => inflight[main'.l] = 0,
           main'.pc = "enqueue" => main'.l + 1 < NL /\ main'.guess \in Experts,
           queue # <<>> => queue' # <<>>, Resolved'
    PROVE  PilotInv'
<1>1. Apart'
  BY DEF PilotInv, Apart, Reading
<1>2. InSlot'
  BY DEF PilotInv, InSlot, Reading, Ahead!InUse, Ahead!Resident
<1>3. Ahead!Truthful' /\ Ahead!OneCopy'
  BY DEF PilotInv, Ahead!Truthful, Ahead!OneCopy, Ahead!InUse
<1>. QED
  BY <1>1, <1>2, <1>3 DEF PilotInv

\* One slab of ws[] into the cache of the layer the main thread owns.
LEMMA PromoteStep == ASSUME Ahead!PilotAssumption, PilotInv, Ahead!Promote PROVE PilotInv'
<1>0. PICK l \in Ahead!Layers : l = main.l
  BY DEF PilotInv, PilotTypes, Mains
<1>1. PICK e \in main.misses, z \in Ahead!SlotIds :
        /\ IF ecn[l] < Cap THEN z = ecn[l] + 1 ELSE z \in Ahead!InUse(l)
        /\ cache' = [cache EXCEPT ![l][z] = [eid |-> e, data |-> e]]
        /\ ecn' = [ecn EXCEPT ![l] = IF @ < Cap THEN @ + 1 ELSE @]
        /\ main' = [main EXCEPT !.misses = @ \ {e}, !.promo = @ - 1]
  BY <1>0 DEF Ahead!Promote
<1>2. /\ main.pc = "promote" /\ main.promo > 0
      /\ UNCHANGED <<curMoe, inflight, queue, pilot>>
  BY DEF Ahead!Promote
<1>3. /\ main \in Mains
      /\ cache \in [Ahead!Layers -> [Ahead!SlotIds -> [eid : Ahead!Eids, data : Ahead!Eids]]]
      /\ ecn \in [Ahead!Layers -> 0..Cap]
      /\ PilotTypes /\ Apart /\ InSlot /\ Resolved /\ Ahead!Truthful /\ Ahead!OneCopy
  BY DEF PilotInv, PilotTypes
<1>4. l \in Ahead!Layers /\ e \in Experts /\ z \in Ahead!SlotIds /\ ecn[l] \in 0..Cap
  BY <1>1, <1>3 DEF Mains
<1>5. /\ main'.pc = "promote" /\ main'.l = l /\ main'.misses = main.misses \ {e}
      /\ main' \in Mains
  <2>1. main.promo - 1 \in Nat
    BY <1>2, <1>3 DEF Mains
  <2>. QED
    BY <1>0, <1>1, <1>2, <1>3, <2>1 DEF Mains
\* The slots in use are those there were and the new one.
<1>6. /\ Ahead!InUse(l)' = Ahead!InUse(l) \cup {z}
      /\ \A k \in Ahead!Layers : k # l => /\ Ahead!InUse(k)' = Ahead!InUse(k)
                                         /\ ecn'[k] = ecn[k] /\ cache'[k] = cache[k]
  <2>1. ecn'[l] = IF ecn[l] < Cap THEN ecn[l] + 1 ELSE ecn[l]
    BY <1>1, <1>3, <1>4
  <2>2. Ahead!InUse(l)' = Ahead!InUse(l) \cup {z}
    BY <1>1, <1>4, <2>1, LayersAre DEF Ahead!InUse
  <2>3. \A k \in Ahead!Layers : k # l => ecn'[k] = ecn[k] /\ cache'[k] = cache[k]
    BY <1>1, <1>3
  <2>. QED
    BY <2>2, <2>3 DEF Ahead!InUse
<1>7. /\ cache'[l][z] = [eid |-> e, data |-> e]
      /\ \A y \in Ahead!SlotIds : y # z => cache'[l][y] = cache[l][y]
  BY <1>1, <1>3, <1>4
<1>8. Ahead!InUse(l) \subseteq Ahead!SlotIds /\ ~Ahead!Resident(l, e)
  BY <1>0, <1>1, <1>2, <1>3, <1>4, LayersAre DEF Ahead!InUse, Resolved
<1>9. PilotTypes'
  <2>1. [eid |-> e, data |-> e] \in [eid : Ahead!Eids, data : Ahead!Eids]
    BY <1>4, LayersAre
  <2>2. cache' \in [Ahead!Layers -> [Ahead!SlotIds -> [eid : Ahead!Eids, data : Ahead!Eids]]]
    BY <1>1, <1>3, <1>4, <2>1
  <2>3. ecn' \in [Ahead!Layers -> 0..Cap]
    BY <1>1, <1>3, <1>4, LayersAre
  <2>. QED
    BY <1>2, <1>3, <1>5, <2>2, <2>3 DEF PilotTypes
<1>10. Apart'
  BY <1>0, <1>2, <1>3, <1>5 DEF Apart, Reading
<1>11. Reading => pilot.l # l /\ pilot.l \in Ahead!Layers
  BY <1>0, <1>2, <1>3, <1>4 DEF Apart, PilotTypes, Pilots
<1>12. InSlot'
  BY <1>2, <1>3, <1>6, <1>11 DEF InSlot, Reading, Ahead!Resident
<1>13. Resolved'
  <2>1. ASSUME NEW x \in main.misses, x # e, Ahead!Resident(l, x)' PROVE FALSE
    <3>1. PICK y \in Ahead!InUse(l) \cup {z} : cache'[l][y].eid = x
      BY <1>6, <2>1 DEF Ahead!Resident
    <3>2. y # z
      BY <1>7, <2>1, <3>1
    <3>3. y \in Ahead!InUse(l) /\ cache[l][y].eid = x
      BY <1>7, <1>8, <3>1, <3>2
    <3>. QED
      BY <1>0, <1>2, <1>3, <2>1, <3>3 DEF Resolved, Ahead!Resident
  <2>. QED
    BY <1>5, <2>1 DEF Resolved, Ahead!Resident, Ahead!InUse
<1>14. Ahead!Truthful'
  <2>1. ASSUME NEW k \in Ahead!Layers, NEW y \in Ahead!InUse(k)',
               cache'[k][y].eid # Ahead!None
        PROVE  cache'[k][y].data = cache'[k][y].eid
    <3>1. CASE k = l /\ y = z
      BY <1>7, <3>1
    <3>2. CASE k = l /\ y # z
      BY <1>3, <1>6, <1>7, <1>8, <2>1, <3>2 DEF Ahead!Truthful
    <3>3. CASE k # l
      BY <1>3, <1>6, <2>1, <3>3 DEF Ahead!Truthful
    <3>. QED
      BY <3>1, <3>2, <3>3
  <2>. QED
    BY <2>1 DEF Ahead!Truthful
<1>15. Ahead!OneCopy'
  <2>1. ASSUME NEW k \in Ahead!Layers, NEW y \in Ahead!InUse(k)', NEW x \in Ahead!InUse(k)',
               cache'[k][y].eid = cache'[k][x].eid, y # x
        PROVE  cache'[k][y].eid = Ahead!None
    <3>1. CASE k # l
      BY <1>3, <1>6, <2>1, <3>1 DEF Ahead!OneCopy
    <3>2. CASE k = l /\ y # z /\ x # z
      <4>1. y \in Ahead!InUse(l) /\ x \in Ahead!InUse(l)
        BY <1>6, <3>2
      <4>2. cache'[l][y] = cache[l][y] /\ cache'[l][x] = cache[l][x]
        BY <1>7, <1>8, <3>2, <4>1
      <4>. QED
        BY <1>3, <1>4, <2>1, <3>2, <4>1, <4>2 DEF Ahead!OneCopy
    <3>3. CASE k = l /\ (y = z \/ x = z)
      <4>1. PICK v \in Ahead!InUse(l) : v # z /\ cache'[l][v].eid = cache'[l][z].eid
        BY <1>6, <2>1, <3>3
      <4>2. cache[l][v].eid = e
        BY <1>7, <1>8, <4>1
      <4>. QED
        BY <1>8, <4>2 DEF Ahead!Resident
    <3>. QED
      BY <3>1, <3>2, <3>3
  <2>. QED
    BY <2>1 DEF Ahead!OneCopy
<1>. QED
  BY <1>9, <1>10, <1>12, <1>13, <1>14, <1>15 DEF PilotInv

LEMMA MainStep == ASSUME Ahead!PilotAssumption, PilotInv, Ahead!Main PROVE PilotInv'
<1>1. /\ PilotTypes /\ Apart /\ Resolved
      /\ main \in Mains
  BY DEF PilotInv, PilotTypes
<1>2. CASE Ahead!ForwardBegins
  <2>1. /\ UNCHANGED <<cache, ecn, inflight, queue, pilot>> /\ curMoe' = -1
        /\ main' = [main EXCEPT !.pc = "predict", !.l = 0, !.guesses = K,
                                !.forwards = @ + 1]
    BY <1>2 DEF Ahead!ForwardBegins
  <2>2. main' \in Mains /\ main'.pc = "predict"
    <3>1. main.forwards + 1 \in Nat
      BY <1>1 DEF Mains
    <3>. QED
      BY <1>1, <2>1, <3>1, LayersAre DEF Mains
  <2>3. PilotTypes'
    BY <1>1, <2>1, <2>2 DEF PilotTypes
  <2>. QED
    BY <2>1, <2>2, <2>3, MainQuiet DEF Resolved
<1>3. CASE Ahead!Scan
  <2>1. /\ UNCHANGED <<cache, ecn, inflight, queue, pilot, curMoe>>
        /\ main.guesses > 0 /\ main.l + 1 < NL
    BY <1>3 DEF Ahead!Scan
  <2>2. PICK e \in Experts :
          main' = IF Ahead!Resident(main.l + 1, e) THEN [main EXCEPT !.guesses = @ - 1]
                  ELSE [main EXCEPT !.pc = "enqueue", !.guesses = @ - 1, !.guess = e]
    BY <1>3 DEF Ahead!Scan
  <2>3. /\ main' \in Mains /\ main'.pc \in {"predict", "enqueue"} /\ main'.l = main.l
        /\ main'.pc = "enqueue" => main'.guess \in Experts
    <3>. DEFINE n == main.guesses - 1
    <3>0. n \in Nat
      BY <1>1, <2>1 DEF Mains
    <3>. HIDE DEF n
    <3>1. CASE Ahead!Resident(main.l + 1, e)
      <4>1. main.pc = "predict" /\ main' = [main EXCEPT !.guesses = n]
        BY <1>3, <2>2, <3>1 DEF Ahead!Scan, n
      <4>. QED
        BY <1>1, <3>0, <4>1 DEF Mains
    <3>2. CASE ~Ahead!Resident(main.l + 1, e)
      <4>1. main' = [main EXCEPT !.pc = "enqueue", !.guesses = n, !.guess = e]
        BY <2>2, <3>2 DEF n
      <4>. QED
        BY <1>1, <3>0, <4>1, LayersAre DEF Mains
    <3>. QED
      BY <3>1, <3>2
  <2>4. PilotTypes'
    BY <1>1, <2>1, <2>3 DEF PilotTypes
  <2>. QED
    BY <2>1, <2>3, <2>4, MainQuiet DEF Resolved
<1>4. CASE Ahead!Enqueue
  <2>1. /\ UNCHANGED <<cache, ecn, inflight, pilot, curMoe>> /\ main.pc = "enqueue"
        /\ queue' = IF Ahead!Fits THEN Append(queue, <<main.l + 1, main.guess>>) ELSE queue
        /\ main' = [main EXCEPT !.pc = "predict", !.guess = Ahead!None]
    BY <1>4 DEF Ahead!Enqueue
  <2>2. main' \in Mains /\ main'.pc = "predict"
    BY <1>1, <2>1, LayersAre DEF Mains
  <2>3. /\ queue' \in Seq(Ahead!Layers \X Experts) /\ Len(queue') <= Ring
        /\ queue # <<>> => queue' # <<>>
    <3>1. <<main.l + 1, main.guess>> \in Ahead!Layers \X Experts
      BY <1>1, <2>1, LayersAre DEF Apart, Mains
    <3>2. queue \in Seq(Ahead!Layers \X Experts) /\ Len(queue) <= Ring /\ Ring \in Nat
      BY <1>1, LayersAre DEF PilotTypes
    <3>. DEFINE q == Append(queue, <<main.l + 1, main.guess>>)
    <3>3. q \in Seq(Ahead!Layers \X Experts) /\ Len(q) = Len(queue) + 1
      BY <3>1, <3>2, AppendProperties
    <3>. HIDE DEF q
    <3>4. q # <<>>
      BY <3>2, <3>3, EmptySeq
    <3>. QED
      BY <2>1, <3>2, <3>3, <3>4 DEF Ahead!Fits, q
  <2>4. PilotTypes'
    BY <1>1, <2>1, <2>2, <2>3 DEF PilotTypes
  <2>. QED
    BY <2>1, <2>2, <2>3, <2>4, MainQuiet DEF Resolved
<1>5. CASE Ahead!Enter \/ Ahead!BarrierSleeps
  <2>1. /\ UNCHANGED <<cache, ecn, inflight, queue, pilot>>
        /\ \E p \in {"barrier", "asleep"} : main' = [main EXCEPT !.pc = p]
        /\ curMoe' = main.l
    BY <1>1, <1>5 DEF Ahead!Enter, Ahead!BarrierSleeps, Apart
  <2>2. PilotTypes' /\ main'.pc \in {"barrier", "asleep"} /\ main'.l = main.l
    BY <1>1, <2>1 DEF PilotTypes, Mains
  <2>. QED
    BY <2>1, <2>2, MainQuiet DEF Resolved
<1>6. CASE Ahead!Resolve
  <2>1. PICK R \in SUBSET Experts :
          main' = [main EXCEPT !.pc = "use",
                     !.hits = {z \in Ahead!InUse(main.l) : cache[main.l][z].eid \in R},
                     !.misses = {e \in R : ~Ahead!Resident(main.l, e)}]
    BY <1>6 DEF Ahead!Resolve
  <2>2. /\ UNCHANGED <<cache, ecn, inflight, queue, pilot, curMoe>>
        /\ main.pc = "barrier" /\ inflight[main.l] = 0
    BY <1>6 DEF Ahead!Resolve, Ahead!Free
  <2>3. Ahead!InUse(main.l) \subseteq Ahead!SlotIds
    BY <1>1, LayersAre DEF PilotTypes, Ahead!InUse, Mains
  <2>4. /\ main' \in Mains
        /\ main'.pc = "use" /\ main'.l = main.l
        /\ main'.hits = {z \in Ahead!InUse(main.l) : cache[main.l][z].eid \in R}
        /\ main'.misses = {e \in R : ~Ahead!Resident(main.l, e)}
    BY <1>1, <2>1, <2>3 DEF Mains
  <2>5. PilotTypes'
    BY <1>1, <2>2, <2>4 DEF PilotTypes
  <2>6. Resolved'
    BY <2>2, <2>4, LayersAre DEF Resolved, Ahead!Resident, Ahead!InUse
  <2>. QED
    BY <1>1, <2>2, <2>4, <2>5, <2>6, MainQuiet DEF Apart
<1>7. CASE Ahead!Used
  <2>1. /\ UNCHANGED <<cache, ecn, inflight, queue, pilot, curMoe>> /\ main.pc = "use"
        /\ main' = [main EXCEPT !.pc = "promote", !.hits = {},
                      !.promo = IF Ahead!Cardinality(main.misses) < Cap
                                THEN Ahead!Cardinality(main.misses) ELSE Cap]
    BY <1>7 DEF Ahead!Used
  <2>2. Ahead!Cardinality(main.misses) \in Nat
    <3>1. main.misses \in SUBSET Experts
      BY <1>1 DEF Mains
    <3>2. IsFiniteSet(main.misses)
      BY <3>1, LayersAre, FS_Subset
    <3>. QED
      BY <3>2, FS_CardinalityType, Cardinalities
  <2>3. /\ main' \in Mains
        /\ main'.pc = "promote" /\ main'.l = main.l /\ main'.misses = main.misses
    BY <1>1, <2>1, <2>2, LayersAre DEF Mains
  <2>4. PilotTypes' /\ Resolved'
    BY <1>1, <2>1, <2>3 DEF PilotTypes, Resolved, Ahead!Resident, Ahead!InUse
  <2>. QED
    BY <1>1, <2>1, <2>3, <2>4, MainQuiet DEF Apart
<1>8. CASE Ahead!LayerEnds
  <2>1. /\ UNCHANGED <<cache, ecn, inflight, queue, pilot, curMoe>>
        /\ main' = IF main.l + 1 < NL
                   THEN [main EXCEPT !.pc = "predict", !.l = @ + 1, !.guesses = K, !.misses = {}]
                   ELSE [main EXCEPT !.pc = "between", !.misses = {}]
    BY <1>8 DEF Ahead!LayerEnds
  <2>2. /\ main' \in Mains
        /\ main'.pc \in {"predict", "between"}
    <3>1. CASE main.l + 1 < NL
      <4>1. main.l + 1 \in Ahead!Layers
        BY <1>1, <3>1, LayersAre DEF Mains
      <4>. QED
        BY <1>1, <2>1, <3>1, <4>1, LayersAre DEF Mains
    <3>2. CASE ~(main.l + 1 < NL)
      BY <1>1, <2>1, <3>2 DEF Mains
    <3>. QED
      BY <3>1, <3>2
  <2>3. PilotTypes'
    BY <1>1, <2>1, <2>2 DEF PilotTypes
  <2>. QED
    BY <2>1, <2>2, <2>3, MainQuiet DEF Resolved
<1>. QED
  BY <1>2, <1>3, <1>4, <1>5, <1>6, <1>7, <1>8, PromoteStep DEF Ahead!Main

Contents == [eid : Ahead!Eids, data : Ahead!Eids]
Elsewhere(k, z, e) == \A y \in Ahead!InUse(k) : y # z => cache[k][y].eid # e

\* The pilot writes a slot of a layer the main thread has not resolved: it hides
\* it, or it shows there an expert that is nowhere else in the layer.
LEMMA SlotWritten ==
    ASSUME Ahead!PilotAssumption, PilotInv,
           NEW k \in Ahead!Layers, NEW z \in Ahead!SlotIds, NEW v \in Contents,
           cache' = [cache EXCEPT ![k][z] = v], UNCHANGED <<ecn, main>>,
           main.pc \in {"use", "promote"} => k # main.l,
           v.eid = Ahead!None \/ (v.eid = v.data /\ Elsewhere(k, z, v.eid))
    PROVE  /\ cache' \in [Ahead!Layers -> [Ahead!SlotIds -> Contents]]
           /\ cache'[k][z] = v
           /\ \A y \in Ahead!SlotIds : y # z => cache'[k][y] = cache[k][y]
           /\ \A l \in Ahead!Layers : l # k => cache'[l] = cache[l]
           /\ Ahead!Truthful' /\ Ahead!OneCopy' /\ Resolved'
<1>1. /\ cache \in [Ahead!Layers -> [Ahead!SlotIds -> Contents]] /\ ecn \in [Ahead!Layers -> 0..Cap]
      /\ main \in Mains
  BY DEF PilotInv, PilotTypes, Contents
<1>2. /\ cache' \in [Ahead!Layers -> [Ahead!SlotIds -> Contents]]
      /\ cache'[k][z] = v
      /\ \A y \in Ahead!SlotIds : y # z => cache'[k][y] = cache[k][y]
      /\ \A l \in Ahead!Layers : l # k => cache'[l] = cache[l]
  BY <1>1
<1>3. \A l \in Ahead!Layers : /\ Ahead!InUse(l)' = Ahead!InUse(l)
                              /\ Ahead!InUse(l) \subseteq Ahead!SlotIds
  BY <1>1, LayersAre DEF Ahead!InUse
<1>4. Ahead!Truthful'
  <2>1. ASSUME NEW l \in Ahead!Layers, NEW y \in Ahead!InUse(l), cache'[l][y].eid # Ahead!None
        PROVE  cache'[l][y].data = cache'[l][y].eid
    <3>1. CASE l = k /\ y = z
      BY <1>2, <2>1, <3>1
    <3>2. CASE ~(l = k /\ y = z)
      <4>1. cache'[l][y] = cache[l][y]
        BY <1>2, <1>3, <3>2
      <4>. QED
        BY <2>1, <4>1 DEF PilotInv, Ahead!Truthful
    <3>. QED
      BY <3>1, <3>2
  <2>. QED
    BY <1>3, <2>1 DEF Ahead!Truthful
<1>5. Ahead!OneCopy'
  <2>1. ASSUME NEW l \in Ahead!Layers, NEW y \in Ahead!InUse(l), NEW x \in Ahead!InUse(l),
               cache'[l][y].eid = cache'[l][x].eid, y # x
        PROVE  cache'[l][y].eid = Ahead!None
    <3>1. CASE l # k \/ (y # z /\ x # z)
      <4>1. cache'[l][y] = cache[l][y] /\ cache'[l][x] = cache[l][x]
        BY <1>2, <1>3, <3>1
      <4>. QED
        BY <2>1, <4>1 DEF PilotInv, Ahead!OneCopy
    <3>2. CASE l = k /\ y = z
      <4>1. cache'[l][x] = cache[l][x] /\ x # z
        BY <1>2, <1>3, <2>1, <3>2
      <4>. QED
        BY <1>2, <2>1, <3>2, <4>1 DEF Elsewhere
    <3>3. CASE l = k /\ x = z
      <4>1. cache'[l][y] = cache[l][y] /\ y # z
        BY <1>2, <1>3, <2>1, <3>3
      <4>. QED
        BY <1>2, <2>1, <3>3, <4>1 DEF Elsewhere
    <3>. QED
      BY <3>1, <3>2, <3>3
  <2>. QED
    BY <1>3, <2>1 DEF Ahead!OneCopy
<1>6. Resolved'
  <2>1. CASE main.pc \in {"use", "promote"}
    <3>1. main.l \in Ahead!Layers /\ main.l # k
      BY <1>1, <2>1 DEF Mains
    <3>. QED
      BY <1>2, <1>3, <3>1 DEF PilotInv, Resolved, Ahead!Resident
  <2>2. CASE main.pc \notin {"use", "promote"}
    BY <2>2 DEF Resolved
  <2>. QED
    BY <2>1, <2>2
<1>. QED
  BY <1>2, <1>4, <1>5, <1>6

\* Hints that are taken, dropped or served.
LEMMA TailIs ==
    ASSUME NEW S, NEW s \in Seq(S), s # <<>>
    PROVE  Tail(s) \in Seq(S) /\ Len(Tail(s)) = Len(s) - 1 /\ Head(s) \in S
  BY HeadTailProperties

LEMMA WorkerStep == ASSUME Ahead!PilotAssumption, PilotInv, Ahead!Worker PROVE PilotInv'
<1>1. /\ PilotTypes /\ Apart /\ InSlot /\ Resolved /\ Ahead!Truthful /\ Ahead!OneCopy
      /\ main \in Mains /\ pilot \in Pilots /\ curMoe \in Int
      /\ cache \in [Ahead!Layers -> [Ahead!SlotIds -> Contents]] /\ ecn \in [Ahead!Layers -> 0..Cap]
      /\ inflight \in [Ahead!Layers -> 0..1]
      /\ queue \in Seq(Ahead!Layers \X Experts) /\ Len(queue) <= Ring
  BY LayersAre DEF PilotInv, PilotTypes, Contents
<1>2. /\ pilot.l \in Ahead!Layers /\ pilot.l \in Int /\ pilot.z \in Ahead!SlotIds
      /\ pilot.pc # "idle" => pilot.e \in Experts
      /\ main.l \in Ahead!Layers
  BY <1>1, LayersAre DEF Apart, Pilots, Mains
<1>3. PICK k \in Ahead!Layers : k = pilot.l
  BY <1>2
<1>4. queue # <<>> => /\ Tail(queue) \in Seq(Ahead!Layers \X Experts) /\ Len(Tail(queue)) <= Ring
                      /\ Head(queue) \in Ahead!Layers \X Experts
  <2>1. Len(queue) \in Nat /\ Ring \in Nat
    BY <1>1, LayersAre
  <2>. QED
    BY <1>1, <2>1, TailIs
<1>5. CASE Ahead!Take
  <2>1. /\ pilot.pc = "idle" /\ queue # <<>>
        /\ pilot' = [pilot EXCEPT !.pc = "check", !.l = Head(queue)[1], !.e = Head(queue)[2]]
        /\ UNCHANGED <<cache, ecn, curMoe, inflight, queue, main>>
    BY <1>5 DEF Ahead!Take
  <2>2. pilot' \in Pilots /\ pilot'.pc = "check" /\ pilot'.e \in Experts
    BY <1>1, <1>4, <2>1, LayersAre DEF Pilots
  <2>3. PilotTypes' /\ Apart'
    BY <1>1, <2>1, <2>2 DEF PilotTypes, Apart, Reading
  <2>. QED
    BY <1>1, <2>1, <2>2, <2>3
       DEF PilotInv, InSlot, Reading, Resolved, Ahead!Truthful, Ahead!OneCopy, Ahead!InUse,
           Ahead!Resident
<1>6. CASE Ahead!Drop
  <2>1. /\ pilot.pc = "check" /\ pilot' = [pilot EXCEPT !.pc = "idle", !.e = Ahead!None]
        /\ queue' = Tail(queue) /\ UNCHANGED <<cache, ecn, curMoe, inflight, main>>
    BY <1>6 DEF Ahead!Drop, Ahead!Done
  <2>2. pilot' \in Pilots /\ pilot'.pc = "idle" /\ queue # <<>>
    BY <1>1, <2>1, LayersAre DEF Pilots, Apart
  <2>3. PilotTypes' /\ Apart'
    BY <1>1, <1>4, <2>1, <2>2 DEF PilotTypes, Apart, Reading
  <2>. QED
    BY <1>1, <2>1, <2>2, <2>3
       DEF PilotInv, InSlot, Reading, Resolved, Ahead!Truthful, Ahead!OneCopy, Ahead!InUse,
           Ahead!Resident
<1>7. CASE Ahead!Reserve
  <2>1. /\ pilot.pc = "check" /\ k > curMoe /\ ~Ahead!Resident(k, pilot.e)
        /\ inflight' = [inflight EXCEPT ![k] = @ + 1] /\ UNCHANGED <<ecn, curMoe, queue, main>>
    BY <1>1, <1>2, <1>3, <1>7 DEF Ahead!Reserve, Ahead!Owned, Ahead!AlreadyThere
  <2>2. PICK z \in Ahead!SlotIds :
          /\ IF ecn[k] < Cap THEN z = ecn[k] + 1 ELSE z \in Ahead!InUse(k)
          /\ cache' = [cache EXCEPT ![k][z].eid = Ahead!None]
          /\ pilot' = [pilot EXCEPT !.pc = "open", !.z = z, !.isnew = ecn[k] < Cap]
    BY <1>3, <1>7 DEF Ahead!Reserve, Ahead!Hidden
  <2>. DEFINE v == [eid |-> Ahead!None, data |-> cache[k][z].data]
  <2>3. v \in Contents /\ cache' = [cache EXCEPT ![k][z] = v] /\ v.eid = Ahead!None
    <3>1. cache[k][z] \in Contents
      BY <1>1
    <3>2. v \in Contents /\ v.eid = Ahead!None /\ [cache[k][z] EXCEPT !.eid = Ahead!None] = v
      BY <3>1, LayersAre DEF Contents
    <3>3. cache' = [cache EXCEPT ![k][z] = v]
      BY <1>1, <2>2, <3>2
    <3>. QED
      BY <3>2, <3>3
  <2>. HIDE DEF v
  <2>4. main.pc \in {"use", "promote"} => k # main.l
    BY <1>1, <1>2, <1>3, <2>1 DEF Apart
  <2>5. /\ cache' \in [Ahead!Layers -> [Ahead!SlotIds -> Contents]] /\ cache'[k][z] = v
        /\ \A y \in Ahead!SlotIds : y # z => cache'[k][y] = cache[k][y]
        /\ Ahead!Truthful' /\ Ahead!OneCopy' /\ Resolved'
    BY <2>1, <2>3, <2>4, SlotWritten
  <2>6. /\ pilot' \in Pilots /\ pilot'.pc = "open" /\ pilot'.z = z /\ pilot'.l = k
        /\ pilot'.e = pilot.e /\ (pilot'.isnew <=> ecn[k] < Cap)
    <3>. DEFINE b == ecn[k] < Cap
    <3>1. pilot' = [pilot EXCEPT !.pc = "open", !.z = z, !.isnew = b] /\ b \in BOOLEAN
      BY <2>2
    <3>. HIDE DEF b
    <3>2. /\ pilot' \in Pilots /\ pilot'.pc = "open" /\ pilot'.z = z /\ pilot'.l = k
          /\ pilot'.e = pilot.e /\ pilot'.isnew = b
      BY <1>1, <1>3, <3>1 DEF Pilots
    <3>. QED
      BY <3>2 DEF b
  <2>7. inflight[k] = 0 /\ \A l \in Ahead!Layers : inflight[l] = 0
    BY <1>1, <2>1 DEF Apart, Reading
  <2>8. \A l \in Ahead!Layers : inflight'[l] = IF l = k THEN 1 ELSE 0
    BY <1>1, <2>1, <2>7
  <2>9. PilotTypes'
    <3>1. inflight' \in [Ahead!Layers -> 0..1]
      BY <1>1, <2>1, <2>8
    <3>. QED
      BY <1>1, <2>1, <2>5, <2>6, <3>1 DEF PilotTypes, Contents
  <2>10. Apart'
    <3>1. main.pc \in {"use", "promote"} => inflight'[main.l] = 0
      BY <1>2, <2>4, <2>8
    <3>. QED
      BY <1>1, <1>2, <2>1, <2>6, <2>8, <3>1 DEF Apart, Reading
  <2>11. InSlot'
    <3>1. ~Ahead!Resident(k, pilot.e)'
      <4>1. ASSUME NEW y \in Ahead!InUse(k), cache'[k][y].eid = pilot.e PROVE FALSE
        <5>1. y \in Ahead!SlotIds
          BY <1>1, <4>1, LayersAre DEF Ahead!InUse
        <5>2. CASE y = z
          BY <1>2, <2>1, <2>3, <2>5, <4>1, <5>2, LayersAre
        <5>3. CASE y # z
          BY <2>1, <2>5, <4>1, <5>1, <5>3 DEF Ahead!Resident
        <5>. QED
          BY <5>2, <5>3
      <4>. QED
        BY <2>1, <2>6, <4>1 DEF Ahead!Resident, Ahead!InUse
    <3>2. IF pilot'.isnew THEN pilot'.z = ecn'[k] + 1 ELSE pilot'.z \in Ahead!InUse(k)'
      BY <2>1, <2>2, <2>6 DEF Ahead!InUse
    <3>3. cache'[k][z].eid = Ahead!None
      BY <2>3, <2>5
    <3>. QED
      BY <2>6, <3>1, <3>2, <3>3 DEF InSlot, Ahead!Resident, Ahead!InUse
  <2>. QED
    BY <2>5, <2>9, <2>10, <2>11 DEF PilotInv
<1>8. CASE Ahead!LoadBegins \/ Ahead!LoadEnds
  <2>1. /\ pilot.pc \in {"open", "read"} /\ UNCHANGED <<ecn, curMoe, inflight, queue, main>>
        /\ ~Ahead!Resident(k, pilot.e) /\ inflight[k] = 1
    BY <1>1, <1>2, <1>3, <1>8 DEF Ahead!LoadBegins, Ahead!LoadEnds, InSlot, Apart, Reading
  <2>2. PICK z \in Ahead!SlotIds : z = pilot.z
    BY <1>2
  <2>3. PICK v \in Contents, p \in {"read", "publish", "failed"} :
          /\ cache' = [cache EXCEPT ![k][z] = v] /\ pilot' = [pilot EXCEPT !.pc = p]
          /\ p = "publish" => v = [eid |-> pilot.e, data |-> pilot.e]
          /\ p # "publish" => v.eid = Ahead!None
    <3>1. CASE Ahead!LoadBegins
      <4>. DEFINE v == [eid |-> Ahead!None, data |-> Ahead!None]
      <4>1. cache' = [cache EXCEPT ![k][z].data = Ahead!None] /\ cache[k][z].eid = Ahead!None
        BY <1>1, <1>3, <2>2, <3>1 DEF Ahead!LoadBegins, InSlot
      <4>2. cache[k][z] \in Contents
        BY <1>1
      <4>3. v \in Contents /\ [cache[k][z] EXCEPT !.data = Ahead!None] = v
        BY <4>1, <4>2, LayersAre DEF Contents
      <4>4. cache' = [cache EXCEPT ![k][z] = v]
        BY <1>1, <4>1, <4>3
      <4>5. pilot' = [pilot EXCEPT !.pc = "read"]
        BY <3>1 DEF Ahead!LoadBegins
      <4>. QED
        BY <4>3, <4>4, <4>5
    <3>2. CASE Ahead!LoadEnds /\ UNCHANGED cache /\ pilot' = [pilot EXCEPT !.pc = "failed"]
      <4>1. cache[k][z] \in Contents /\ cache[k][z].eid = Ahead!None
        BY <1>1, <1>3, <2>2, <3>2 DEF Ahead!LoadEnds, InSlot
      <4>2. cache' = [cache EXCEPT ![k][z] = cache[k][z]]
        BY <1>1, <3>2
      <4>. QED
        BY <3>2, <4>1, <4>2
    <3>3. CASE /\ Ahead!LoadEnds
               /\ cache' = [cache EXCEPT ![k][z] = [eid |-> pilot.e, data |-> pilot.e]]
               /\ pilot' = [pilot EXCEPT !.pc = "publish"]
      <4>1. [eid |-> pilot.e, data |-> pilot.e] \in Contents
        BY <1>2, <2>1, LayersAre DEF Contents
      <4>. QED
        BY <3>3, <4>1
    <3>. QED
      BY <1>3, <1>8, <2>2, <3>1, <3>2, <3>3 DEF Ahead!LoadEnds
  <2>4. main.pc \in {"use", "promote"} => k # main.l
    BY <1>1, <2>1 DEF Apart
  <2>5. v.eid = Ahead!None \/ (v.eid = v.data /\ Elsewhere(k, z, v.eid))
    BY <2>1, <2>3 DEF Elsewhere, Ahead!Resident
  <2>6. /\ cache' \in [Ahead!Layers -> [Ahead!SlotIds -> Contents]] /\ cache'[k][z] = v
        /\ \A y \in Ahead!SlotIds : y # z => cache'[k][y] = cache[k][y]
        /\ Ahead!Truthful' /\ Ahead!OneCopy' /\ Resolved'
    BY <2>1, <2>3, <2>4, <2>5, SlotWritten
  <2>7. /\ pilot' \in Pilots /\ pilot'.pc = p /\ pilot'.z = z /\ pilot'.l = k
        /\ pilot'.e = pilot.e /\ pilot'.isnew = pilot.isnew
    BY <1>1, <1>3, <2>2, <2>3 DEF Pilots
  <2>8. PilotTypes' /\ Apart'
    BY <1>1, <1>2, <1>3, <2>1, <2>6, <2>7 DEF PilotTypes, Contents, Apart, Reading
  <2>9. Ahead!InUse(k)' = Ahead!InUse(k) /\ Ahead!InUse(k) \subseteq Ahead!SlotIds
    BY <1>1, <2>1, LayersAre DEF Ahead!InUse
  <2>10. InSlot'
    <3>1. IF pilot'.isnew THEN pilot'.z = ecn'[k] + 1 ELSE pilot'.z \in Ahead!InUse(k)'
      BY <1>1, <1>3, <2>1, <2>2, <2>7, <2>9 DEF InSlot, Reading
    <3>2. \A y \in Ahead!InUse(k)' : y # z => cache'[k][y].eid # pilot.e
      BY <2>1, <2>6, <2>9 DEF Ahead!Resident
    <3>3. p # "publish" => cache'[k][z].eid = Ahead!None
      BY <2>3, <2>6
    <3>4. p # "publish" => ~Ahead!Resident(k, pilot.e)'
      <4>1. ASSUME p # "publish", NEW y \in Ahead!InUse(k), cache'[k][y].eid = pilot.e
            PROVE  FALSE
        <5>1. y # z
          BY <1>2, <2>1, <3>3, <4>1, LayersAre
        <5>. QED
          BY <2>9, <3>2, <4>1, <5>1
      <4>. QED
        BY <2>7, <2>9, <4>1 DEF Ahead!Resident
    <3>. QED
      BY <2>3, <2>6, <2>7, <3>1, <3>2, <3>3, <3>4 DEF InSlot, Ahead!Resident, Ahead!InUse
  <2>. QED
    BY <2>6, <2>8, <2>10 DEF PilotInv
<1>9. CASE Ahead!Publish
  <2>1. /\ pilot.pc \in {"publish", "failed"}
        /\ ecn' = IF pilot.pc = "publish" /\ pilot.isnew THEN [ecn EXCEPT ![k] = pilot.z]
                  ELSE ecn
        /\ inflight' = [inflight EXCEPT ![k] = @ - 1]
        /\ pilot' = [pilot EXCEPT !.pc = "idle", !.e = Ahead!None] /\ queue' = Tail(queue)
        /\ main' = IF main.pc = "asleep" THEN [main EXCEPT !.pc = "barrier"] ELSE main
        /\ UNCHANGED <<cache, curMoe>>
    BY <1>3, <1>9 DEF Ahead!Publish, Ahead!Done, Ahead!Woken
  <2>2. pilot' \in Pilots /\ pilot'.pc = "idle" /\ queue # <<>>
    BY <1>1, <2>1, LayersAre DEF Pilots, Apart
  <2>3. /\ main' \in Mains /\ main'.l = main.l
        /\ main'.misses = main.misses /\ main'.hits = main.hits /\ main'.guess = main.guess
        /\ main'.pc = IF main.pc = "asleep" THEN "barrier" ELSE main.pc
    BY <1>1, <2>1 DEF Mains
  <2>4. \A l \in Ahead!Layers : inflight[l] = IF l = k THEN 1 ELSE 0
    BY <1>1, <1>3, <2>1 DEF Apart, Reading
  <2>5. /\ inflight' \in [Ahead!Layers -> 0..1] /\ \A l \in Ahead!Layers : inflight'[l] = 0
    BY <1>1, <2>1, <2>4
  <2>6. /\ ecn' \in [Ahead!Layers -> 0..Cap]
        /\ \A l \in Ahead!Layers : l # k => Ahead!InUse(l)' = Ahead!InUse(l)
        /\ \A y \in Ahead!InUse(k)' :
             y \in Ahead!InUse(k) \/ (y = pilot.z /\ pilot.pc = "publish")
    <3>1. CASE pilot.pc = "publish" /\ pilot.isnew
      <4>1. pilot.z = ecn[k] + 1
        BY <1>1, <1>3, <3>1 DEF InSlot, Reading
      <4>2. ecn' = [ecn EXCEPT ![k] = pilot.z]
        BY <2>1, <3>1
      <4>3. ecn' \in [Ahead!Layers -> 0..Cap]
        BY <1>1, <1>2, <4>2, LayersAre
      <4>4. Ahead!InUse(k)' = 1..pilot.z /\ Ahead!InUse(k) = 1..ecn[k] /\ ecn[k] \in 0..Cap
        BY <1>1, <4>2 DEF Ahead!InUse
      <4>5. \A y \in 1..pilot.z : y \in 1..ecn[k] \/ y = pilot.z
        BY <4>1, <4>4
      <4>6. \A l \in Ahead!Layers : l # k => ecn'[l] = ecn[l]
        BY <1>1, <4>2
      <4>. QED
        BY <3>1, <4>3, <4>4, <4>5, <4>6 DEF Ahead!InUse
    <3>2. CASE ~(pilot.pc = "publish" /\ pilot.isnew)
      BY <1>1, <2>1, <3>2 DEF Ahead!InUse
    <3>. QED
      BY <3>1, <3>2
  <2>7. PilotTypes'
    BY <1>1, <1>4, <2>1, <2>2, <2>3, <2>5, <2>6 DEF PilotTypes, Contents
  <2>8. Apart'
    BY <1>1, <1>2, <2>1, <2>2, <2>3, <2>5 DEF Apart, Reading
  <2>9. InSlot'
    BY <2>2 DEF InSlot, Reading
  <2>10. Resolved'
    <3>1. main.pc \in {"use", "promote"} => k # main.l
      BY <1>1, <2>4 DEF Apart
    <3>. QED
      BY <1>1, <1>2, <2>1, <2>3, <2>6, <3>1 DEF Resolved, Ahead!Resident
  <2>11. pilot.pc = "publish" =>
           /\ cache[k][pilot.z] = [eid |-> pilot.e, data |-> pilot.e]
           /\ \A y \in Ahead!InUse(k) : y # pilot.z => cache[k][y].eid # pilot.e
    BY <1>1, <1>3 DEF InSlot
  <2>12. Ahead!Truthful'
    <3>1. ASSUME NEW l \in Ahead!Layers, NEW y \in Ahead!InUse(l)', cache[l][y].eid # Ahead!None
          PROVE  cache[l][y].data = cache[l][y].eid
      <4>1. CASE y \in Ahead!InUse(l)
        BY <1>1, <3>1, <4>1 DEF Ahead!Truthful
      <4>2. CASE l = k /\ y = pilot.z /\ pilot.pc = "publish"
        BY <2>11, <4>2
      <4>. QED
        BY <2>6, <3>1, <4>1, <4>2
    <3>. QED
      BY <2>1, <3>1 DEF Ahead!Truthful
  <2>13. Ahead!OneCopy'
    <3>1. ASSUME NEW l \in Ahead!Layers, NEW y \in Ahead!InUse(l)', NEW x \in Ahead!InUse(l)',
                 cache[l][y].eid = cache[l][x].eid, y # x
          PROVE  cache[l][y].eid = Ahead!None
      <4>1. CASE y \in Ahead!InUse(l) /\ x \in Ahead!InUse(l)
        BY <1>1, <3>1, <4>1 DEF Ahead!OneCopy
      <4>2. CASE l = k /\ y = pilot.z /\ pilot.pc = "publish" /\ x \in Ahead!InUse(l)
        BY <2>11, <3>1, <4>2
      <4>3. CASE l = k /\ x = pilot.z /\ pilot.pc = "publish" /\ y \in Ahead!InUse(l)
        BY <2>11, <3>1, <4>3
      <4>. QED
        BY <2>6, <3>1, <4>1, <4>2, <4>3
    <3>. QED
      BY <2>1, <3>1 DEF Ahead!OneCopy
  <2>. QED
    BY <2>7, <2>8, <2>9, <2>10, <2>12, <2>13 DEF PilotInv
<1>. QED
  BY <1>5, <1>6, <1>7, <1>8, <1>9 DEF Ahead!Worker

LEMMA PilotAlways == Spec => []PilotInv
<1>1. Ahead!PilotAssumption
  BY GlmExpertsAssumption
<1>2. Init => PilotInv
  BY <1>1, PilotInit DEF Init
<1>3. PilotInv /\ [Next]_vars => PilotInv'
  <2>1. ASSUME PilotInv, UNCHANGED pilotVars PROVE PilotInv'
    BY <2>1 DEF pilotVars, PilotInv, PilotTypes, Apart, InSlot, Resolved, Reading,
                Ahead!Truthful, Ahead!OneCopy, Ahead!InUse, Ahead!Resident
  <2>2. [Next]_vars => Ahead!Main \/ Ahead!Worker \/ UNCHANGED pilotVars
    BY DEF Next, PipeSteps, PilotSteps, UringSteps, RepinSteps, vars, Ahead!Next, Ahead!Poll,
           Ahead!vars, pilotVars
  <2>. QED
    BY <1>1, <2>1, <2>2, MainStep, WorkerStep
<1>. QED
  BY <1>2, <1>3, PTL DEF Spec

\* What the runs ask of the pilot.
LEMMA PilotSound == PilotInv => Ahead!TypeOK /\ Ahead!Truthful /\ Ahead!OneCopy /\ Ahead!UsesWhole
<1>. SUFFICES ASSUME PilotInv PROVE Ahead!TypeOK /\ Ahead!UsesWhole
  BY DEF PilotInv
<1>1. Ahead!TypeOK
  BY DEF PilotInv, PilotTypes, Ahead!TypeOK
<1>2. ASSUME main.pc = "use", NEW z \in main.hits
      PROVE  /\ cache[main.l][z].data = cache[main.l][z].eid /\ cache[main.l][z].eid # Ahead!None
             /\ ~(inflight[main.l] > 0 /\ pilot.l = main.l /\ pilot.z = z)
  <2>1. main.l \in Ahead!Layers /\ inflight[main.l] = 0
    BY <1>2 DEF PilotInv, PilotTypes, Mains, Apart
  <2>. QED
    BY <1>2, <2>1 DEF PilotInv, Resolved, Ahead!Truthful
<1>. QED
  BY <1>1, <1>2 DEF Ahead!UsesWhole

-----------------------------------------------------------------------------
(* The load pipeline (PIPE), while no block is larger than the one before it:*)
(* a larger one lets a straggler take a job of the batch that is being       *)
(* stored, and the properties fail.                                          *)

Size == Pipe!MaxOf(Sizes)
NoGrowth == walk.block > 0 => njobs' <= njobs

\* A job has been won and is not reported yet.
InFlight(w) == worker[w].pc \in {"layer", "eid", "open", "read", "ready"}

\* The main thread stores a batch, or walks over the block it has published.
Filling == walk.pc \in {"layer", "eids", "reset", "publish"}
Walking == walk.pc \in {"wake", "wait", "use"}

Words == [gen : 0..Blocks, i : 0..Size]
Walks ==
  [pc : {"rest", "layer", "eids", "reset", "publish", "wake", "wait", "use"},
   q : Pipe!Slabs, n : Nat, block : 0..Blocks]
Readers ==
  [pc : {"parked", "asleep", "cur", "njobs", "cas", "layer", "eid", "open", "read", "ready"},
   seen : 0..Blocks, c : Words, layer : 0..Blocks, eid : 0..Blocks]
Jobs == [layer : 0..Blocks, eid : 0..Blocks, slot : Int]

PipeTypes ==
  /\ cur \in Words /\ layer \in 0..Blocks /\ eids \in [Pipe!Slabs -> 0..Blocks]
  /\ ready \in [Pipe!Slabs -> BOOLEAN] /\ ws \in [Pipe!Slabs -> Jobs]
  /\ walk \in Walks /\ worker \in [Workers -> Readers]

\* What the main thread has stored of its block, and how far it has walked.
Stored ==
  /\ cur.gen = IF Filling THEN walk.block - 1 ELSE walk.block
  /\ njobs = IF walk.block = 0 THEN 0 ELSE walk.n
  /\ walk.block >= 1 => walk.n \in Sizes
  /\ walk.pc # "rest" => walk.block >= 1 /\ walk.q < walk.n
  /\ Walking => cur.i <= walk.n
  /\ walk.pc \in {"layer", "publish", "wake"} => walk.q = 0
  /\ walk.pc \notin {"rest", "layer"} => layer = walk.block
  /\ walk.pc = "eids" => \A j \in Pipe!Slabs : j < walk.q => eids[j] = walk.block
  /\ walk.pc \notin {"rest", "layer", "eids"} =>
       \A j \in Pipe!Slabs : j < walk.n => eids[j] = walk.block
  /\ walk.pc = "reset" => \A j \in Pipe!Slabs : j < walk.q => ~ready[j]
  /\ walk.pc = "publish" => \A j \in Pipe!Slabs : j < walk.n => ~ready[j]
  /\ walk.pc = "wait" => \A j \in Pipe!Slabs : j < walk.q => ready[j]
  /\ walk.pc = "use" => \A j \in Pipe!Slabs : j <= walk.q => ready[j]

\* A generation that is not walked over is drained: its index is at the end, and
\* none of its jobs is in flight.
Exhausted ==
  ~Walking => /\ cur.gen >= 1 => cur.i >= njobs
              /\ \A w \in Workers : ~InFlight(w)

\* A thread, the word it has seen and the job it has won: a compare-and-swap that
\* will succeed is one on a block that is walked over.
Holds(w) ==
  /\ worker[w].seen <= cur.gen /\ worker[w].c.gen <= cur.gen
  /\ worker[w].c.gen = cur.gen => worker[w].c.i <= cur.i
  /\ worker[w].pc \notin {"parked", "asleep"} => cur.gen >= 1
  /\ worker[w].pc = "cas" /\ worker[w].c = cur => Walking /\ cur.i < njobs
  /\ InFlight(w) => worker[w].c.i < cur.i /\ ~ready[worker[w].c.i]
  /\ worker[w].pc \in {"eid", "open", "read", "ready"} => worker[w].layer = walk.block
  /\ worker[w].pc \in {"open", "read", "ready"} => worker[w].eid = walk.block
  /\ worker[w].pc = "ready" =>
       ws[worker[w].c.i] = Pipe!Job(walk.block, walk.block, worker[w].c.i)

OneEach ==
  \A v, w \in Workers :
    v # w /\ InFlight(v) /\ InFlight(w) => worker[v].c.i # worker[w].c.i

\* A slab that is ready was handed out, and holds the job this block asked for.
Slab(j) ==
  j < walk.n => /\ j >= cur.i => ~ready[j]
                /\ ready[j] => ws[j] = Pipe!Job(walk.block, walk.block, j)

PipeInv ==
  /\ PipeTypes /\ Stored /\ Exhausted /\ OneEach
  /\ \A w \in Workers : Holds(w)
  /\ Walking => \A j \in Pipe!Slabs : Slab(j)

LEMMA SizeIs ==
    ASSUME Pipe!PipeAssumption
    PROVE  /\ Size \in Nat \ {0} /\ \A n \in Sizes : n \in Nat \ {0} /\ n <= Size
           /\ Pipe!Slabs = 0..Size - 1 /\ 0 \in Pipe!Slabs /\ Blocks \in Nat
           /\ Pipe!MaxOf(Sizes) = Size
<1>1. PICK m \in Sizes : \A n \in Sizes : m >= n
  BY DEF Pipe!PipeAssumption
<1>2. Size \in Sizes /\ \A n \in Sizes : Size >= n
  BY <1>1 DEF Size, Pipe!MaxOf
<1>3. Size \in Nat \ {0} /\ \A n \in Sizes : n \in Nat \ {0}
  BY <1>2 DEF Pipe!PipeAssumption
<1>. QED
  BY <1>2, <1>3 DEF Pipe!PipeAssumption, Pipe!Slabs, Size

LEMMA WalkIs ==
    ASSUME Pipe!PipeAssumption, PipeInv
    PROVE  /\ walk \in Walks /\ walk.block \in 0..Blocks /\ walk.q \in 0..Size - 1 /\ walk.n \in Nat
           /\ walk.block >= 1 => walk.n \in Sizes /\ walk.n \in 1..Size
           /\ cur \in Words /\ cur.gen \in 0..Blocks /\ cur.i \in 0..Size /\ njobs \in 0..Size
           /\ cur.gen >= 1 => walk.block >= 1
           /\ ~Walking /\ cur.gen >= 1 => cur.i >= njobs
<1>1. walk \in Walks /\ cur \in Words
  BY DEF PipeInv, PipeTypes
<1>2. /\ walk.block \in 0..Blocks /\ walk.q \in 0..Size - 1 /\ walk.n \in Nat
      /\ cur.gen \in 0..Blocks /\ cur.i \in 0..Size
  BY <1>1, SizeIs DEF Walks, Words
<1>3. walk.block >= 1 => walk.n \in Sizes /\ walk.n \in 1..Size
  BY <1>2, SizeIs DEF PipeInv, Stored
<1>4. njobs \in 0..Size /\ (cur.gen >= 1 => walk.block >= 1)
  BY <1>2, <1>3, SizeIs DEF PipeInv, Stored
<1>. QED
  BY <1>1, <1>2, <1>3, <1>4 DEF PipeInv, Exhausted

LEMMA PipeInit == ASSUME Pipe!PipeAssumption, Pipe!Init PROVE PipeInv
<1>1. /\ cur = [gen |-> 0, i |-> 0] /\ njobs = 0 /\ layer = 0
      /\ eids = [q \in Pipe!Slabs |-> 0] /\ ready = [q \in Pipe!Slabs |-> FALSE]
      /\ ws = [q \in Pipe!Slabs |-> Pipe!Torn]
      /\ walk = [pc |-> "rest", q |-> 0, n |-> 0, block |-> 0]
      /\ worker = [w \in Workers |-> [pc |-> "parked", seen |-> 0, c |-> cur,
                                      layer |-> 0, eid |-> 0]]
  BY DEF Pipe!Init
<1>2. PipeTypes
  <2>1. cur \in Words /\ walk \in Walks /\ Pipe!Torn \in Jobs
    BY <1>1, SizeIs DEF Words, Walks, Jobs, Pipe!Torn
  <2>2. [pc |-> "parked", seen |-> 0, c |-> cur, layer |-> 0, eid |-> 0] \in Readers
    BY <2>1, SizeIs DEF Readers
  <2>. QED
    BY <1>1, <2>1, <2>2, SizeIs DEF PipeTypes
<1>3. walk.pc = "rest" /\ walk.block = 0 /\ cur.gen = 0 /\ cur.i = 0
  BY <1>1
<1>4. \A w \in Workers : worker[w].pc = "parked"
  BY <1>1
<1>. QED
  BY <1>1, <1>2, <1>3, <1>4
     DEF PipeInv, Stored, Exhausted, OneEach, Holds, InFlight, Filling, Walking

\* What the main thread's steps outside a walk leave alone.
LEMMA FillStep ==
    ASSUME Pipe!PipeAssumption, PipeInv, ~Walking, ~Walking',
           UNCHANGED <<cur, ws, worker>>, PipeTypes', Stored',
           cur.gen >= 1 => cur.i >= njobs'
    PROVE  PipeInv'
<1>1. Exhausted'
  BY DEF PipeInv, Exhausted, InFlight
<1>2. OneEach'
  BY DEF PipeInv, OneEach, InFlight
<1>3. \A w \in Workers : ~InFlight(w)
  BY DEF PipeInv, Exhausted
<1>4. \A w \in Workers : Holds(w)'
  BY <1>3 DEF PipeInv, Holds, InFlight
<1>. QED
  BY <1>1, <1>2, <1>4 DEF PipeInv

LEMMA BlockBeginsStep ==
    ASSUME Pipe!PipeAssumption, PipeInv, Pipe!BlockBegins, NoGrowth PROVE PipeInv'
<1>1. PICK n \in Sizes :
        /\ walk' = [pc |-> "layer", q |-> 0, n |-> n, block |-> walk.block + 1]
        /\ njobs' = n
  BY DEF Pipe!BlockBegins
<1>2. /\ walk.pc = "rest" /\ walk.block < Blocks
      /\ UNCHANGED <<cur, layer, eids, ready, ws, worker>>
  BY DEF Pipe!BlockBegins
<1>3. walk.block \in 0..Blocks /\ n \in 1..Size /\ njobs \in 0..Size /\ cur.i \in 0..Size
  BY WalkIs, SizeIs
<1>4. /\ walk' \in Walks /\ walk'.pc = "layer" /\ walk'.block = walk.block + 1
      /\ walk'.n = n /\ walk'.q = 0
  BY <1>1, <1>2, <1>3, SizeIs DEF Walks
<1>5. PipeTypes'
  BY <1>2, <1>4 DEF PipeInv, PipeTypes
<1>6. cur.gen = walk.block
  BY <1>2 DEF PipeInv, Stored, Filling
<1>7. Stored'
  BY <1>1, <1>2, <1>3, <1>4, <1>6, SizeIs DEF Stored, Filling, Walking
<1>8. cur.gen >= 1 => cur.i >= njobs'
  <2>1. cur.gen >= 1 => cur.i >= njobs /\ njobs' <= njobs
    BY <1>2, <1>3, <1>6, WalkIs DEF Walking, NoGrowth
  <2>. QED
    BY <1>1, <1>3, <2>1
<1>. QED
  BY <1>2, <1>4, <1>5, <1>7, <1>8, FillStep DEF Walking

LEMMA StoreLayerStep ==
    ASSUME Pipe!PipeAssumption, PipeInv, Pipe!StoreLayer PROVE PipeInv'
<1>1. /\ walk.pc = "layer" /\ layer' = walk.block /\ walk' = [walk EXCEPT !.pc = "eids"]
      /\ UNCHANGED <<cur, njobs, eids, ready, ws, worker>>
  BY DEF Pipe!StoreLayer
<1>2. /\ walk \in Walks /\ walk' \in Walks /\ walk'.pc = "eids" /\ walk'.block = walk.block
      /\ walk'.n = walk.n /\ walk'.q = walk.q /\ walk.block \in 0..Blocks /\ walk.q \in Pipe!Slabs
  BY <1>1 DEF PipeInv, PipeTypes, Walks
<1>3. PipeTypes'
  BY <1>1, <1>2 DEF PipeInv, PipeTypes
<1>4. Stored'
  BY <1>1, <1>2, SizeIs DEF PipeInv, Stored, Filling, Walking
<1>. QED
  BY <1>1, <1>2, <1>3, <1>4, FillStep, WalkIs DEF Walking

\* The next slot, or the next step.
LEMMA NextSlotIs ==
    ASSUME Pipe!PipeAssumption, PipeInv, walk.pc \in {"eids", "reset"},
           NEW then \in {"reset", "publish"}, walk' = Pipe!NextSlot(then)
    PROVE  /\ walk' \in Walks /\ walk'.block = walk.block /\ walk'.n = walk.n
           /\ walk.q \in Pipe!Slabs /\ walk.block \in 0..Blocks /\ walk.block >= 1
           /\ \/ walk'.pc = walk.pc /\ walk'.q = walk.q + 1
              \/ walk'.pc = then /\ walk'.q = 0 /\ walk.q = walk.n - 1
           /\ walk'.q < walk.n /\ walk.n \in 1..Size
<1>1. walk \in Walks /\ walk.n \in 1..Size /\ walk.block >= 1 /\ walk.q < walk.n
  BY WalkIs DEF PipeInv, Stored
<1>2. walk.q \in 0..Size - 1 /\ walk.block \in 0..Blocks
  BY WalkIs
<1>3. CASE walk.q + 1 < walk.n
  <2>1. walk' = [walk EXCEPT !.q = @ + 1] /\ walk.q + 1 \in 0..Size - 1
    BY <1>1, <1>2, <1>3, SizeIs DEF Pipe!NextSlot
  <2>2. /\ walk' \in Walks /\ walk'.block = walk.block /\ walk'.n = walk.n
        /\ walk'.pc = walk.pc /\ walk'.q = walk.q + 1
    BY <1>1, <2>1, SizeIs DEF Walks
  <2>. QED
    BY <1>1, <1>2, <1>3, <2>2, SizeIs
<1>4. CASE ~(walk.q + 1 < walk.n)
  <2>1. walk' = [walk EXCEPT !.q = 0, !.pc = then] /\ walk.q = walk.n - 1
    BY <1>1, <1>2, <1>4, SizeIs DEF Pipe!NextSlot
  <2>2. /\ walk' \in Walks /\ walk'.block = walk.block /\ walk'.n = walk.n
        /\ walk'.pc = then /\ walk'.q = 0
    BY <1>1, <2>1, SizeIs DEF Walks
  <2>. QED
    BY <1>1, <1>2, <2>1, <2>2, SizeIs
<1>. QED
  BY <1>3, <1>4

LEMMA StoreEidStep ==
    ASSUME Pipe!PipeAssumption, PipeInv, Pipe!StoreEid PROVE PipeInv'
<1>1. /\ walk.pc = "eids" /\ eids' = [eids EXCEPT ![walk.q] = walk.block]
      /\ walk' = Pipe!NextSlot("reset") /\ UNCHANGED <<cur, njobs, layer, ready, ws, worker>>
  BY DEF Pipe!StoreEid
<1>2. /\ walk' \in Walks /\ walk'.block = walk.block /\ walk'.n = walk.n
      /\ walk.q \in Pipe!Slabs /\ walk.block \in 0..Blocks /\ walk.block >= 1
      /\ \/ walk'.pc = "eids" /\ walk'.q = walk.q + 1
         \/ walk'.pc = "reset" /\ walk'.q = 0 /\ walk.q = walk.n - 1
      /\ walk'.q < walk.n /\ walk.n \in 1..Size
  BY <1>1, NextSlotIs
<1>3. eids \in [Pipe!Slabs -> 0..Blocks]
  BY DEF PipeInv, PipeTypes
<1>4. PipeTypes'
  BY <1>1, <1>2, <1>3 DEF PipeInv, PipeTypes
<1>5. \A j \in Pipe!Slabs :
        j < walk'.q \/ (walk'.pc = "reset" /\ j < walk.n) => eids'[j] = walk.block
  <2>1. \A j \in Pipe!Slabs : j < walk'.q \/ (walk'.pc # walk.pc /\ j < walk.n)
                             => j < walk.q \/ j = walk.q
    BY <1>1, <1>2, SizeIs
  <2>2. \A j \in Pipe!Slabs : j < walk.q => eids[j] = walk.block
    BY <1>1 DEF PipeInv, Stored
  <2>. QED
    BY <1>1, <1>2, <1>3, <2>1, <2>2
<1>6. Stored'
  BY <1>1, <1>2, <1>5, SizeIs DEF PipeInv, Stored, Filling, Walking
<1>. QED
  BY <1>1, <1>2, <1>4, <1>6, FillStep, WalkIs DEF Walking

LEMMA ResetReadyStep ==
    ASSUME Pipe!PipeAssumption, PipeInv, Pipe!ResetReady PROVE PipeInv'
<1>1. /\ walk.pc = "reset" /\ ready' = [ready EXCEPT ![walk.q] = FALSE]
      /\ walk' = Pipe!NextSlot("publish") /\ UNCHANGED <<cur, njobs, layer, eids, ws, worker>>
  BY DEF Pipe!ResetReady
<1>2. /\ walk' \in Walks /\ walk'.block = walk.block /\ walk'.n = walk.n
      /\ walk.q \in Pipe!Slabs /\ walk.block \in 0..Blocks /\ walk.block >= 1
      /\ \/ walk'.pc = "reset" /\ walk'.q = walk.q + 1
         \/ walk'.pc = "publish" /\ walk'.q = 0 /\ walk.q = walk.n - 1
      /\ walk'.q < walk.n /\ walk.n \in 1..Size
  BY <1>1, NextSlotIs
<1>3. ready \in [Pipe!Slabs -> BOOLEAN]
  BY DEF PipeInv, PipeTypes
<1>4. PipeTypes'
  BY <1>1, <1>2, <1>3 DEF PipeInv, PipeTypes
<1>5. \A j \in Pipe!Slabs : j < walk'.q \/ (walk'.pc = "publish" /\ j < walk.n) => ~ready'[j]
  <2>1. \A j \in Pipe!Slabs : j < walk'.q \/ (walk'.pc # walk.pc /\ j < walk.n)
                             => j < walk.q \/ j = walk.q
    BY <1>1, <1>2, SizeIs
  <2>2. \A j \in Pipe!Slabs : j < walk.q => ~ready[j]
    BY <1>1 DEF PipeInv, Stored
  <2>. QED
    BY <1>1, <1>2, <1>3, <2>1, <2>2
<1>6. Stored'
  BY <1>1, <1>2, <1>5, SizeIs DEF PipeInv, Stored, Filling, Walking
<1>. QED
  BY <1>1, <1>2, <1>4, <1>6, FillStep, WalkIs DEF Walking

\* The publication opens the next generation: nothing of it is handed out.
LEMMA PublishStep ==
    ASSUME Pipe!PipeAssumption, PipeInv, Pipe!Publish PROVE PipeInv'
<1>1. /\ walk.pc = "publish" /\ cur' = [gen |-> cur.gen + 1, i |-> 0]
      /\ walk' = [walk EXCEPT !.pc = "wake"] /\ UNCHANGED <<njobs, layer, eids, ready, ws, worker>>
  BY DEF Pipe!Publish
<1>2. /\ walk \in Walks /\ walk.block \in 0..Blocks /\ walk' \in Walks /\ walk'.pc = "wake"
      /\ walk'.block = walk.block /\ walk'.n = walk.n /\ walk'.q = walk.q
  BY <1>1 DEF PipeInv, PipeTypes, Walks
<1>3. /\ walk.block >= 1 /\ cur.gen = walk.block - 1
      /\ \A j \in Pipe!Slabs : j < walk.n => ~ready[j]
  BY <1>1 DEF PipeInv, Stored, Filling
<1>4. cur' \in Words /\ cur'.gen = walk.block /\ cur'.i = 0
  BY <1>1, <1>2, <1>3, SizeIs DEF Words
<1>5. PipeTypes' /\ Stored'
  BY <1>1, <1>2, <1>4, SizeIs DEF PipeInv, PipeTypes, Stored, Filling, Walks
<1>6. \A w \in Workers : ~InFlight(w)
  BY <1>1 DEF PipeInv, Exhausted, Walking
<1>7. Exhausted' /\ OneEach'
  BY <1>1, <1>2, <1>6 DEF Exhausted, OneEach, Walking, InFlight
<1>8. ASSUME NEW w \in Workers PROVE Holds(w)'
  <2>1. /\ worker[w].seen \in 0..Blocks /\ worker[w].seen <= cur.gen /\ ~InFlight(w)
        /\ worker[w].c.gen \in 0..Blocks /\ worker[w].c.gen <= cur.gen
    BY <1>6 DEF PipeInv, PipeTypes, Readers, Words, Holds
  <2>2. worker[w].seen <= cur'.gen /\ worker[w].c.gen < cur'.gen /\ cur'.gen >= 1
    BY <1>2, <1>3, <1>4, <2>1, SizeIs
  <2>3. worker[w].c.gen <= cur'.gen /\ worker[w].c.gen # cur'.gen /\ worker[w].c # cur'
    BY <1>2, <1>4, <2>1, <2>2, SizeIs
  <2>. QED
    BY <1>1, <2>1, <2>2, <2>3 DEF Holds, InFlight
<1>9. \A j \in Pipe!Slabs : Slab(j)'
  BY <1>1, <1>2, <1>3 DEF Slab
<1>. QED
  BY <1>5, <1>7, <1>8, <1>9 DEF PipeInv

\* The main thread walks: the batch and the slabs stay as they are, and workers
\* are at most woken.
LEMMA WalkStep ==
    ASSUME Pipe!PipeAssumption, PipeInv, Walking, Walking',
           UNCHANGED <<cur, njobs, layer, eids, ready, ws>>,
           worker' = worker \/ worker' = Pipe!WokenAll,
           PipeTypes', Stored', walk'.block = walk.block, walk'.n = walk.n
    PROVE  PipeInv'
<1>1. worker \in [Workers -> Readers]
  BY DEF PipeInv, PipeTypes
<1>2. ASSUME NEW w \in Workers
      PROVE  /\ worker'[w].c = worker[w].c /\ worker'[w].layer = worker[w].layer
             /\ worker'[w].eid = worker[w].eid /\ worker'[w].seen = worker[w].seen
             /\ \/ worker'[w].pc = worker[w].pc
                \/ worker'[w].pc = "parked" /\ worker[w].pc = "asleep"
  <2>1. worker[w] \in Readers
    BY <1>1
  <2>2. CASE worker' = worker
    BY <2>2
  <2>3. CASE worker' = Pipe!WokenAll
    BY <2>1, <2>3 DEF Pipe!WokenAll, Readers
  <2>. QED
    BY <2>2, <2>3
<1>3. \A w \in Workers : InFlight(w)' <=> InFlight(w)
  BY <1>2 DEF InFlight
<1>4. Exhausted' /\ OneEach'
  BY <1>2, <1>3 DEF PipeInv, Exhausted, OneEach
<1>5. ASSUME NEW w \in Workers PROVE Holds(w)'
  BY <1>2, <1>3 DEF PipeInv, Holds, InFlight
<1>6. \A j \in Pipe!Slabs : Slab(j)'
  BY DEF PipeInv, Slab
<1>. QED
  BY <1>4, <1>5, <1>6 DEF PipeInv

LEMMA WakeWaitStep ==
    ASSUME Pipe!PipeAssumption, PipeInv, Pipe!Wake \/ Pipe!Wait PROVE PipeInv'
<1>1. PICK p \in {"wait", "use"} :
        /\ walk' = [walk EXCEPT !.pc = p]
        /\ \/ p = "wait" /\ walk.pc = "wake"
           \/ p = "use" /\ walk.pc = "wait" /\ ready[walk.q]
  <2>1. CASE Pipe!Wake
    BY <2>1 DEF Pipe!Wake
  <2>2. CASE Pipe!Wait
    BY <2>2 DEF Pipe!Wait
  <2>. QED
    BY <2>1, <2>2
<1>2. /\ walk \in Walks /\ walk' \in Walks /\ walk'.pc = p /\ walk.q \in Int
      /\ walk'.block = walk.block /\ walk'.n = walk.n /\ walk'.q = walk.q
  <2>1. walk \in Walks
    BY DEF PipeInv, PipeTypes
  <2>2. /\ walk' \in Walks /\ walk'.pc = p /\ walk'.block = walk.block /\ walk'.n = walk.n
        /\ walk'.q = walk.q
    BY <1>1, <2>1 DEF Walks
  <2>. QED
    BY <2>1, <2>2, SizeIs DEF Walks
<1>3. /\ UNCHANGED <<cur, njobs, layer, eids, ready, ws>>
      /\ worker' = worker \/ worker' = Pipe!WokenAll
  BY DEF Pipe!Wake, Pipe!Wait
<1>4. PipeTypes'
  <2>1. worker \in [Workers -> Readers]
    BY DEF PipeInv, PipeTypes
  <2>2. Pipe!WokenAll \in [Workers -> Readers]
    <3>1. ASSUME NEW w \in Workers
          PROVE  [worker[w] EXCEPT !.pc = "parked"] \in Readers /\ worker[w] \in Readers
      BY <2>1 DEF Readers
    <3>. QED
      BY <3>1 DEF Pipe!WokenAll
  <2>. QED
    BY <1>2, <1>3, <2>1, <2>2 DEF PipeInv, PipeTypes
<1>5. Stored'
  <2>1. \A j \in Pipe!Slabs : j \in Int /\ j >= 0
    BY SizeIs
  <2>. QED
    BY <1>1, <1>2, <1>3, <2>1 DEF PipeInv, Stored, Filling, Walking
<1>. QED
  BY <1>1, <1>2, <1>3, <1>4, <1>5, WalkStep DEF Walking

\* The matmul with a slab is over; after the last one the block is.
LEMMA UseStep == ASSUME Pipe!PipeAssumption, PipeInv, Pipe!Use PROVE PipeInv'
<1>1. /\ walk.pc = "use" /\ UNCHANGED <<cur, njobs, layer, eids, ready, ws, worker>>
      /\ walk' = IF walk.q + 1 < walk.n THEN [walk EXCEPT !.pc = "wait", !.q = @ + 1]
                 ELSE [walk EXCEPT !.pc = "rest"]
  BY DEF Pipe!Use
<1>2. /\ walk \in Walks /\ walk.q \in 0..Size - 1 /\ walk.n \in 1..Size
      /\ walk.block \in 0..Blocks /\ walk.block >= 1 /\ walk.q < walk.n
      /\ \A j \in Pipe!Slabs : j <= walk.q => ready[j]
      /\ cur.gen = walk.block /\ cur.i \in 0..walk.n /\ njobs = walk.n
  <2>1. walk.block >= 1 /\ walk.q < walk.n /\ cur.gen = walk.block /\ cur.i <= walk.n
    BY <1>1 DEF PipeInv, Stored, Filling, Walking
  <2>2. \A j \in Pipe!Slabs : j <= walk.q => ready[j]
    BY <1>1 DEF PipeInv, Stored
  <2>3. walk.n \in 1..Size /\ cur.i \in 0..Size /\ walk.block \in 0..Blocks
    BY <2>1, WalkIs
  <2>4. njobs = walk.n
    BY <2>1, <2>3 DEF PipeInv, Stored
  <2>. QED
    BY <2>1, <2>2, <2>3, <2>4, WalkIs
<1>3. CASE walk.q + 1 < walk.n
  <2>1. /\ walk' \in Walks /\ walk'.pc = "wait" /\ walk'.q = walk.q + 1 /\ walk'.n = walk.n
        /\ walk'.block = walk.block
    <3>1. walk' = [walk EXCEPT !.pc = "wait", !.q = @ + 1] /\ walk.q + 1 \in Pipe!Slabs
      BY <1>1, <1>2, <1>3, SizeIs
    <3>. QED
      BY <1>2, <3>1 DEF Walks
  <2>2. PipeTypes'
    BY <1>1, <2>1 DEF PipeInv, PipeTypes
  <2>3. Stored'
    BY <1>1, <1>2, <1>3, <2>1, SizeIs DEF PipeInv, Stored, Filling, Walking
  <2>. QED
    BY <1>1, <2>1, <2>2, <2>3, WalkStep DEF Walking
<1>4. CASE ~(walk.q + 1 < walk.n)
  <2>1. /\ walk' \in Walks /\ walk'.pc = "rest" /\ walk'.block = walk.block
        /\ walk'.n = walk.n /\ walk.q = walk.n - 1
    BY <1>1, <1>2, <1>4, SizeIs DEF Walks
  <2>2. \A j \in 0..walk.n - 1 : ready[j]
    BY <1>2, <2>1, SizeIs
  <2>3. cur.i = walk.n
    <3>1. CASE cur.i < walk.n
      <4>1. cur.i \in Pipe!Slabs
        BY <1>2, <3>1, SizeIs
      <4>2. Slab(cur.i)
        BY <1>1, <4>1 DEF PipeInv, Walking
      <4>. QED
        BY <1>2, <2>2, <3>1, <4>1, <4>2, SizeIs DEF Slab
    <3>. QED
      BY <1>2, <3>1, SizeIs
  <2>4. \A w \in Workers : ~InFlight(w)
    <3>1. ASSUME NEW w \in Workers, InFlight(w) PROVE FALSE
      <4>1. worker[w].c.i < cur.i /\ ~ready[worker[w].c.i]
        BY <3>1 DEF PipeInv, Holds
      <4>2. worker[w].c.i \in 0..Size
        BY DEF PipeInv, PipeTypes, Readers, Words
      <4>3. worker[w].c.i \in 0..walk.n - 1
        BY <1>2, <2>3, <4>1, <4>2, SizeIs
      <4>. QED
        BY <2>2, <4>1, <4>3
    <3>. QED
      BY <3>1
  <2>5. PipeTypes'
    BY <1>1, <2>1 DEF PipeInv, PipeTypes
  <2>6. Stored'
    BY <1>1, <1>2, <2>1, SizeIs DEF PipeInv, Stored, Filling, Walking
  <2>7. Exhausted' /\ OneEach'
    BY <1>1, <1>2, <2>3, <2>4, SizeIs DEF Exhausted, OneEach, InFlight
  <2>8. \A w \in Workers : Holds(w)'
    BY <1>1, <1>2, <2>3, <2>4, SizeIs DEF PipeInv, Holds, InFlight
  <2>. QED
    BY <2>1, <2>5, <2>6, <2>7, <2>8 DEF PipeInv, Walking
<1>. QED
  BY <1>3, <1>4

Flight == {"layer", "eid", "open", "read", "ready"}

\* A thread changes its own record.
LEMMA OneThread ==
    ASSUME PipeInv, NEW w \in Workers, NEW r \in Readers, worker' = [worker EXCEPT ![w] = r]
    PROVE  /\ worker' \in [Workers -> Readers] /\ worker'[w] = r
           /\ \A v \in Workers : v # w => worker'[v] = worker[v]
  BY DEF PipeInv, PipeTypes

\* A thread without a job looks for one: it changes nothing but itself.
LEMMA IdleStep ==
    ASSUME Pipe!PipeAssumption, PipeInv, NEW w \in Workers, NEW r \in Readers,
           worker' = [worker EXCEPT ![w] = r], r.pc \notin Flight,
           UNCHANGED <<cur, njobs, layer, eids, ready, ws, walk>>,
           r.seen <= cur.gen, r.c.gen <= cur.gen, r.c.gen = cur.gen => r.c.i <= cur.i,
           r.pc \notin {"parked", "asleep"} => cur.gen >= 1,
           r.pc = "cas" /\ r.c = cur => Walking /\ cur.i < njobs
    PROVE  PipeInv'
<1>1. /\ worker' \in [Workers -> Readers] /\ worker'[w] = r
      /\ \A v \in Workers : v # w => worker'[v] = worker[v]
  BY OneThread
<1>2. \A v \in Workers : InFlight(v)' => v # w /\ InFlight(v)
  BY <1>1 DEF InFlight, Flight
<1>3. PipeTypes' /\ Stored' /\ Exhausted' /\ OneEach'
  BY <1>1, <1>2 DEF PipeInv, PipeTypes, Stored, Exhausted, OneEach, Filling, Walking
<1>4. ASSUME NEW v \in Workers PROVE Holds(v)'
  <2>1. CASE v = w
    BY <1>1, <1>2, <2>1 DEF Holds, Flight, Walking
  <2>2. CASE v # w
    BY <1>1, <2>2 DEF PipeInv, Holds, InFlight, Walking
  <2>. QED
    BY <2>1, <2>2
<1>5. Walking' => \A j \in Pipe!Slabs : Slab(j)'
  BY DEF PipeInv, Slab, Walking
<1>. QED
  BY <1>3, <1>4, <1>5 DEF PipeInv

LEMMA JobIs ==
    ASSUME Pipe!PipeAssumption, PipeInv, NEW w \in Workers, InFlight(w)
    PROVE  /\ worker[w].c.i \in Pipe!Slabs /\ worker[w].c.i < cur.i /\ ~ready[worker[w].c.i]
           /\ Walking /\ walk.block \in 0..Blocks /\ layer = walk.block
           /\ eids[worker[w].c.i] = walk.block /\ cur.i <= walk.n
           /\ worker[w].c.i < walk.n /\ walk.n \in 1..Size
<1>1. /\ worker[w].c.i \in 0..Size /\ cur.i \in 0..Size /\ walk \in Walks
  BY DEF PipeInv, PipeTypes, Readers, Words
<1>2. worker[w].c.i < cur.i /\ ~ready[worker[w].c.i] /\ Walking
  BY DEF PipeInv, Holds, Exhausted
<1>3. worker[w].c.i \in Pipe!Slabs
  BY <1>1, <1>2, SizeIs
<1>4. cur.i <= walk.n /\ walk.block >= 1
  BY <1>2 DEF PipeInv, Stored, Walking
<1>5. walk.n \in 1..Size /\ worker[w].c.i < walk.n
  BY <1>1, <1>2, <1>4, WalkIs, SizeIs
<1>. QED
  BY <1>1, <1>2, <1>3, <1>4, <1>5, WalkIs DEF PipeInv, Stored, Walking

\* A thread with a job goes on with it: of the slabs it writes but its own.
LEMMA JobStep ==
    ASSUME Pipe!PipeAssumption, PipeInv, NEW w \in Workers, NEW r \in Readers,
           InFlight(w), worker' = [worker EXCEPT ![w] = r], r.pc \in Flight,
           r.c = worker[w].c, UNCHANGED <<cur, njobs, layer, eids, ready, walk>>,
           ws' \in [Pipe!Slabs -> Jobs],
           \A j \in Pipe!Slabs : j # r.c.i => ws'[j] = ws[j], Holds(w)'
    PROVE  PipeInv'
<1>1. /\ worker' \in [Workers -> Readers] /\ worker'[w] = r
      /\ \A v \in Workers : v # w => worker'[v] = worker[v]
  BY OneThread
<1>2. /\ worker[w].c.i \in Pipe!Slabs /\ worker[w].c.i < cur.i /\ ~ready[worker[w].c.i]
      /\ Walking
  BY JobIs
<1>3. \A v \in Workers : (InFlight(v)' <=> InFlight(v)) /\ worker'[v].c = worker[v].c
  BY <1>1 DEF InFlight, Flight
<1>4. PipeTypes' /\ Stored' /\ Exhausted' /\ OneEach'
  BY <1>1, <1>2, <1>3 DEF PipeInv, PipeTypes, Stored, Exhausted, OneEach, Filling, Walking
<1>5. ASSUME NEW v \in Workers PROVE Holds(v)'
  <2>1. CASE v = w
    BY <2>1
  <2>2. CASE v # w
    <3>1. Holds(v) /\ worker'[v] = worker[v]
      BY <1>1, <2>2 DEF PipeInv
    <3>2. worker[v].pc = "ready" => ws'[worker[v].c.i] = ws[worker[v].c.i]
      <4>1. ASSUME worker[v].pc = "ready" PROVE ws'[worker[v].c.i] = ws[worker[v].c.i]
        <5>1. InFlight(v)
          BY <4>1 DEF InFlight
        <5>2. worker[v].c.i \in Pipe!Slabs /\ worker[v].c.i # worker[w].c.i
          BY <2>2, <5>1, JobIs DEF PipeInv, OneEach
        <5>. QED
          BY <5>2
      <4>. QED
        BY <4>1
    <3>. QED
      BY <3>1, <3>2 DEF Holds, InFlight, Walking
  <2>. QED
    BY <2>1, <2>2
<1>6. ASSUME NEW j \in Pipe!Slabs PROVE Slab(j)'
  BY <1>2 DEF PipeInv, Slab
<1>. QED
  BY <1>4, <1>5, <1>6 DEF PipeInv

LEMMA LookStep ==
    ASSUME Pipe!PipeAssumption, PipeInv, NEW w \in Workers,
           Pipe!Park(w) \/ Pipe!LoadCur(w) \/ Pipe!LoadNjobs(w)
    PROVE  PipeInv'
<1>1. /\ worker \in [Workers -> Readers] /\ worker[w] \in Readers /\ cur \in Words
      /\ cur.gen \in 0..Blocks /\ worker[w].seen \in 0..Blocks
  BY DEF PipeInv, PipeTypes, Readers, Words
<1>2. UNCHANGED <<cur, njobs, layer, eids, ready, ws, walk>>
  BY DEF Pipe!Park, Pipe!LoadCur, Pipe!LoadNjobs
<1>3. /\ worker[w].seen <= cur.gen /\ worker[w].c.gen <= cur.gen
      /\ worker[w].c.gen = cur.gen => worker[w].c.i <= cur.i
      /\ worker[w].pc \notin {"parked", "asleep"} => cur.gen >= 1
  BY DEF PipeInv, Holds
<1>4. CASE Pipe!Park(w)
  <2>1. PICK p \in {"asleep", "cur"} :
          /\ worker' = [worker EXCEPT ![w].pc = p]
          /\ p = "cur" => cur.gen # worker[w].seen
    BY <1>4 DEF Pipe!Park, Pipe!Goes
  <2>. DEFINE r == [worker[w] EXCEPT !.pc = p]
  <2>2. /\ r \in Readers /\ r.pc = p /\ r.seen = worker[w].seen /\ r.c = worker[w].c
        /\ worker' = [worker EXCEPT ![w] = r]
    BY <1>1, <2>1 DEF Readers
  <2>. HIDE DEF r
  <2>3. p = "cur" => cur.gen >= 1
    BY <1>1, <1>3, <2>1
  <2>. QED
    BY <1>2, <1>3, <2>2, <2>3, IdleStep DEF Flight
<1>5. CASE Pipe!LoadCur(w)
  <2>. DEFINE r == [worker[w] EXCEPT !.pc = "njobs", !.c = cur, !.seen = cur.gen]
  <2>1. /\ r \in Readers /\ r.pc = "njobs" /\ r.seen = cur.gen /\ r.c = cur
        /\ worker' = [worker EXCEPT ![w] = r]
    BY <1>1, <1>5 DEF Pipe!LoadCur, Readers
  <2>2. cur.gen >= 1
    BY <1>3, <1>5 DEF Pipe!LoadCur
  <2>. HIDE DEF r
  <2>. QED
    <3>1. r.seen <= cur.gen /\ r.c.gen <= cur.gen /\ r.c.i <= cur.i
      BY <1>1, <2>1, SizeIs, WalkIs
    <3>. QED
      BY <1>2, <2>1, <2>2, <3>1, IdleStep DEF Flight
<1>6. CASE Pipe!LoadNjobs(w)
  <2>1. PICK p \in {"parked", "cas"} :
          /\ worker' = [worker EXCEPT ![w].pc = p]
          /\ p = "cas" => ~(worker[w].c.i >= njobs)
    BY <1>6 DEF Pipe!LoadNjobs, Pipe!Goes, Pipe!Drains
  <2>. DEFINE r == [worker[w] EXCEPT !.pc = p]
  <2>2. /\ r \in Readers /\ r.pc = p /\ r.c = worker[w].c /\ r.seen = worker[w].seen
        /\ worker' = [worker EXCEPT ![w] = r]
    BY <1>1, <2>1 DEF Readers
  <2>. HIDE DEF r
  <2>3. cur.gen >= 1
    BY <1>3, <1>6 DEF Pipe!LoadNjobs
  <2>4. p = "cas" /\ r.c = cur => Walking /\ cur.i < njobs
    <3>1. cur.i \in 0..Size /\ njobs \in 0..Size /\ (~Walking => cur.i >= njobs)
      BY <2>3, WalkIs
    <3>. QED
      BY <2>1, <2>2, <3>1, SizeIs
  <2>. QED
    BY <1>2, <1>3, <2>2, <2>3, <2>4, IdleStep DEF Flight
<1>. QED
  BY <1>4, <1>5, <1>6

\* The compare-and-swap: it succeeds only while a block is walked over, and hands
\* out an index that nobody has.
LEMMA CasStep ==
    ASSUME Pipe!PipeAssumption, PipeInv, NEW w \in Workers, Pipe!Cas(w)
    PROVE  PipeInv'
<1>1. /\ worker \in [Workers -> Readers] /\ worker[w] \in Readers /\ worker[w].pc = "cas"
      /\ cur \in Words /\ cur.i \in 0..Size /\ cur.gen \in 0..Blocks
      /\ UNCHANGED <<njobs, layer, eids, ready, ws, walk>>
  BY DEF PipeInv, PipeTypes, Words, Pipe!Cas
<1>2. /\ cur.gen >= 1 /\ worker[w].seen <= cur.gen /\ worker[w].c.gen <= cur.gen
      /\ worker[w].c.gen = cur.gen => worker[w].c.i <= cur.i
      /\ worker[w].c = cur => Walking /\ cur.i < njobs
  BY <1>1 DEF PipeInv, Holds
<1>3. CASE UNCHANGED cur /\ worker' = [worker EXCEPT ![w].pc = "cur"]
  <2>. DEFINE r == [worker[w] EXCEPT !.pc = "cur"]
  <2>1. /\ r \in Readers /\ r.pc = "cur" /\ r.seen = worker[w].seen /\ r.c = worker[w].c
        /\ worker' = [worker EXCEPT ![w] = r]
    BY <1>1, <1>3 DEF Readers
  <2>. HIDE DEF r
  <2>. QED
    BY <1>1, <1>2, <1>3, <2>1, IdleStep DEF Flight
<1>4. CASE /\ cur = worker[w].c /\ cur' = [cur EXCEPT !.i = worker[w].c.i + 1]
           /\ worker' = [worker EXCEPT ![w].pc = "layer"]
  <2>. DEFINE r == [worker[w] EXCEPT !.pc = "layer"]
  <2>1. /\ r \in Readers /\ r.pc = "layer" /\ r.seen = worker[w].seen /\ r.c = cur
        /\ worker' = [worker EXCEPT ![w] = r]
    BY <1>1, <1>4 DEF Readers
  <2>. HIDE DEF r
  <2>2. /\ worker' \in [Workers -> Readers] /\ worker'[w] = r
        /\ \A v \in Workers : v # w => worker'[v] = worker[v]
    BY <2>1, OneThread
  <2>3. Walking /\ cur.i < walk.n /\ walk.n \in 1..Size
    <3>1. Walking /\ cur.i < njobs
      BY <1>2, <1>4
    <3>2. walk.block >= 1 /\ walk.block \in 0..Blocks
      BY <3>1, WalkIs DEF PipeInv, Stored, Walking
    <3>3. njobs = walk.n
      BY <3>2, SizeIs DEF PipeInv, Stored
    <3>. QED
      BY <3>1, <3>2, <3>3, WalkIs
  <2>4. cur' \in Words /\ cur'.gen = cur.gen /\ cur'.i = cur.i + 1 /\ cur.i \in Pipe!Slabs
    BY <1>1, <1>4, <2>3, SizeIs DEF Words
  <2>5. \A v \in Workers : v # w => (InFlight(v)' <=> InFlight(v))
    BY <2>2 DEF InFlight
  <2>6. PipeTypes' /\ Stored' /\ Exhausted'
    BY <1>1, <2>2, <2>3, <2>4, SizeIs
       DEF PipeInv, PipeTypes, Stored, Exhausted, Filling, Walking
  <2>7. \A v \in Workers : InFlight(v) => worker[v].c.i < cur.i /\ worker[v].c.i \in Int
    BY SizeIs, JobIs
  <2>8. OneEach'
    <3>1. ASSUME NEW v \in Workers, v # w, InFlight(v)
          PROVE  worker[v].c.i # cur.i
      BY <1>1, <2>7, <3>1
    <3>. QED
      BY <2>1, <2>2, <2>5, <3>1 DEF PipeInv, OneEach
  <2>9. ASSUME NEW v \in Workers PROVE Holds(v)'
    <3>1. CASE v = w
      <4>1. ~ready[cur.i]
        BY <1>1, <2>3, <2>4 DEF PipeInv, Slab
      <4>2. r.c.i < cur'.i /\ r.c.i <= cur'.i /\ r.c.gen <= cur'.gen /\ r.seen <= cur'.gen
        BY <1>1, <1>2, <2>1, <2>4, SizeIs
      <4>. QED
        BY <1>1, <1>2, <2>1, <2>2, <2>4, <3>1, <4>1, <4>2 DEF Holds, InFlight
    <3>2. CASE v # w
      <4>1. Holds(v) /\ worker'[v] = worker[v]
        BY <2>2, <3>2 DEF PipeInv
      <4>2. InFlight(v) => worker[v].c.i < cur'.i
        BY <1>1, <2>4, <2>7
      <4>3. worker[v].c.gen = cur.gen => worker[v].c.i <= cur'.i /\ worker[v].c # cur'
        <5>1. worker[v].c.i \in 0..Size
          BY <1>1 DEF Readers, Words
        <5>. QED
          BY <1>1, <2>4, <4>1, <5>1, SizeIs DEF Holds
      <4>. QED
        BY <1>1, <2>4, <4>1, <4>2, <4>3 DEF Holds, InFlight
    <3>. QED
      BY <3>1, <3>2
  <2>10. ASSUME NEW j \in Pipe!Slabs PROVE Slab(j)'
    <3>1. Slab(j) /\ j \in Int
      BY <2>3, SizeIs DEF PipeInv
    <3>2. j >= cur'.i => j >= cur.i
      BY <1>1, <2>4, <3>1
    <3>. QED
      BY <1>1, <3>1, <3>2 DEF Slab
  <2>. QED
    BY <2>6, <2>8, <2>9, <2>10 DEF PipeInv
<1>. QED
  BY <1>3, <1>4 DEF Pipe!Cas, Pipe!Won, Pipe!Goes

LEMMA LoadStep ==
    ASSUME Pipe!PipeAssumption, PipeInv, NEW w \in Workers,
           \/ Pipe!LoadLayer(w) \/ Pipe!LoadEid(w) \/ Pipe!LoadBegins(w) \/ Pipe!LoadEnds(w)
    PROVE  PipeInv'
<1>1. /\ worker \in [Workers -> Readers] /\ worker[w] \in Readers
      /\ ws \in [Pipe!Slabs -> Jobs]
  BY DEF PipeInv, PipeTypes
<1>2. /\ worker[w].pc \in {"layer", "eid", "open", "read"} /\ InFlight(w) /\ Holds(w)
      /\ UNCHANGED <<cur, njobs, layer, eids, ready, walk>>
  BY DEF Pipe!LoadLayer, Pipe!LoadEid, Pipe!LoadBegins, Pipe!LoadEnds, InFlight, PipeInv
<1>3. PICK q \in Pipe!Slabs : q = worker[w].c.i
  BY <1>2, JobIs
<1>4. /\ walk.block \in 0..Blocks /\ layer = walk.block /\ eids[q] = walk.block
  BY <1>2, <1>3, JobIs
<1>5. CASE Pipe!LoadLayer(w)
  <2>. DEFINE r == [worker[w] EXCEPT !.pc = "eid", !.layer = layer]
  <2>1. /\ worker' = [worker EXCEPT ![w] = r] /\ UNCHANGED ws
    BY <1>1, <1>5 DEF Pipe!LoadLayer
  <2>2. /\ r \in Readers /\ r.pc = "eid" /\ r.c = worker[w].c /\ r.layer = walk.block
        /\ r.seen = worker[w].seen
    BY <1>1, <1>4 DEF Readers
  <2>. HIDE DEF r
  <2>3. Holds(w)'
    BY <1>1, <1>2, <2>1, <2>2 DEF Holds, InFlight
  <2>. QED
    BY <1>1, <1>2, <2>1, <2>2, <2>3, JobStep DEF Flight
<1>6. CASE Pipe!LoadEid(w)
  <2>. DEFINE r == [worker[w] EXCEPT !.pc = "open", !.eid = walk.block]
  <2>1. worker' = [worker EXCEPT ![w] = r] /\ UNCHANGED ws /\ worker[w].pc = "eid"
    BY <1>1, <1>3, <1>4, <1>6 DEF Pipe!LoadEid
  <2>2. /\ r \in Readers /\ r.pc = "open" /\ r.c = worker[w].c /\ r.layer = worker[w].layer
        /\ r.seen = worker[w].seen /\ r.eid = walk.block
    BY <1>1, <1>4 DEF Readers
  <2>. HIDE DEF r
  <2>3. Holds(w)'
    BY <1>1, <1>2, <2>1, <2>2 DEF Holds, InFlight
  <2>. QED
    BY <1>1, <1>2, <2>1, <2>2, <2>3, JobStep DEF Flight
<1>7. CASE Pipe!LoadBegins(w)
  <2>. DEFINE r == [worker[w] EXCEPT !.pc = "read"]
  <2>1. /\ worker' = [worker EXCEPT ![w] = r] /\ worker[w].pc = "open"
        /\ ws' = [ws EXCEPT ![q] = Pipe!Torn]
    BY <1>1, <1>3, <1>7 DEF Pipe!LoadBegins, Pipe!Goes
  <2>2. /\ r \in Readers /\ r.pc = "read" /\ r.c = worker[w].c /\ r.layer = worker[w].layer
        /\ r.seen = worker[w].seen /\ r.eid = worker[w].eid
    BY <1>1 DEF Readers
  <2>. HIDE DEF r
  <2>3. ws' \in [Pipe!Slabs -> Jobs] /\ \A j \in Pipe!Slabs : j # q => ws'[j] = ws[j]
    BY <1>1, <2>1, SizeIs DEF Pipe!Torn, Jobs
  <2>4. Holds(w)'
    BY <1>1, <1>2, <2>1, <2>2 DEF Holds, InFlight
  <2>. QED
    BY <1>1, <1>2, <1>3, <2>1, <2>2, <2>3, <2>4, JobStep, ZenonT(60) DEF Flight
<1>8. CASE Pipe!LoadEnds(w)
  <2>. DEFINE r == [worker[w] EXCEPT !.pc = "ready"]
              job == Pipe!Job(walk.block, walk.block, q)
  <2>1. worker' = [worker EXCEPT ![w] = r] /\ worker[w].pc = "read"
    BY <1>1, <1>8 DEF Pipe!LoadEnds, Pipe!Goes
  <2>2. worker[w].layer = walk.block /\ worker[w].eid = walk.block
    BY <1>2, <2>1 DEF Holds
  <2>3. Pipe!Writing(q) = {w}
    <3>1. ASSUME NEW v \in Workers, worker[v].pc = "read", worker[v].c.i = q PROVE v = w
      BY <1>2, <1>3, <3>1 DEF PipeInv, OneEach, InFlight
    <3>. QED
      BY <1>3, <2>1, <3>1 DEF Pipe!Writing
  <2>4. ws' = [ws EXCEPT ![q] = job]
    BY <1>3, <1>8, <2>2, <2>3 DEF Pipe!LoadEnds
  <2>5. /\ r \in Readers /\ r.pc = "ready" /\ r.c = worker[w].c /\ r.layer = worker[w].layer
        /\ r.seen = worker[w].seen /\ r.eid = worker[w].eid
    BY <1>1 DEF Readers
  <2>6. job \in Jobs
    BY <1>4, SizeIs DEF Jobs, Pipe!Job
  <2>. HIDE DEF r
  <2>7. /\ ws' \in [Pipe!Slabs -> Jobs] /\ \A j \in Pipe!Slabs : j # q => ws'[j] = ws[j]
        /\ ws'[q] = job
    BY <1>1, <2>4, <2>6
  <2>8. Holds(w)'
    BY <1>1, <1>2, <1>3, <2>1, <2>2, <2>5, <2>7 DEF Holds, InFlight
  <2>. QED
    BY <1>1, <1>2, <1>3, <2>1, <2>5, <2>7, <2>8, JobStep DEF Flight
<1>. QED
  BY <1>5, <1>6, <1>7, <1>8

LEMMA SetReadyStep ==
    ASSUME Pipe!PipeAssumption, PipeInv, NEW w \in Workers, Pipe!SetReady(w)
    PROVE  PipeInv'
<1>1. /\ worker \in [Workers -> Readers] /\ worker[w] \in Readers /\ worker[w].pc = "ready"
      /\ ready \in [Pipe!Slabs -> BOOLEAN] /\ Holds(w) /\ InFlight(w)
      /\ UNCHANGED <<cur, njobs, layer, eids, ws, walk>>
  BY DEF PipeInv, PipeTypes, Pipe!SetReady, InFlight
<1>2. PICK q \in Pipe!Slabs : q = worker[w].c.i
  BY <1>1, JobIs
<1>3. /\ q < cur.i /\ Walking /\ cur.i \in 0..Size /\ cur.gen >= 1 /\ worker[w].seen <= cur.gen
      /\ ws[q] = Pipe!Job(walk.block, walk.block, q)
  BY <1>1, <1>2, JobIs DEF Holds, PipeInv, PipeTypes, Words
<1>4. ready' = [ready EXCEPT ![q] = TRUE]
  BY <1>2 DEF Pipe!SetReady
<1>5. /\ ready' \in [Pipe!Slabs -> BOOLEAN] /\ ready'[q]
      /\ \A j \in Pipe!Slabs : j # q => ready'[j] = ready[j]
      /\ \A j \in Pipe!Slabs : ready[j] => ready'[j]
  BY <1>1, <1>4
<1>. DEFINE r == [worker[w] EXCEPT !.pc = "cur"]
<1>6. /\ r \in Readers /\ r.pc = "cur" /\ r.seen = worker[w].seen /\ r.c = worker[w].c
      /\ worker' = [worker EXCEPT ![w] = r]
  BY <1>1 DEF Readers, Pipe!SetReady, Pipe!Goes
<1>. HIDE DEF r
<1>7. /\ worker' \in [Workers -> Readers] /\ worker'[w] = r
      /\ \A v \in Workers : v # w => worker'[v] = worker[v]
  BY <1>6, OneThread
<1>8. \A v \in Workers : InFlight(v)' => v # w /\ InFlight(v)
  BY <1>6, <1>7 DEF InFlight
<1>9. PipeTypes' /\ Stored' /\ Exhausted' /\ OneEach'
  BY <1>1, <1>3, <1>5, <1>7, <1>8
     DEF PipeInv, PipeTypes, Stored, Exhausted, OneEach, Filling, Walking
<1>10. ASSUME NEW v \in Workers PROVE Holds(v)'
  <2>1. CASE v = w
    BY <1>1, <1>3, <1>6, <1>7, <2>1 DEF Holds, InFlight, Walking
  <2>2. CASE v # w
    <3>1. Holds(v) /\ worker'[v] = worker[v]
      BY <1>7, <2>2 DEF PipeInv
    <3>2. InFlight(v) => ~ready'[worker[v].c.i]
      <4>1. ASSUME InFlight(v) PROVE ~ready'[worker[v].c.i]
        <5>1. /\ worker[v].c.i \in Pipe!Slabs /\ worker[v].c.i # q /\ ~ready[worker[v].c.i]
          BY <1>1, <1>2, <2>2, <4>1, JobIs DEF PipeInv, OneEach
        <5>. QED
          BY <1>5, <5>1
      <4>. QED
        BY <4>1
    <3>. QED
      BY <1>1, <3>1, <3>2 DEF Holds, InFlight, Walking
  <2>. QED
    BY <2>1, <2>2
<1>11. ASSUME NEW j \in Pipe!Slabs PROVE Slab(j)'
  <2>1. CASE j = q
    BY <1>1, <1>3, <2>1, SizeIs DEF Slab
  <2>2. CASE j # q
    BY <1>1, <1>3, <1>5, <2>2 DEF PipeInv, Slab
  <2>. QED
    BY <2>1, <2>2
<1>. QED
  BY <1>9, <1>10, <1>11 DEF PipeInv

LEMMA PipeNext ==
    ASSUME Pipe!PipeAssumption, PipeInv, [Next]_vars, [NoGrowth]_vars
    PROVE  PipeInv'
<1>1. ASSUME UNCHANGED pipeVars PROVE PipeInv'
  BY <1>1 DEF pipeVars, PipeInv, PipeTypes, Stored, Exhausted, OneEach, Holds, Slab,
              InFlight, Filling, Walking
<1>2. Pipe!Main \/ (\E w \in Workers : Pipe!Work(w)) \/ UNCHANGED pipeVars
  BY DEF Next, PipeSteps, PilotSteps, UringSteps, RepinSteps, vars, Pipe!Next, Pipe!Spin,
         Pipe!Ended, Pipe!vars, pipeVars
<1>3. NoGrowth \/ UNCHANGED pipeVars
  BY DEF vars
<1>4. ASSUME Pipe!Main, NoGrowth PROVE PipeInv'
  BY <1>4, BlockBeginsStep, StoreLayerStep, StoreEidStep, ResetReadyStep, PublishStep,
     WakeWaitStep, UseStep DEF Pipe!Main
<1>5. ASSUME NEW w \in Workers, Pipe!Work(w) PROVE PipeInv'
  BY <1>5, LookStep, CasStep, LoadStep, SetReadyStep DEF Pipe!Work
<1>. QED
  BY <1>1, <1>2, <1>3, <1>4, <1>5

LEMMA PipeAlways == Spec /\ [][NoGrowth]_vars => []PipeInv
<1>1. Pipe!PipeAssumption
  BY GlmExpertsAssumption
<1>2. Init => PipeInv
  BY <1>1, PipeInit DEF Init
<1>3. PipeInv /\ [Next]_vars /\ [NoGrowth]_vars => PipeInv'
  BY <1>1, PipeNext
<1>. QED
  BY <1>2, <1>3, PTL DEF Spec

\* Blocks of one size do not grow.
LEMMA OneSizeNeverGrows ==
    ASSUME NEW n, Sizes = {n}
    PROVE  Spec => [][NoGrowth]_vars
<1>1. Pipe!PipeAssumption
  BY GlmExpertsAssumption
<1>2. Init => PipeInv
  BY <1>1, PipeInit DEF Init
<1>3. PipeInv /\ [Next]_vars => [NoGrowth]_vars
  <2>. SUFFICES ASSUME PipeInv, Next, walk.block > 0 PROVE njobs' <= njobs
    BY DEF NoGrowth
  <2>1. n \in Nat /\ njobs = n
    <3>1. walk.block >= 1 /\ walk.block # 0
      BY <1>1, WalkIs
    <3>. QED
      BY <1>1, <3>1, SizeIs DEF PipeInv, Stored
  <2>2. njobs' \in Sizes \/ njobs' = njobs
    BY DEF Next, PipeSteps, PilotSteps, UringSteps, RepinSteps, pipeVars, Pipe!Next, Pipe!Main,
           Pipe!Work, Pipe!Spin, Pipe!Ended, Pipe!vars, Pipe!BlockBegins, Pipe!StoreLayer,
           Pipe!StoreEid, Pipe!ResetReady, Pipe!Publish, Pipe!Wake, Pipe!Wait, Pipe!Use,
           Pipe!Park, Pipe!LoadCur, Pipe!LoadNjobs, Pipe!Cas, Pipe!LoadLayer, Pipe!LoadEid,
           Pipe!LoadBegins, Pipe!LoadEnds, Pipe!SetReady
  <2>. QED
    BY <2>1, <2>2
<1>4. PipeInv /\ [Next]_vars => PipeInv'
  BY <1>1, <1>3, PipeNext
<1>. QED
  BY <1>2, <1>3, <1>4, PTL DEF Spec

\* What the runs ask of the pipeline.
LEMMA PipeSound ==
           PipeInv => Pipe!TypeOK /\ Pipe!OneReader /\ Pipe!Drained /\ Pipe!UsesLoaded
<1>1. Pipe!PipeAssumption
  BY GlmExpertsAssumption
<1>. SUFFICES ASSUME PipeInv
              PROVE  Pipe!TypeOK /\ Pipe!OneReader /\ Pipe!Drained /\ Pipe!UsesLoaded
  OBVIOUS
<1>2. Pipe!TypeOK
  <2>1. /\ cur.gen \in 0..Blocks /\ cur.i \in 0..Size /\ walk.q \in Pipe!Slabs
        /\ \A w \in Workers : worker[w].c.i \in 0..Size /\ worker[w].seen \in 0..Blocks
    BY DEF PipeInv, PipeTypes, Words, Walks, Readers
  <2>2. njobs \in Sizes \cup {0}
    <3>1. walk.block = 0 \/ walk.block >= 1
      BY <1>1, WalkIs
    <3>. QED
      BY <1>1, <3>1, WalkIs DEF PipeInv, Stored
  <2>. QED
    BY <1>1, <2>1, <2>2, SizeIs DEF PipeInv, PipeTypes, Pipe!TypeOK
<1>3. Pipe!OneReader
  BY DEF PipeInv, OneEach, InFlight, Pipe!OneReader
<1>4. Pipe!Drained
  BY DEF PipeInv, Exhausted, Walking, InFlight, Pipe!Drained
<1>5. ASSUME walk.pc = "use" PROVE ws[walk.q] = Pipe!Job(walk.block, walk.block, walk.q)
  <2>1. walk.q \in Pipe!Slabs /\ walk.q <= walk.q
    BY <1>1, SizeIs DEF PipeInv, PipeTypes, Walks
  <2>2. ready[walk.q] /\ Slab(walk.q) /\ walk.q < walk.n
    BY <1>5, <2>1 DEF PipeInv, Stored, Walking
  <2>. QED
    BY <2>2 DEF Slab
<1>. QED
  BY <1>2, <1>3, <1>4, <1>5 DEF Pipe!UsesLoaded

-----------------------------------------------------------------------------
(* The batches over io_uring (URING), while io_uring_enter does not fail.    *)

Slabs == [eid : Read \cup {Batch!Nobody}, state : {"free", "reserved", "ready"},
          data : [Parts -> Read \cup {Batch!Torn}]]
Loads == [slot : Slots, eid : Read, pending : Nat, done : BOOLEAN, error : BOOLEAN]
Submissions == [ud : Nat, slot : Slots, part : Parts, eid : Read]
Completions == [ud : Nat, whole : BOOLEAN]

BatchTypes ==
  /\ slots \in [Slots -> Slabs] /\ load \in Seq(Loads) /\ req \in Seq(Nat)
  /\ sq \in Seq(Submissions) /\ flight \in SUBSET Submissions /\ cq \in Seq(Completions)
  /\ pc \in {"fill", "reap", "wait"} /\ li \in 1..Len(load) \cup {1}
  /\ Len(load) <= LoadMax /\ (pc = "fill" => li = 1) /\ (pc # "fill" => li <= Len(load))
  /\ \A i \in 1..Len(req) : req[i] \in 1..Len(load)

\* a read, queued or under way, is one that a load of this batch asked for
Asked(r) ==
  /\ r.ud \in 1..Len(req)
  /\ load[req[r.ud]].slot = r.slot /\ load[req[r.ud]].eid = r.eid

\* a request is queued once, or under way, or completed
Requested ==
  /\ \A r \in flight : Asked(r)
  /\ \A i \in 1..Len(sq) : Asked(sq[i])
  /\ \A i \in 1..Len(cq) : cq[i].ud \in 1..Len(req)
  /\ \A r, q \in flight : r.ud = q.ud => r = q
  /\ \A i, j \in 1..Len(sq) : sq[i].ud = sq[j].ud => i = j
  /\ \A i, j \in 1..Len(cq) : cq[i].ud = cq[j].ud => i = j
  /\ \A r \in flight, i \in 1..Len(sq) : sq[i].ud # r.ud
  /\ \A r \in flight, i \in 1..Len(cq) : cq[i].ud # r.ud
  /\ \A i \in 1..Len(sq), j \in 1..Len(cq) : sq[i].ud # cq[j].ud

\* the requests of load k that are not answered, or answered and not reaped
Unread(k) ==
  {u \in 1..Len(req) : req[u] = k /\ \/ \E r \in flight : r.ud = u
                                     \/ \E i \in 1..Len(sq) : sq[i].ud = u
                                     \/ \E i \in 1..Len(cq) : cq[i].ud = u}

\* a load counts them, and is over when there is none
Counts ==
  \A k \in 1..Len(load) :
    /\ IsFiniteSet(Unread(k)) /\ load[k].pending = Cardinality(Unread(k))
    /\ load[k].done <=> load[k].pending = 0
    /\ k < li => load[k].done

\* a load that is not published has its slot to itself
Reserved ==
  /\ \A k \in 1..Len(load) : k >= li =>
       slots[load[k].slot].state = "reserved" /\ slots[load[k].slot].eid = load[k].eid
  /\ \A j, k \in 1..Len(load) : load[j].slot = load[k].slot => j = k

\* a part of its expert that is not in the slot is still to be read, or its
\* load has an error or will have
Arrives(k, p) ==
  \/ slots[load[k].slot].data[p] = load[k].eid
  \/ load[k].error
  \/ \E r \in flight : req[r.ud] = k /\ r.part = p
  \/ \E i \in 1..Len(sq) : req[sq[i].ud] = k /\ sq[i].part = p
  \/ \E i \in 1..Len(cq) : req[cq[i].ud] = k /\ ~cq[i].whole
Arriving == \A k \in 1..Len(load), p \in Parts : k >= li => Arrives(k, p)

BatchInv ==
  BatchTypes /\ Requested /\ Counts /\ Reserved /\ Arriving /\ Batch!PublishedWhole

LEMMA BatchCardinalities ==
    ASSUME NEW S
    PROVE  Batch!Cardinality(S) = Cardinality(S) /\ (Batch!IsFiniteSet(S) <=> IsFiniteSet(S))
<1>1. Batch!Cardinality(S) = Cardinality(S)
  BY DEF Batch!Cardinality, Cardinality
<1>2. Batch!IsFiniteSet(S) <=> IsFiniteSet(S)
  BY DEF Batch!IsFiniteSet, IsFiniteSet
<1>. QED
  BY <1>1, <1>2

\* The reads of one expert: every part once.
LEMMA PartsListed ==
    ASSUME Batch!UringAssumption
    PROVE  \E n \in Nat \ {0} : /\ Batch!SetToSeq(Parts) \in [1..n -> Parts]
                                /\ \A p \in Parts : \E k \in 1..n : Batch!SetToSeq(Parts)[k] = p
<1>. DEFINE n == Cardinality(Parts)
            f == Batch!SetToSeq(Parts)
<1>1. IsFiniteSet(Parts) /\ n \in Nat /\ n # 0 /\ ExistsBijection(1..n, Parts)
  BY FS_CardinalityType, FS_EmptySet, BatchCardinalities DEF Batch!UringAssumption
<1>2. f \in [1..n -> Parts] /\ Batch!IsInjective(f)
  <2>1. PICK g \in Bijection(1..n, Parts) : TRUE
    BY <1>1 DEF ExistsBijection
  <2>2. g \in [1..n -> Parts] /\ Batch!IsInjective(g)
    BY <2>1 DEF Bijection, Injection, IsInjective, Batch!IsInjective
  <2>3. Batch!SetToSeq(Parts) = CHOOSE h \in [1..n -> Parts] : Batch!IsInjective(h)
    BY BatchCardinalities DEF Batch!SetToSeq
  <2>. QED
    BY <2>2, <2>3
<1>3. f \in Injection(1..n, Parts)
  BY <1>2 DEF Injection, IsInjective, Batch!IsInjective
<1>4. Cardinality(1..n) = n
  BY <1>1, FS_Interval
<1>5. f \in Surjection(1..n, Parts)
  BY <1>1, <1>3, <1>4, FS_Injection
<1>. HIDE DEF n, f
<1>6. \A p \in Parts : \E k \in 1..n : f[k] = p
  BY <1>5 DEF Surjection
<1>. QED
  BY <1>1, <1>2, <1>6 DEF f

LEMMA BatchInit == ASSUME Batch!UringAssumption, Batch!Init PROVE BatchInv
<1>1. /\ pc = "fill" /\ load = <<>> /\ req = <<>> /\ sq = <<>> /\ flight = {} /\ cq = <<>>
      /\ slots = [s \in Slots |-> [eid |-> Batch!Nobody, state |-> "free",
                                   data |-> [p \in Parts |-> Batch!Torn]]]
      /\ li = 1
  BY DEF Batch!Init
<1>2. Len(load) = 0 /\ Len(req) = 0 /\ Len(sq) = 0 /\ Len(cq) = 0
  BY <1>1
<1>3. BatchTypes
  <2>1. load \in Seq(Loads) /\ req \in Seq(Nat) /\ sq \in Seq(Submissions)
        /\ cq \in Seq(Completions)
    BY <1>1
  <2>2. slots \in [Slots -> Slabs]
    BY <1>1 DEF Slabs
  <2>. QED
    BY <1>1, <1>2, <2>1, <2>2 DEF BatchTypes, Batch!UringAssumption
<1>4. Requested /\ Counts /\ Reserved /\ Arriving /\ Batch!PublishedWhole
  <2>1. Requested
    BY <1>1, <1>2 DEF Requested
  <2>2. Counts /\ Reserved /\ Arriving
    BY <1>2 DEF Counts, Reserved, Arriving
  <2>3. Batch!PublishedWhole
    BY <1>1 DEF Batch!PublishedWhole
  <2>. QED
    BY <2>1, <2>2, <2>3
<1>. QED
  BY <1>3, <1>4 DEF BatchInv

\* What is in the ring and in the batch has its type, record by record.
LEMMA BatchIs ==
    ASSUME BatchInv
    PROVE  /\ \A k \in 1..Len(load) : load[k] \in Loads
           /\ \A i \in 1..Len(sq) : sq[i] \in Submissions
           /\ \A r \in flight : r \in Submissions
           /\ \A i \in 1..Len(cq) : cq[i] \in Completions
           /\ Len(load) \in Nat /\ Len(req) \in Nat /\ Len(sq) \in Nat /\ Len(cq) \in Nat
           /\ \A i \in 1..Len(req) : req[i] \in 1..Len(load)
           /\ li \in Nat /\ li >= 1
<1>. load \in Seq(Loads) /\ req \in Seq(Nat) /\ sq \in Seq(Submissions)
     /\ flight \in SUBSET Submissions /\ cq \in Seq(Completions) /\ li \in 1..Len(load) \cup {1}
     /\ \A i \in 1..Len(req) : req[i] \in 1..Len(load)
  BY DEF BatchInv, BatchTypes
<1>. QED
  OBVIOUS

\* A read writes a slot that its load has to itself.
LEMMA ReadsReserved ==
    ASSUME BatchInv, NEW r, r \in flight \/ \E i \in 1..Len(sq) : r = sq[i]
    PROVE  /\ r.ud \in 1..Len(req) /\ req[r.ud] \in 1..Len(load) /\ req[r.ud] >= li
           /\ load[req[r.ud]].slot = r.slot /\ load[req[r.ud]].eid = r.eid
           /\ slots[r.slot].state = "reserved" /\ slots[r.slot].eid = r.eid
<1>1. Asked(r)
  BY DEF BatchInv, Requested
<1>2. PICK k \in 1..Len(load) : k = req[r.ud]
  BY <1>1, BatchIs DEF Asked
<1>3. r.ud \in Unread(k)
  BY <1>1, <1>2 DEF Asked, Unread
<1>4. ~load[k].done
  <2>1. IsFiniteSet(Unread(k)) /\ load[k].pending = Cardinality(Unread(k))
        /\ (load[k].done <=> load[k].pending = 0)
    BY DEF BatchInv, Counts
  <2>. QED
    BY <1>3, <2>1, FS_EmptySet
<1>5. ~(k < li)
  BY <1>4 DEF BatchInv, Counts
<1>6. k >= li
  BY <1>5, BatchIs
<1>. QED
  BY <1>1, <1>2, <1>6 DEF Asked, BatchInv, Reserved

\* The kernel takes what is queued, in order: nothing is lost of it, and what it
\* may overwrite is still to be read.
LEMMA TakenStep ==
    ASSUME Batch!UringAssumption, BatchInv, Batch!Taken, load # <<>>, pc' = "reap",
           UNCHANGED <<load, req, cq, li>>
    PROVE  BatchInv'
<1>1. PICK n \in 1..Len(sq) :
        /\ sq' = SubSeq(sq, n + 1, Len(sq))
        /\ flight' = flight \cup {sq[k] : k \in 1..n}
        /\ slots' = Batch!Overwritten({sq[k] : k \in 1..n})
  BY DEF Batch!Taken
<1>2. /\ load' = load /\ req' = req /\ cq' = cq /\ li' = li
      /\ Len(load) \in Nat /\ Len(req) \in Nat /\ Len(sq) \in Nat /\ Len(cq) \in Nat
  BY BatchIs
<1>3. /\ sq' \in Seq(Submissions) /\ Len(sq') = Len(sq) - n
      /\ \A i \in 1..Len(sq') : n + i \in 1..Len(sq) /\ sq'[i] = sq[n + i]
  <2>1. sq \in Seq(Submissions) /\ n + 1 \in Nat
    BY DEF BatchInv, BatchTypes
  <2>2. n \in Nat /\ 1 <= n /\ n <= Len(sq)
    BY <1>2
  <2>. QED
    BY <1>1, <1>2, <2>1, <2>2, SMTT(60)
<1>4. /\ \A r \in flight' : r \in flight \/ \E k \in 1..n : k \in 1..Len(sq) /\ r = sq[k]
      /\ \A r \in flight : r \in flight'
      /\ \A k \in 1..Len(sq) : \/ k \in 1..n /\ sq[k] \in flight'
                               \/ \E i \in 1..Len(sq') : k = n + i /\ sq[k] = sq'[i]
  <2>1. \A r \in flight' : r \in flight \/ \E k \in 1..n : k \in 1..Len(sq) /\ r = sq[k]
    BY <1>1, <1>2
  <2>2. ASSUME NEW k \in 1..Len(sq), ~(k \in 1..n)
        PROVE  k - n \in 1..Len(sq') /\ k = n + (k - n)
    BY <1>1, <1>2, <1>3, <2>2
  <2>3. \A k \in 1..Len(sq) : \/ k \in 1..n /\ sq[k] \in flight'
                              \/ \E i \in 1..Len(sq') : k = n + i /\ sq[k] = sq'[i]
    BY <1>1, <1>3, <2>2
  <2>. QED
    BY <1>1, <2>1, <2>3
<1>5. /\ slots' \in [Slots -> Slabs]
      /\ \A s \in Slots : slots'[s].eid = slots[s].eid /\ slots'[s].state = slots[s].state
      /\ \A s \in Slots, p \in Parts :
           \/ slots'[s].data[p] = slots[s].data[p]
           \/ \E k \in 1..n : sq[k].slot = s /\ sq[k].part = p
  <2>. DEFINE New(s) == [p \in Parts |-> IF \E r \in {sq[k] : k \in 1..n} : r.slot = s /\ r.part = p
                                         THEN Batch!Torn ELSE slots[s].data[p]]
  <2>1. slots' = [s \in Slots |-> [slots[s] EXCEPT !.data = New(s)]]
    BY <1>1 DEF Batch!Overwritten
  <2>2. slots \in [Slots -> Slabs]
    BY DEF BatchInv, BatchTypes
  <2>3. ASSUME NEW s \in Slots
        PROVE  /\ New(s) \in [Parts -> Read \cup {Batch!Torn}]
               /\ \A p \in Parts : New(s)[p] = slots[s].data[p]
                                   \/ \E k \in 1..n : sq[k].slot = s /\ sq[k].part = p
    <3>1. slots[s].data \in [Parts -> Read \cup {Batch!Torn}]
      BY <2>2 DEF Slabs
    <3>. QED
      BY <3>1
  <2>. HIDE DEF New
  <2>4. ASSUME NEW s \in Slots
        PROVE  /\ slots'[s] \in Slabs /\ slots'[s].eid = slots[s].eid
               /\ slots'[s].state = slots[s].state /\ slots'[s].data = New(s)
    BY <2>1, <2>2, <2>3 DEF Slabs
  <2>. QED
    BY <2>1, <2>3, <2>4
<1>6. BatchTypes'
  <2>1. flight' \in SUBSET Submissions
    BY <1>4, BatchIs
  <2>2. li' <= Len(load')
    <3>1. Len(load) # 0
      BY DEF BatchInv, BatchTypes
    <3>. QED
      BY <1>2, <3>1 DEF BatchInv, BatchTypes
  <2>. QED
    BY <1>2, <1>3, <1>5, <2>1, <2>2 DEF BatchInv, BatchTypes
<1>7. Requested'
  <2>1. \A r \in flight' : Asked(r)'
    BY <1>2, <1>4 DEF BatchInv, Requested, Asked
  <2>0. /\ \A i \in 1..Len(sq) : Asked(sq[i])
        /\ \A i, j \in 1..Len(sq) : sq[i].ud = sq[j].ud => i = j
        /\ \A r \in flight, i \in 1..Len(sq) : sq[i].ud # r.ud
        /\ \A i \in 1..Len(sq), j \in 1..Len(cq) : sq[i].ud # cq[j].ud
    BY DEF BatchInv, Requested
  <2>2. \A i \in 1..Len(sq') : Asked(sq[i])'
    <3>1. ASSUME NEW i \in 1..Len(sq') PROVE Asked(sq[n + i])
      BY <1>3, <2>0
    <3>. QED
      BY <1>2, <1>3, <3>1 DEF Asked
  <2>3. \A r, q \in flight' : r.ud = q.ud => r = q
    BY <1>4 DEF BatchInv, Requested
  <2>4. \A i, j \in 1..Len(sq') : sq'[i].ud = sq'[j].ud => i = j
    <3>1. ASSUME NEW i \in 1..Len(sq'), NEW j \in 1..Len(sq'), sq'[i].ud = sq'[j].ud
          PROVE  n + i = n + j
      <4>1. n + i \in 1..Len(sq) /\ n + j \in 1..Len(sq) /\ sq[n + i].ud = sq[n + j].ud
        BY <1>3, <3>1
      <4>. QED
        BY <2>0, <4>1
    <3>2. \A i, j \in 1..Len(sq') : n + i = n + j => i = j
      BY <1>2, <1>3
    <3>. QED
      BY <3>1, <3>2
  <2>5. \A r \in flight', i \in 1..Len(sq') : sq'[i].ud # r.ud
    <3>1. ASSUME NEW k \in 1..n, k \in 1..Len(sq), NEW i \in 1..Len(sq') PROVE sq'[i].ud # sq[k].ud
      <4>1. n + i # k
        BY <1>2, <1>3
      <4>. QED
        BY <1>3, <3>1, <4>1 DEF BatchInv, Requested
    <3>. QED
      BY <1>3, <1>4, <3>1 DEF BatchInv, Requested
  <2>6. \A r \in flight', i \in 1..Len(cq) : cq[i].ud # r.ud
    BY <1>4 DEF BatchInv, Requested
  <2>7. \A i \in 1..Len(sq'), j \in 1..Len(cq) : sq'[i].ud # cq[j].ud
    <3>1. ASSUME NEW i \in 1..Len(sq'), NEW j \in 1..Len(cq) PROVE sq[n + i].ud # cq[j].ud
      BY <1>3, <2>0
    <3>. QED
      BY <1>3, <3>1
  <2>8. /\ \A i \in 1..Len(cq) : cq[i].ud \in 1..Len(req)
        /\ \A i, j \in 1..Len(cq) : cq[i].ud = cq[j].ud => i = j
    BY DEF BatchInv, Requested
  <2>. QED
    BY <1>2, <2>1, <2>2, <2>3, <2>4, <2>5, <2>6, <2>7, <2>8 DEF Requested
<1>8. Counts'
  <2>1. ASSUME NEW u
        PROVE  (\E r \in flight' : r.ud = u) \/ (\E i \in 1..Len(sq') : sq'[i].ud = u)
               <=> (\E r \in flight : r.ud = u) \/ (\E i \in 1..Len(sq) : sq[i].ud = u)
    <3>1. ASSUME NEW r \in flight', r.ud = u
          PROVE  (\E q \in flight : q.ud = u) \/ \E i \in 1..Len(sq) : sq[i].ud = u
      BY <1>4, <3>1
    <3>2. ASSUME NEW i \in 1..Len(sq'), sq'[i].ud = u
          PROVE  n + i \in 1..Len(sq) /\ sq[n + i].ud = u
      BY <1>3, <3>2
    <3>3. ASSUME NEW r \in flight, r.ud = u PROVE r \in flight'
      BY <1>4
    <3>4. ASSUME NEW i \in 1..Len(sq), sq[i].ud = u
          PROVE  (\E q \in flight' : q.ud = u) \/ \E j \in 1..Len(sq') : sq'[j].ud = u
      BY <1>4, <3>4
    <3>. QED
      BY <3>1, <3>2, <3>3, <3>4
  <2>2. ASSUME NEW k PROVE Unread(k)' = Unread(k)
    BY <1>2, <2>1 DEF Unread
  <2>. QED
    BY <1>2, <2>2 DEF BatchInv, Counts
<1>9. Reserved'
  <2>1. \A k \in 1..Len(load) : load[k].slot \in Slots
    BY BatchIs DEF Loads
  <2>. QED
    BY <1>2, <1>5, <2>1 DEF BatchInv, Reserved
<1>10. Arriving'
  <2>1. ASSUME NEW k \in 1..Len(load), NEW p \in Parts, k >= li PROVE Arrives(k, p)'
    <3>1. Arrives(k, p)
      BY <2>1 DEF BatchInv, Arriving
    <3>2. CASE \E i \in 1..n : sq[i].slot = load[k].slot /\ sq[i].part = p
      <4>1. PICK i \in 1..n : sq[i].slot = load[k].slot /\ sq[i].part = p
        BY <3>2
      <4>2. i \in 1..Len(sq) /\ sq[i] \in flight'
        BY <1>1, <1>2
      <4>3. load[req[sq[i].ud]].slot = load[k].slot /\ req[sq[i].ud] \in 1..Len(load)
        BY <4>1, <4>2, ReadsReserved
      <4>4. req[sq[i].ud] = k
        BY <4>3 DEF BatchInv, Reserved
      <4>. QED
        BY <1>2, <4>1, <4>2, <4>4 DEF Arrives
    <3>3. CASE ~ \E i \in 1..n : sq[i].slot = load[k].slot /\ sq[i].part = p
      <4>1. load[k].slot \in Slots
        BY BatchIs DEF Loads
      <4>2. slots'[load[k].slot].data[p] = slots[load[k].slot].data[p]
        BY <1>5, <3>3, <4>1
      <4>3. ASSUME NEW i \in 1..Len(sq), req[sq[i].ud] = k, sq[i].part = p
            PROVE  \/ \E r \in flight' : req[r.ud] = k /\ r.part = p
                   \/ \E j \in 1..Len(sq') : req[sq'[j].ud] = k /\ sq'[j].part = p
        BY <1>4, <4>3
      <4>. QED
        BY <1>2, <1>4, <3>1, <4>2, <4>3 DEF Arrives
    <3>. QED
      BY <3>2, <3>3
  <2>. QED
    BY <1>2, <2>1 DEF Arriving
<1>11. Batch!PublishedWhole'
  <2>1. ASSUME NEW s \in Slots, slots'[s].state = "ready", NEW p \in Parts
        PROVE  slots'[s].data[p] = slots'[s].eid
    <3>1. slots[s].state = "ready" /\ slots'[s].eid = slots[s].eid
      BY <1>5, <2>1
    <3>2. \A k \in 1..n : sq[k].slot # s
      <4>1. ASSUME NEW k \in 1..n PROVE slots[sq[k].slot].state = "reserved"
        <5>1. k \in 1..Len(sq)
          BY <1>1, <1>2
        <5>. QED
          BY <5>1, ReadsReserved
      <4>. QED
        BY <3>1, <4>1
    <3>. QED
      BY <1>5, <3>1, <3>2 DEF BatchInv, Batch!PublishedWhole
  <2>. QED
    BY <2>1 DEF Batch!PublishedWhole
<1>. QED
  BY <1>6, <1>7, <1>8, <1>9, <1>10, <1>11 DEF BatchInv

\* A reservation takes a slot no load of the batch has.
LEMMA SlotReserved ==
    ASSUME BatchInv, NEW s \in Slots, NEW e \in Read, pc = "fill", Batch!Victim(s),
           slots' = [slots EXCEPT ![s].eid = e, ![s].state = "reserved"]
    PROVE  /\ slots' \in [Slots -> Slabs] /\ li = 1
           /\ slots'[s].eid = e /\ slots'[s].state = "reserved"
           /\ \A t \in Slots : t # s => slots'[t] = slots[t]
           /\ \A k \in 1..Len(load) : load[k].slot \in Slots /\ load[k].slot # s
           /\ Batch!PublishedWhole'
<1>1. slots \in [Slots -> Slabs] /\ li = 1
  BY DEF BatchInv, BatchTypes
<1>2. slots[s].state # "reserved"
  BY <1>1 DEF Batch!Victim
<1>3. /\ slots' = [slots EXCEPT ![s] = [slots[s] EXCEPT !.eid = e, !.state = "reserved"]]
      /\ slots[s] \in Slabs
  BY <1>1
<1>4. /\ [slots[s] EXCEPT !.eid = e, !.state = "reserved"] \in Slabs
      /\ slots'[s].eid = e /\ slots'[s].state = "reserved"
  BY <1>1, <1>3 DEF Slabs
<1>5. slots' \in [Slots -> Slabs] /\ \A t \in Slots : t # s => slots'[t] = slots[t]
  BY <1>1, <1>3, <1>4
<1>6. ASSUME NEW k \in 1..Len(load) PROVE load[k].slot \in Slots /\ load[k].slot # s
  <2>1. load[k] \in Loads /\ k >= li
    BY <1>1, BatchIs
  <2>2. slots[load[k].slot].state = "reserved"
    BY <2>1 DEF BatchInv, Reserved
  <2>. QED
    BY <1>2, <2>1, <2>2 DEF Loads
<1>7. Batch!PublishedWhole'
  <2>1. ASSUME NEW t \in Slots, slots'[t].state = "ready" PROVE t # s
    BY <1>4, <2>1
  <2>. QED
    BY <1>5, <2>1 DEF BatchInv, Batch!PublishedWhole
<1>. QED
  BY <1>1, <1>4, <1>5, <1>6, <1>7

\* The tensors of the expert are not found: the load is over at once.
LEMMA NoTensorStep ==
    ASSUME Batch!UringAssumption, BatchInv, NEW s \in Slots, NEW e \in Read,
           Batch!Reserve(s, e), Batch!NoTensor(s, e)
    PROVE  BatchInv'
<1>. DEFINE l == [slot |-> s, eid |-> e, pending |-> 0, done |-> TRUE, error |-> TRUE]
            n == Len(load)
<1>1. /\ pc = "fill" /\ Len(load) < LoadMax /\ Batch!Victim(s)
      /\ slots' = [slots EXCEPT ![s].eid = e, ![s].state = "reserved"]
      /\ load' = Append(load, l) /\ pc' = pc /\ req' = req /\ sq' = sq
      /\ flight' = flight /\ cq' = cq /\ li' = li
  BY DEF Batch!Reserve, Batch!NoTensor, Batch!Room
<1>2. /\ slots' \in [Slots -> Slabs] /\ li = 1
      /\ slots'[s].eid = e /\ slots'[s].state = "reserved"
      /\ \A t \in Slots : t # s => slots'[t] = slots[t]
      /\ \A k \in 1..Len(load) : load[k].slot \in Slots /\ load[k].slot # s
      /\ Batch!PublishedWhole'
  BY <1>1, SlotReserved
<1>3. l \in Loads
  BY DEF Loads
<1>4. /\ l.slot = s /\ l.eid = e /\ l.pending = 0 /\ l.done /\ l.error
  OBVIOUS
<1>. HIDE DEF l
<1>5. /\ load' \in Seq(Loads) /\ Len(load') = n + 1 /\ n \in Nat /\ load'[n + 1] = l
      /\ \A k \in 1..n : load'[k] = load[k]
  BY <1>1, <1>3 DEF BatchInv, BatchTypes
<1>6. /\ \A i \in 1..Len(req) : req[i] \in 1..n
      /\ \A k \in 1..Len(load') : k = n + 1 \/ k \in 1..n
      /\ \A k \in 1..n : k \in 1..Len(load')
  BY <1>5, BatchIs
<1>. HIDE DEF n
<1>7. BatchTypes'
  <2>1. /\ Len(load') <= LoadMax /\ li' \in 1..Len(load') \cup {1}
        /\ \A i \in 1..Len(req) : req[i] \in 1..Len(load')
    BY <1>1, <1>2, <1>5, <1>6 DEF Batch!UringAssumption, n
  <2>. QED
    BY <1>1, <1>2, <1>5, <2>1 DEF BatchInv, BatchTypes
<1>8. Requested'
  <2>1. ASSUME NEW r, Asked(r) PROVE Asked(r)'
    BY <1>1, <1>5, <1>6, <2>1 DEF Asked
  <2>2. /\ \A r \in flight : Asked(r)
        /\ \A i \in 1..Len(sq) : Asked(sq[i])
    BY DEF BatchInv, Requested
  <2>3. /\ \A r \in flight' : Asked(r)'
        /\ \A i \in 1..Len(sq') : Asked(sq[i])'
    <3>1. \A i \in 1..Len(sq) : Asked(sq[i])'
      <4>1. ASSUME NEW i \in 1..Len(sq) PROVE Asked(sq[i])'
        <5>1. Asked(sq[i])
          BY <2>2
        <5>. QED
          BY <1>1, <1>5, <1>6, <5>1 DEF Asked
      <4>. QED
        BY <4>1
    <3>. QED
      BY <1>1, <2>1, <2>2, <3>1
  <2>. QED
    BY <1>1, <2>3 DEF BatchInv, Requested
<1>9. Counts'
  <2>1. ASSUME NEW k PROVE Unread(k)' = Unread(k)
    BY <1>1 DEF Unread
  <2>2. Unread(n + 1) = {}
    BY <1>5, <1>6 DEF Unread
  <2>3. IsFiniteSet(Unread(n + 1)) /\ Cardinality(Unread(n + 1)) = 0
    BY <2>2, FS_EmptySet
  <2>4. ASSUME NEW k \in 1..Len(load')
        PROVE  /\ IsFiniteSet(Unread(k)) /\ load'[k].pending = Cardinality(Unread(k))
               /\ load'[k].done <=> load'[k].pending = 0
               /\ k < li => load'[k].done
    <3>1. CASE k \in 1..n
      BY <1>5, <3>1 DEF BatchInv, Counts, n
    <3>2. CASE k = n + 1
      BY <1>4, <1>5, <2>3, <3>2
    <3>. QED
      BY <1>6, <3>1, <3>2
  <2>. QED
    BY <1>1, <2>1, <2>4 DEF Counts
<1>10. Reserved'
  <2>1. ASSUME NEW k \in 1..n
        PROVE  slots'[load[k].slot].state = "reserved" /\ slots'[load[k].slot].eid = load[k].eid
    <3>1. k >= li /\ k \in 1..Len(load)
      BY <1>2, <1>5 DEF n
    <3>. QED
      BY <1>2, <3>1 DEF BatchInv, Reserved
  <2>2. \A j, k \in 1..n : load[j].slot = load[k].slot => j = k
    BY DEF BatchInv, Reserved, n
  <2>3. \A k \in 1..n : load[k].slot # s
    BY <1>2 DEF n
  <2>. QED
    BY <1>2, <1>4, <1>5, <1>6, <2>1, <2>2, <2>3 DEF Reserved
<1>11. Arriving'
  <2>1. ASSUME NEW k \in 1..Len(load'), NEW p \in Parts PROVE Arrives(k, p)'
    <3>1. CASE k = n + 1
      BY <1>4, <1>5, <3>1 DEF Arrives
    <3>2. CASE k \in 1..n
      <4>1. k \in 1..Len(load) /\ k >= li
        BY <1>2, <1>5, <3>2 DEF n
      <4>2. Arrives(k, p) /\ slots'[load[k].slot] = slots[load[k].slot]
        BY <1>2, <4>1 DEF BatchInv, Arriving
      <4>. QED
        BY <1>1, <1>5, <3>2, <4>2 DEF Arrives
    <3>. QED
      BY <1>6, <3>1, <3>2
  <2>. QED
    BY <2>1 DEF Arriving
<1>. QED
  BY <1>2, <1>7, <1>8, <1>9, <1>10, <1>11 DEF BatchInv

\* c is a with the m elements of b after its n
Joined(S, a, n, b, m, c) ==
  /\ c \in Seq(S) /\ Len(c) = n + m
  /\ \A i \in 1..n : i \in 1..n + m /\ c[i] = a[i]
  /\ \A i \in 1..m : n + i \in 1..n + m /\ c[n + i] = b[i]
  /\ \A j \in 1..n + m : j \in 1..n \/ \E i \in 1..m : j = n + i

LEMMA Concatenated ==
    ASSUME NEW S, NEW a \in Seq(S), NEW m \in Nat, NEW b \in [1..m -> S]
    PROVE  Joined(S, a, Len(a), b, m, a \o b)
<1>1. b \in Seq(S) /\ Len(b) = m /\ Len(a) \in Nat
  OBVIOUS
<1>2. a \o b \in Seq(S) /\ Len(a \o b) = Len(a) + m
  BY <1>1
<1>3. ASSUME NEW i \in 1..Len(a) PROVE i \in 1..Len(a) + m /\ (a \o b)[i] = a[i]
  BY <1>1
<1>4. ASSUME NEW i \in 1..m
      PROVE  Len(a) + i \in 1..Len(a) + m /\ (a \o b)[Len(a) + i] = b[i]
  BY <1>1
<1>5. ASSUME NEW j \in 1..Len(a) + m, ~(j \in 1..Len(a))
      PROVE  j - Len(a) \in 1..m /\ j = Len(a) + (j - Len(a))
  BY <1>1, <1>5
<1>. QED
  BY <1>1, <1>2, <1>3, <1>4, <1>5 DEF Joined

\* The tensors are found: a read of every part is queued, numbered after the
\* requests before it.
LEMMA QueueStep ==
    ASSUME Batch!UringAssumption, BatchInv, NEW s \in Slots, NEW e \in Read,
           Batch!Reserve(s, e), Batch!Queue(s, e)
    PROVE  BatchInv'
<1>. DEFINE ps == Batch!SetToSeq(Parts)
<1>0. PICK R \in Nat, Q \in Nat, n \in Nat : R = Len(req) /\ Q = Len(sq) /\ n = Len(load)
  BY BatchIs
<1>1. PICK m \in Nat \ {0} : /\ ps \in [1..m -> Parts]
                             /\ \A p \in Parts : \E k \in 1..m : ps[k] = p
  BY PartsListed
<1>. DEFINE l == [slot |-> s, eid |-> e, pending |-> m, done |-> FALSE, error |-> FALSE]
            rs == [k \in 1..m |-> n + 1]
            es == [k \in 1..m |-> [ud |-> R + k, slot |-> s, part |-> ps[k], eid |-> e]]
<1>2. Len(ps) = m
  BY <1>1
<1>3. /\ pc = "fill" /\ Len(load) < LoadMax /\ Batch!Victim(s)
      /\ slots' = [slots EXCEPT ![s].eid = e, ![s].state = "reserved"]
      /\ load' = Append(load, l) /\ req' = req \o rs /\ sq' = sq \o es
      /\ pc' = pc /\ flight' = flight /\ cq' = cq /\ li' = li
  BY <1>0, <1>2 DEF Batch!Reserve, Batch!Queue, Batch!Entries, Batch!Room
<1>4. /\ slots' \in [Slots -> Slabs] /\ li = 1
      /\ slots'[s].eid = e /\ slots'[s].state = "reserved"
      /\ \A t \in Slots : t # s => slots'[t] = slots[t]
      /\ \A k \in 1..Len(load) : load[k].slot \in Slots /\ load[k].slot # s
      /\ Batch!PublishedWhole'
  BY <1>3, SlotReserved
<1>5. l \in Loads /\ l.slot = s /\ l.eid = e /\ l.pending = m /\ ~l.done
  BY DEF Loads
<1>6. /\ load \in Seq(Loads) /\ req \in Seq(Nat) /\ sq \in Seq(Submissions)
  BY DEF BatchInv, BatchTypes
<1>7. /\ rs \in [1..m -> Nat] /\ \A i \in 1..m : rs[i] = n + 1
  OBVIOUS
<1>8. /\ es \in [1..m -> Submissions]
      /\ \A i \in 1..m : /\ es[i].ud = R + i /\ es[i].slot = s /\ es[i].part = ps[i]
                         /\ es[i].eid = e
  <2>1. ASSUME NEW i \in 1..m
        PROVE  [ud |-> R + i, slot |-> s, part |-> ps[i], eid |-> e] \in Submissions
    BY <1>1 DEF Submissions
  <2>. QED
    BY <2>1
<1>. HIDE DEF l, rs, es, ps
<1>9. /\ load' \in Seq(Loads) /\ Len(load') = n + 1 /\ load'[n + 1] = l
      /\ \A k \in 1..n : load'[k] = load[k]
  BY <1>0, <1>3, <1>5, <1>6
<1>10. /\ req' \in Seq(Nat) /\ Len(req') = R + m
       /\ \A i \in 1..R : i \in 1..R + m /\ req'[i] = req[i]
       /\ \A i \in 1..m : R + i \in 1..R + m /\ req'[R + i] = n + 1
       /\ \A j \in 1..R + m : j \in 1..R \/ \E i \in 1..m : j = R + i
  <2>1. Joined(Nat, req, Len(req), rs, m, req \o rs)
    BY <1>6, <1>7, Concatenated
  <2>. QED
    BY <1>0, <1>3, <1>7, <2>1 DEF Joined
<1>11. /\ sq' \in Seq(Submissions) /\ Len(sq') = Q + m
       /\ \A i \in 1..Q : i \in 1..Q + m /\ sq'[i] = sq[i]
       /\ \A i \in 1..m : Q + i \in 1..Q + m /\ sq'[Q + i] = es[i]
       /\ \A j \in 1..Q + m : j \in 1..Q \/ \E i \in 1..m : j = Q + i
  <2>1. Joined(Submissions, sq, Len(sq), es, m, sq \o es)
    BY <1>6, <1>8, Concatenated
  <2>. QED
    BY <1>0, <1>3, <2>1 DEF Joined
<1>12. /\ \A i \in 1..R : req[i] \in 1..n
       /\ \A k \in 1..Len(load') : k = n + 1 \/ k \in 1..n
       /\ \A k \in 1..n : k \in 1..Len(load') /\ k # n + 1
       /\ n + 1 \in 1..Len(load')
  BY <1>0, <1>9, BatchIs
<1>13. \A i \in 1..m : R + i \notin 1..R
  BY <1>6
<1>14. BatchTypes'
  <2>1. /\ Len(load') <= LoadMax /\ li' \in 1..Len(load') \cup {1}
    <3>1. LoadMax \in Nat /\ n < LoadMax
      BY <1>0, <1>3 DEF Batch!UringAssumption
    <3>. QED
      BY <1>3, <1>4, <1>9, <3>1
  <2>2. ASSUME NEW i \in 1..Len(req') PROVE req'[i] \in 1..Len(load')
    <3>1. CASE i \in 1..R
      BY <1>10, <1>12, <3>1
    <3>2. ASSUME NEW j \in 1..m, i = R + j PROVE req'[i] \in 1..Len(load')
      BY <1>10, <1>12, <3>2
    <3>. QED
      BY <1>10, <3>1, <3>2
  <2>. QED
    BY <1>3, <1>4, <1>9, <1>10, <1>11, <2>1, <2>2 DEF BatchInv, BatchTypes
<1>15. /\ \A r \in flight : Asked(r)
       /\ \A i \in 1..Q : Asked(sq[i])
       /\ \A i \in 1..Len(cq) : cq[i].ud \in 1..R
       /\ \A r \in flight : r.ud \in 1..R
       /\ \A i \in 1..Q : sq[i].ud \in 1..R
  BY <1>0 DEF BatchInv, Requested, Asked
<1>16. ASSUME NEW i \in 1..Len(sq')
       PROVE  \/ i \in 1..Q /\ sq'[i] = sq[i] /\ sq'[i].ud \in 1..R
              \/ \E k \in 1..m : i = Q + k /\ sq'[i] = es[k] /\ sq'[i].ud = R + k
                                 /\ sq'[i].ud \notin 1..R
  <2>1. CASE i \in 1..Q
    BY <1>11, <1>15, <2>1
  <2>2. ASSUME NEW k \in 1..m, i = Q + k
        PROVE  sq'[i] = es[k] /\ sq'[i].ud = R + k /\ sq'[i].ud \notin 1..R
    BY <1>8, <1>11, <1>13, <2>2
  <2>. QED
    BY <1>11, <2>1, <2>2
<1>17. Requested'
  <2>1. ASSUME NEW r \in flight PROVE Asked(r)'
    <3>1. Asked(r)
      BY <1>15
    <3>. QED
      BY <1>0, <1>9, <1>10, <1>12, <3>1 DEF Asked
  <2>2. ASSUME NEW i \in 1..Len(sq') PROVE Asked(sq[i])'
    <3>1. CASE i \in 1..Q /\ sq'[i] = sq[i]
      <4>1. Asked(sq[i])
        BY <1>15, <3>1
      <4>. QED
        BY <1>0, <1>9, <1>10, <1>12, <3>1, <4>1 DEF Asked
    <3>2. ASSUME NEW k \in 1..m, sq'[i] = es[k], sq'[i].ud = R + k
          PROVE  Asked(sq[i])'
      <4>1. req'[R + k] = n + 1 /\ R + k \in 1..Len(req')
        BY <1>10
      <4>. QED
        BY <1>5, <1>8, <1>9, <3>2, <4>1 DEF Asked
    <3>. QED
      BY <1>16, <3>1, <3>2
  <2>3. \A i, j \in 1..Len(sq') : sq'[i].ud = sq'[j].ud => i = j
    <3>1. \A i, j \in 1..Q : sq[i].ud = sq[j].ud => i = j
      BY <1>0 DEF BatchInv, Requested
    <3>2. \A i, j \in 1..m : R + i = R + j => i = j
      BY <1>6
    <3>. QED
      BY <1>16, <3>1, <3>2
  <2>4. \A r \in flight, i \in 1..Len(sq') : sq'[i].ud # r.ud
    <3>1. \A r \in flight, i \in 1..Q : sq[i].ud # r.ud
      BY <1>0 DEF BatchInv, Requested
    <3>. QED
      BY <1>15, <1>16, <3>1
  <2>5. \A i \in 1..Len(sq'), j \in 1..Len(cq) : sq'[i].ud # cq[j].ud
    <3>1. \A i \in 1..Q, j \in 1..Len(cq) : sq[i].ud # cq[j].ud
      BY <1>0 DEF BatchInv, Requested
    <3>. QED
      BY <1>15, <1>16, <3>1
  <2>6. \A i \in 1..Len(cq) : cq[i].ud \in 1..Len(req')
    BY <1>10, <1>15
  <2>7. /\ \A r, q \in flight : r.ud = q.ud => r = q
        /\ \A i, j \in 1..Len(cq) : cq[i].ud = cq[j].ud => i = j
        /\ \A r \in flight, i \in 1..Len(cq) : cq[i].ud # r.ud
    BY DEF BatchInv, Requested
  <2>. QED
    BY <1>3, <2>1, <2>2, <2>3, <2>4, <2>5, <2>6, <2>7 DEF Requested
<1>18. ASSUME NEW k \in 1..n PROVE Unread(k)' = Unread(k)
  <2>1. ASSUME NEW u \in 1..R
        PROVE  (\E i \in 1..Len(sq') : sq'[i].ud = u) <=> \E i \in 1..Q : sq[i].ud = u
    <3>1. ASSUME NEW i \in 1..Len(sq'), sq'[i].ud = u PROVE i \in 1..Q /\ sq[i].ud = u
      BY <1>16, <3>1
    <3>2. ASSUME NEW i \in 1..Q, sq[i].ud = u PROVE i \in 1..Len(sq') /\ sq'[i].ud = u
      BY <1>11, <3>2
    <3>. QED
      BY <3>1, <3>2
  <2>2. ASSUME NEW u \in 1..Len(req'), req'[u] = k PROVE u \in 1..R
    <3>1. \A i \in 1..m : req'[R + i] # k
      BY <1>10, <1>12
    <3>. QED
      BY <1>10, <2>2, <3>1
  <2>3. ASSUME NEW u PROVE u \in Unread(k)' <=> u \in Unread(k)
    BY <1>0, <1>3, <1>10, <2>1, <2>2 DEF Unread
  <2>. QED
    BY <2>3
<1>19. IsFiniteSet(Unread(n + 1)') /\ Cardinality(Unread(n + 1)') = m
  <2>1. Unread(n + 1)' = (R + 1)..(R + m)
    <3>1. ASSUME NEW u \in Unread(n + 1)' PROVE u \in (R + 1)..(R + m)
      <4>1. u \in 1..R + m /\ req'[u] = n + 1
        BY <1>0, <1>9, <1>10 DEF Unread
      <4>2. PICK i \in 1..m : u = R + i
        BY <1>10, <1>12, <4>1
      <4>. QED
        BY <1>6, <4>2
    <3>2. ASSUME NEW u \in (R + 1)..(R + m) PROVE u \in Unread(n + 1)'
      <4>1. u - R \in 1..m /\ u = R + (u - R)
        BY <1>6
      <4>2. PICK i \in 1..m : u = R + i
        BY <4>1
      <4>3. Q + i \in 1..Len(sq') /\ sq'[Q + i].ud = u
        BY <1>8, <1>11, <4>2
      <4>4. u \in 1..Len(req') /\ req'[u] = n + 1
        BY <1>10, <4>2
      <4>. QED
        BY <1>0, <4>3, <4>4 DEF Unread
    <3>. QED
      BY <3>1, <3>2
  <2>. QED
    BY <1>6, <2>1, FS_Interval
<1>20. Counts'
  <2>1. ASSUME NEW k \in 1..Len(load')
        PROVE  /\ IsFiniteSet(Unread(k)') /\ load'[k].pending = Cardinality(Unread(k)')
               /\ load'[k].done <=> load'[k].pending = 0
               /\ k < li' => load'[k].done
    <3>1. CASE k \in 1..n
      BY <1>0, <1>3, <1>9, <1>18, <3>1 DEF BatchInv, Counts
    <3>2. CASE k = n + 1
      <4>1. ~(k < li')
        BY <1>3, <1>4, <1>6, <3>2
      <4>. QED
        BY <1>5, <1>9, <1>19, <3>2, <4>1
    <3>. QED
      BY <1>12, <3>1, <3>2
  <2>. QED
    BY <2>1 DEF Counts
<1>21. Reserved'
  <2>1. ASSUME NEW k \in 1..n
        PROVE  slots'[load[k].slot].state = "reserved" /\ slots'[load[k].slot].eid = load[k].eid
    <3>1. k >= li /\ k \in 1..Len(load)
      BY <1>0, <1>4, <1>6
    <3>. QED
      BY <1>4, <3>1 DEF BatchInv, Reserved
  <2>2. \A j, k \in 1..n : load[j].slot = load[k].slot => j = k
    BY <1>0 DEF BatchInv, Reserved
  <2>3. \A k \in 1..n : load[k].slot # s
    BY <1>0, <1>4
  <2>. QED
    <3>1. ASSUME NEW k \in 1..Len(load')
          PROVE  slots'[load'[k].slot].state = "reserved" /\ slots'[load'[k].slot].eid = load'[k].eid
      <4>1. CASE k = n + 1
        BY <1>4, <1>5, <1>9, <4>1
      <4>2. CASE k \in 1..n
        BY <1>9, <2>1, <4>2
      <4>. QED
        BY <1>12, <4>1, <4>2
    <3>2. ASSUME NEW j \in 1..Len(load'), NEW k \in 1..Len(load'), load'[j].slot = load'[k].slot
          PROVE  j = k
      <4>1. CASE j = n + 1 /\ k = n + 1
        BY <4>1
      <4>2. CASE j = n + 1 /\ k \in 1..n
        BY <1>5, <1>9, <2>3, <3>2, <4>2
      <4>3. CASE j \in 1..n /\ k = n + 1
        BY <1>5, <1>9, <2>3, <3>2, <4>3
      <4>4. CASE j \in 1..n /\ k \in 1..n
        BY <1>9, <2>2, <3>2, <4>4
      <4>. QED
        BY <1>12, <4>1, <4>2, <4>3, <4>4
    <3>. QED
      BY <3>1, <3>2 DEF Reserved
<1>22. Arriving'
  <2>1. ASSUME NEW k \in 1..Len(load'), NEW p \in Parts PROVE Arrives(k, p)'
    <3>1. CASE k = n + 1
      <4>1. PICK i \in 1..m : ps[i] = p
        BY <1>1 DEF ps
      <4>2. Q + i \in 1..Len(sq') /\ req'[sq'[Q + i].ud] = k /\ sq'[Q + i].part = p
        BY <1>8, <1>10, <1>11, <3>1, <4>1, SMTT(60)
      <4>. QED
        BY <4>2 DEF Arrives
    <3>2. CASE k \in 1..n
      <4>1. k \in 1..Len(load) /\ k >= li
        BY <1>0, <1>4, <1>6, <3>2
      <4>2. Arrives(k, p) /\ slots'[load[k].slot] = slots[load[k].slot] /\ load'[k] = load[k]
        BY <1>4, <1>9, <3>2, <4>1 DEF BatchInv, Arriving
      <4>3. CASE \/ slots[load[k].slot].data[p] = load[k].eid
                 \/ load[k].error
        BY <4>2, <4>3 DEF Arrives
      <4>4. ASSUME NEW r \in flight, req[r.ud] = k, r.part = p PROVE Arrives(k, p)'
        BY <1>3, <1>10, <1>15, <4>4 DEF Arrives
      <4>5. ASSUME NEW i \in 1..Q, req[sq[i].ud] = k, sq[i].part = p PROVE Arrives(k, p)'
        <5>1. i \in 1..Len(sq') /\ sq'[i] = sq[i] /\ req'[sq[i].ud] = req[sq[i].ud]
          BY <1>10, <1>11, <1>15
        <5>. QED
          BY <4>5, <5>1 DEF Arrives
      <4>6. ASSUME NEW i \in 1..Len(cq), req[cq[i].ud] = k, ~cq[i].whole PROVE Arrives(k, p)'
        BY <1>3, <1>10, <1>15, <4>6 DEF Arrives
      <4>. QED
        BY <1>0, <4>2, <4>3, <4>4, <4>5, <4>6 DEF Arrives
    <3>. QED
      BY <1>12, <3>1, <3>2
  <2>. QED
    BY <2>1 DEF Arriving
<1>. QED
  BY <1>4, <1>14, <1>17, <1>20, <1>21, <1>22 DEF BatchInv

\* The kernel ends a read: its request is completed, and its part is in the slot
\* or its completion is not whole.
LEMMA CompleteStep ==
    ASSUME Batch!UringAssumption, BatchInv, NEW r \in flight, NEW whole \in {TRUE, FALSE},
           Batch!Complete(r, whole)
    PROVE  BatchInv'
<1>. DEFINE c == [ud |-> r.ud, whole |-> whole]
            d == IF whole THEN r.eid ELSE Batch!Torn
<1>0. PICK C \in Nat : C = Len(cq)
  BY BatchIs
<1>1. /\ flight' = flight \ {r} /\ cq' = Append(cq, c)
      /\ slots' = [slots EXCEPT ![r.slot].data[r.part] = d]
      /\ pc' = pc /\ load' = load /\ req' = req /\ sq' = sq /\ li' = li
  BY DEF Batch!Complete
<1>2. /\ r \in Submissions /\ r.ud \in Nat /\ r.slot \in Slots /\ r.part \in Parts
      /\ r.eid \in Read
  BY BatchIs DEF Submissions
<1>3. PICK k0 \in 1..Len(load) :
        /\ k0 = req[r.ud] /\ r.ud \in 1..Len(req) /\ k0 >= li
        /\ load[k0].slot = r.slot /\ load[k0].eid = r.eid
        /\ slots[r.slot].state = "reserved" /\ slots[r.slot].eid = r.eid
  BY ReadsReserved
<1>4. c \in Completions /\ c.ud = r.ud /\ c.whole = whole
  BY <1>2 DEF Completions
<1>. HIDE DEF c
<1>5. /\ cq' \in Seq(Completions) /\ Len(cq') = C + 1 /\ cq'[C + 1] = c
      /\ \A i \in 1..C : i \in 1..C + 1 /\ i # C + 1 /\ cq'[i] = cq[i]
      /\ C + 1 \in 1..C + 1
      /\ \A i \in 1..C + 1 : i = C + 1 \/ i \in 1..C
  <2>1. cq \in Seq(Completions)
    BY DEF BatchInv, BatchTypes
  <2>. QED
    BY <1>0, <1>1, <1>4, <2>1
<1>6. /\ slots' \in [Slots -> Slabs] /\ d \in Read \cup {Batch!Torn}
      /\ \A s \in Slots : slots'[s].eid = slots[s].eid /\ slots'[s].state = slots[s].state
      /\ slots'[r.slot].data[r.part] = d
      /\ \A s \in Slots, p \in Parts : s # r.slot \/ p # r.part =>
           slots'[s].data[p] = slots[s].data[p]
  <2>1. slots \in [Slots -> Slabs] /\ slots[r.slot] \in Slabs /\ d \in Read \cup {Batch!Torn}
    BY <1>2 DEF BatchInv, BatchTypes
  <2>. HIDE DEF d
  <2>. DEFINE a == [slots[r.slot].data EXCEPT ![r.part] = d]
  <2>2. slots[r.slot].data \in [Parts -> Read \cup {Batch!Torn}]
    BY <2>1 DEF Slabs
  <2>3. /\ a \in [Parts -> Read \cup {Batch!Torn}] /\ a[r.part] = d
        /\ \A p \in Parts : p # r.part => a[p] = slots[r.slot].data[p]
    BY <1>2, <2>1, <2>2
  <2>4. slots' = [slots EXCEPT ![r.slot] = [slots[r.slot] EXCEPT !.data = a]]
    BY <1>1, <2>1
  <2>. HIDE DEF a
  <2>5. /\ [slots[r.slot] EXCEPT !.data = a] \in Slabs
        /\ [slots[r.slot] EXCEPT !.data = a].data = a
        /\ [slots[r.slot] EXCEPT !.data = a].eid = slots[r.slot].eid
        /\ [slots[r.slot] EXCEPT !.data = a].state = slots[r.slot].state
    BY <2>1, <2>3 DEF Slabs
  <2>. QED
    BY <1>2, <2>1, <2>3, <2>4, <2>5
<1>7. BatchTypes'
  BY <1>1, <1>5, <1>6 DEF BatchInv, BatchTypes
<1>8. /\ \A q \in flight' : q \in flight /\ q # r
      /\ \A q \in flight : q = r \/ q \in flight'
  BY <1>1
<1>9. Requested'
  <2>1. /\ \A q, t \in flight : q.ud = t.ud => q = t
        /\ \A i, j \in 1..C : cq[i].ud = cq[j].ud => i = j
        /\ \A q \in flight, i \in 1..C : cq[i].ud # q.ud
        /\ \A q \in flight, i \in 1..Len(sq) : sq[i].ud # q.ud
        /\ \A i \in 1..Len(sq), j \in 1..C : sq[i].ud # cq[j].ud
        /\ \A i \in 1..C : cq[i].ud \in 1..Len(req)
        /\ \A q \in flight : Asked(q)
        /\ \A i \in 1..Len(sq) : Asked(sq[i])
        /\ \A i, j \in 1..Len(sq) : sq[i].ud = sq[j].ud => i = j
    BY <1>0 DEF BatchInv, Requested
  <2>2. \A q \in flight' : Asked(q)'
    BY <1>1, <1>8, <2>1 DEF Asked
  <2>3. \A i \in 1..Len(sq') : Asked(sq[i])'
    <3>1. ASSUME NEW i \in 1..Len(sq) PROVE Asked(sq[i])'
      <4>1. Asked(sq[i])
        BY <2>1
      <4>. QED
        BY <1>1, <4>1 DEF Asked
    <3>. QED
      BY <1>1, <3>1
  <2>4. \A i \in 1..C + 1 : cq'[i].ud \in 1..Len(req)
    BY <1>3, <1>4, <1>5, <2>1
  <2>5. \A i, j \in 1..C + 1 : cq'[i].ud = cq'[j].ud => i = j
    BY <1>4, <1>5, <2>1
  <2>6. \A q \in flight', i \in 1..C + 1 : cq'[i].ud # q.ud
    <3>1. ASSUME NEW q \in flight' PROVE q.ud # r.ud
      BY <1>8, <2>1
    <3>. QED
      BY <1>4, <1>5, <1>8, <2>1, <3>1
  <2>7. \A i \in 1..Len(sq), j \in 1..C + 1 : sq[i].ud # cq'[j].ud
    <3>1. \A i \in 1..Len(sq) : sq[i].ud # r.ud
      BY <2>1
    <3>. QED
      BY <1>4, <1>5, <2>1, <3>1
  <2>. QED
    BY <1>1, <1>5, <1>8, <2>1, <2>2, <2>3, <2>4, <2>5, <2>6, <2>7 DEF Requested
<1>10. Counts'
  <2>1. ASSUME NEW u
        PROVE  (\E q \in flight' : q.ud = u) \/ (\E i \in 1..C + 1 : cq'[i].ud = u)
               <=> (\E q \in flight : q.ud = u) \/ (\E i \in 1..C : cq[i].ud = u)
    BY <1>4, <1>5, <1>8
  <2>2. ASSUME NEW k PROVE Unread(k)' = Unread(k)
    BY <1>0, <1>1, <1>5, <2>1 DEF Unread
  <2>. QED
    BY <1>1, <2>2 DEF BatchInv, Counts
<1>11. Reserved'
  <2>1. \A k \in 1..Len(load) : load[k].slot \in Slots
    BY BatchIs DEF Loads
  <2>. QED
    BY <1>1, <1>6, <2>1 DEF BatchInv, Reserved
<1>12. Arriving'
  <2>1. ASSUME NEW k \in 1..Len(load), NEW p \in Parts, k >= li PROVE Arrives(k, p)'
    <3>1. Arrives(k, p) /\ load[k].slot \in Slots
      BY <2>1, BatchIs DEF BatchInv, Arriving, Loads
    <3>2. CASE k = k0 /\ p = r.part /\ whole
      <4>1. slots'[load[k].slot].data[p] = load[k].eid
        BY <1>3, <1>6, <3>2
      <4>. QED
        BY <1>1, <4>1 DEF Arrives
    <3>3. CASE k = k0 /\ p = r.part /\ ~whole
      <4>1. C + 1 \in 1..Len(cq') /\ req[cq'[C + 1].ud] = k /\ ~cq'[C + 1].whole
        BY <1>3, <1>4, <1>5, <3>3
      <4>. QED
        BY <1>1, <4>1 DEF Arrives
    <3>4. CASE ~(k = k0 /\ p = r.part)
      <4>1. load[k].slot # r.slot \/ p # r.part
        BY <1>3, <3>4 DEF BatchInv, Reserved
      <4>2. slots'[load[k].slot].data[p] = slots[load[k].slot].data[p]
        BY <1>6, <3>1, <4>1
      <4>3. ASSUME NEW q \in flight, req[q.ud] = k, q.part = p PROVE q \in flight'
        BY <1>3, <1>8, <3>4, <4>3
      <4>4. ASSUME NEW i \in 1..C, req[cq[i].ud] = k, ~cq[i].whole
            PROVE  i \in 1..Len(cq') /\ req[cq'[i].ud] = k /\ ~cq'[i].whole
        BY <1>5, <4>4
      <4>. QED
        BY <1>0, <1>1, <3>1, <4>2, <4>3, <4>4 DEF Arrives
    <3>. QED
      BY <3>2, <3>3, <3>4
  <2>. QED
    BY <1>1, <2>1 DEF Arriving
<1>13. Batch!PublishedWhole'
  <2>1. ASSUME NEW s \in Slots, slots'[s].state = "ready", NEW p \in Parts
        PROVE  slots'[s].data[p] = slots'[s].eid
    <3>1. slots[s].state = "ready" /\ slots'[s].eid = slots[s].eid /\ s # r.slot
      BY <1>3, <1>6, <2>1
    <3>. QED
      BY <1>6, <3>1 DEF BatchInv, Batch!PublishedWhole
  <2>. QED
    BY <2>1 DEF Batch!PublishedWhole
<1>. QED
  BY <1>7, <1>9, <1>10, <1>11, <1>12, <1>13 DEF BatchInv

\* The pilot reaps one completion: the load its request names has one less to
\* wait for, and an error when it is not whole.
LEMMA ReapStep == ASSUME Batch!UringAssumption, BatchInv, Batch!Reap PROVE BatchInv'
<1>. DEFINE c == Head(cq)
<1>0. PICK C \in Nat : C = Len(cq) - 1 /\ Len(cq) = C + 1
  <2>1. Len(cq) \in Nat /\ Len(cq) # 0
    BY DEF Batch!Reap, BatchInv, BatchTypes
  <2>. QED
    BY <2>1
<1>1. /\ pc = "reap" /\ load' = Batch!Counted(load, c) /\ cq' = Tail(cq)
      /\ pc' = pc /\ slots' = slots /\ req' = req /\ sq' = sq /\ flight' = flight /\ li' = li
  BY DEF Batch!Reap
<1>2. /\ cq' \in Seq(Completions) /\ Len(cq') = C /\ c = cq[1] /\ 1 \in 1..Len(cq)
      /\ \A i \in 1..C : i + 1 \in 1..C + 1 /\ i + 1 # 1 /\ cq'[i] = cq[i + 1]
      /\ \A i \in 1..C + 1 : i = 1 \/ \E j \in 1..C : i = j + 1
  <2>1. cq \in Seq(Completions) /\ cq # <<>>
    BY DEF Batch!Reap, BatchInv, BatchTypes
  <2>2. /\ cq' \in Seq(Completions) /\ Len(cq') = C /\ c = cq[1]
        /\ \A i \in 1..C : cq'[i] = cq[i + 1]
    BY <1>0, <1>1, <2>1
  <2>3. ASSUME NEW i \in 1..C + 1, i # 1 PROVE i - 1 \in 1..C /\ i = (i - 1) + 1
    BY <2>3
  <2>. QED
    BY <1>0, <2>2, <2>3
<1>3. /\ c \in Completions /\ c.ud \in 1..Len(req)
      /\ \A i \in 1..C : cq'[i].ud # c.ud
  <2>1. c \in Completions /\ c.ud \in 1..Len(req)
    BY <1>2, BatchIs DEF BatchInv, Requested
  <2>2. \A i, j \in 1..Len(cq) : cq[i].ud = cq[j].ud => i = j
    BY DEF BatchInv, Requested
  <2>. QED
    BY <1>0, <1>2, <2>1, <2>2
<1>. HIDE DEF c
<1>4. PICK k0 \in 1..Len(load) : k0 = req[c.ud]
  BY <1>3, BatchIs
<1>5. /\ load[k0] \in Loads /\ load[k0].pending \in Nat /\ load[k0].done \in BOOLEAN
      /\ load[k0].error \in BOOLEAN
  BY BatchIs DEF Loads
<1>6. /\ IsFiniteSet(Unread(k0)) /\ load[k0].pending = Cardinality(Unread(k0))
      /\ c.ud \in Unread(k0) /\ load[k0].pending # 0 /\ ~load[k0].done
  <2>1. /\ IsFiniteSet(Unread(k0)) /\ load[k0].pending = Cardinality(Unread(k0))
        /\ load[k0].done <=> load[k0].pending = 0
    BY DEF BatchInv, Counts
  <2>2. c.ud \in Unread(k0)
    BY <1>2, <1>3, <1>4 DEF Unread
  <2>. QED
    BY <2>1, <2>2, FS_EmptySet
<1>. DEFINE left == load[k0].pending - 1
            err == load[k0].error \/ ~c.whole
            over == load[k0].done \/ Batch!Over(left)
            l == [load[k0] EXCEPT !.pending = left, !.error = err, !.done = over]
<1>7. load' = [load EXCEPT ![k0] = l]
  <2>1. ~(c.ud > Len(req)) /\ load[k0].pending > 0
    BY <1>3, <1>5, <1>6, BatchIs
  <2>. DEFINE down == IF load[k0].pending > 0 THEN load[k0].pending - 1 ELSE 0
  <2>2. load' = [load EXCEPT ![k0] = [load[k0] EXCEPT !.pending = down, !.error = err,
                                        !.done = load[k0].done \/ Batch!Over(down)]]
    BY <1>1, <1>4, <2>1 DEF Batch!Counted
  <2>3. down = left
    BY <2>1
  <2>. HIDE DEF down, err
  <2>. QED
    BY <2>2, <2>3
<1>8. left \in Nat /\ err \in BOOLEAN /\ over \in BOOLEAN
  BY <1>5, <1>6
<1>9. (over <=> left = 0) /\ (load[k0].error => err) /\ (~c.whole => err)
  BY <1>6 DEF Batch!Over
<1>. HIDE DEF left, err, over
<1>10. /\ l \in Loads /\ l.pending = left /\ l.error = err /\ l.done = over
       /\ l.slot = load[k0].slot /\ l.eid = load[k0].eid
  BY <1>5, <1>8 DEF Loads
<1>. HIDE DEF l
<1>11. /\ load' \in Seq(Loads) /\ Len(load') = Len(load) /\ load'[k0] = l
       /\ \A k \in 1..Len(load) : k # k0 => load'[k] = load[k]
       /\ \A k \in 1..Len(load) : load'[k].slot = load[k].slot /\ load'[k].eid = load[k].eid
                                  /\ (load[k].error => load'[k].error)
  <2>1. load \in Seq(Loads)
    BY DEF BatchInv, BatchTypes
  <2>2. /\ load' \in Seq(Loads) /\ Len(load') = Len(load) /\ load'[k0] = l
        /\ \A k \in 1..Len(load) : k # k0 => load'[k] = load[k]
    BY <1>7, <1>10, <2>1
  <2>. QED
    BY <1>9, <1>10, <2>2
<1>12. BatchTypes'
  BY <1>1, <1>2, <1>11 DEF BatchInv, BatchTypes
<1>13. Requested'
  <2>1. ASSUME NEW r \in flight PROVE Asked(r)'
    <3>1. Asked(r) /\ req[r.ud] \in 1..Len(load)
      BY BatchIs DEF BatchInv, Requested, Asked
    <3>. QED
      BY <1>1, <1>11, <3>1 DEF Asked
  <2>2. ASSUME NEW i \in 1..Len(sq) PROVE Asked(sq[i])'
    <3>1. Asked(sq[i]) /\ req[sq[i].ud] \in 1..Len(load)
      BY BatchIs DEF BatchInv, Requested, Asked
    <3>. QED
      BY <1>1, <1>11, <3>1 DEF Asked
  <2>3. /\ \A i, j \in 1..C + 1 : cq[i].ud = cq[j].ud => i = j
        /\ \A r \in flight, i \in 1..C + 1 : cq[i].ud # r.ud
        /\ \A i \in 1..Len(sq), j \in 1..C + 1 : sq[i].ud # cq[j].ud
        /\ \A i \in 1..C + 1 : cq[i].ud \in 1..Len(req)
        /\ \A r, q \in flight : r.ud = q.ud => r = q
        /\ \A i, j \in 1..Len(sq) : sq[i].ud = sq[j].ud => i = j
        /\ \A r \in flight, i \in 1..Len(sq) : sq[i].ud # r.ud
    BY <1>0 DEF BatchInv, Requested
  <2>4. /\ \A i \in 1..C : cq'[i].ud \in 1..Len(req)
        /\ \A r \in flight, i \in 1..C : cq'[i].ud # r.ud
        /\ \A i \in 1..Len(sq), j \in 1..C : sq[i].ud # cq'[j].ud
    <3>1. ASSUME NEW i \in 1..C
          PROVE  /\ cq'[i].ud \in 1..Len(req) /\ \A r \in flight : cq'[i].ud # r.ud
                 /\ \A j \in 1..Len(sq) : sq[j].ud # cq'[i].ud
      <4>1. PICK j \in 1..C + 1 : cq'[i] = cq[j]
        BY <1>2
      <4>. QED
        BY <2>3, <4>1
    <3>. QED
      BY <3>1
  <2>5. \A i, j \in 1..C : cq'[i].ud = cq'[j].ud => i = j
    <3>1. ASSUME NEW i \in 1..C, NEW j \in 1..C, cq'[i].ud = cq'[j].ud PROVE i + 1 = j + 1
      <4>1. i + 1 \in 1..C + 1 /\ j + 1 \in 1..C + 1 /\ cq[i + 1].ud = cq[j + 1].ud
        BY <1>2, <3>1
      <4>. QED
        BY <2>3, <4>1
    <3>2. \A i, j \in 1..C : i + 1 = j + 1 => i = j
      OBVIOUS
    <3>. QED
      BY <3>1, <3>2
  <2>. QED
    BY <1>1, <1>2, <2>1, <2>2, <2>3, <2>4, <2>5 DEF Requested
<1>14. ASSUME NEW u
       PROVE  (\E i \in 1..C : cq'[i].ud = u)
              <=> (\E i \in 1..C + 1 : cq[i].ud = u) /\ u # c.ud
  <2>1. ASSUME NEW i \in 1..C, cq'[i].ud = u
        PROVE  (\E j \in 1..C + 1 : cq[j].ud = u) /\ u # c.ud
    BY <1>2, <1>3, <2>1
  <2>2. ASSUME NEW i \in 1..C + 1, cq[i].ud = u, u # c.ud PROVE \E j \in 1..C : cq'[j].ud = u
    BY <1>2, <2>2
  <2>. QED
    BY <2>1, <2>2
<1>15. /\ \A q \in flight : q.ud # c.ud
       /\ \A i \in 1..Len(sq) : sq[i].ud # c.ud
  BY <1>2 DEF BatchInv, Requested
<1>16. ASSUME NEW k PROVE Unread(k)' = Unread(k) \ {c.ud}
  <2>1. ASSUME NEW u PROVE u \in Unread(k)' <=> u \in Unread(k) /\ u # c.ud
    BY <1>0, <1>1, <1>2, <1>14, <1>15, ZenonT(60) DEF Unread
  <2>. QED
    BY <2>1
<1>17. Counts'
  <2>1. ASSUME NEW k \in 1..Len(load)
        PROVE  /\ IsFiniteSet(Unread(k)') /\ load'[k].pending = Cardinality(Unread(k)')
               /\ load'[k].done <=> load'[k].pending = 0
               /\ k < li => load'[k].done
    <3>1. /\ IsFiniteSet(Unread(k)) /\ load[k].pending = Cardinality(Unread(k))
          /\ load[k].done <=> load[k].pending = 0
          /\ k < li => load[k].done
      BY DEF BatchInv, Counts
    <3>2. CASE k = k0
      <4>1. IsFiniteSet(Unread(k)') /\ Cardinality(Unread(k)') = left
        BY <1>6, <1>16, <3>2, FS_RemoveElement DEF left
      <4>. QED
        BY <1>6, <1>9, <1>10, <1>11, <3>1, <3>2, <4>1
    <3>3. CASE k # k0
      <4>1. c.ud \notin Unread(k)
        BY <1>4, <3>3 DEF Unread
      <4>2. Unread(k)' = Unread(k)
        BY <1>16, <4>1
      <4>. QED
        BY <1>11, <3>1, <3>3, <4>2
    <3>. QED
      BY <3>2, <3>3
  <2>. QED
    BY <1>1, <1>11, <2>1 DEF Counts
<1>18. Reserved'
  BY <1>1, <1>11 DEF BatchInv, Reserved
<1>19. Arriving'
  <2>1. ASSUME NEW k \in 1..Len(load), NEW p \in Parts, k >= li PROVE Arrives(k, p)'
    <3>1. Arrives(k, p)
      BY <2>1 DEF BatchInv, Arriving
    <3>2. ASSUME NEW i \in 1..C + 1, req[cq[i].ud] = k, ~cq[i].whole
          PROVE  \/ load'[k].error
                 \/ \E j \in 1..C : req[cq'[j].ud] = k /\ ~cq'[j].whole
      <4>1. CASE i = 1
        BY <1>2, <1>4, <1>9, <1>10, <1>11, <3>2, <4>1
      <4>2. CASE i # 1
        BY <1>2, <3>2, <4>2, ZenonT(60)
      <4>. QED
        BY <4>1, <4>2
    <3>. QED
      BY <1>0, <1>1, <1>2, <1>11, <3>1, <3>2 DEF Arrives
  <2>. QED
    BY <1>1, <1>11, <2>1 DEF Arriving
<1>20. Batch!PublishedWhole'
  BY <1>1 DEF BatchInv, Batch!PublishedWhole
<1>. QED
  BY <1>12, <1>13, <1>17, <1>18, <1>19, <1>20 DEF BatchInv

\* Nothing but where the pilot is.
LEMMA BatchQuiet ==
    ASSUME BatchInv, load # <<>>, pc' \in {"reap", "wait"},
           UNCHANGED <<slots, load, req, sq, flight, cq, li>>
    PROVE  BatchInv'
<1>1. li <= Len(load) /\ li' = li /\ load' = load
  <2>1. Len(load) \in Nat /\ Len(load) # 0
    BY DEF BatchInv, BatchTypes
  <2>. QED
    BY <2>1 DEF BatchInv, BatchTypes
<1>2. BatchTypes'
  BY <1>1 DEF BatchInv, BatchTypes
<1>3. Requested'
  <2>1. ASSUME NEW i \in 1..Len(sq) PROVE Asked(sq[i])'
    <3>1. Asked(sq[i])
      BY DEF BatchInv, Requested
    <3>. QED
      BY <3>1 DEF Asked
  <2>. QED
    BY <2>1 DEF BatchInv, Requested, Asked
<1>4. Counts' /\ Reserved'
  <2>1. ASSUME NEW k PROVE Unread(k)' = Unread(k)
    BY DEF Unread
  <2>2. Counts'
    BY <2>1 DEF BatchInv, Counts
  <2>. QED
    BY <2>2 DEF BatchInv, Reserved
<1>5. Arriving' /\ Batch!PublishedWhole'
  BY DEF BatchInv, Arriving, Arrives, Batch!PublishedWhole
<1>. QED
  BY <1>2, <1>3, <1>4, <1>5 DEF BatchInv

\* A load that is over has nothing left to be read.
LEMMA OverIs ==
    ASSUME BatchInv, NEW k \in 1..Len(load), load[k].done
    PROVE  /\ \A r \in flight : req[r.ud] # k
           /\ \A i \in 1..Len(sq) : req[sq[i].ud] # k
           /\ \A i \in 1..Len(cq) : req[cq[i].ud] # k
<1>1. Unread(k) = {}
  <2>1. /\ IsFiniteSet(Unread(k)) /\ load[k].pending = Cardinality(Unread(k))
        /\ load[k].done <=> load[k].pending = 0
    BY DEF BatchInv, Counts
  <2>. QED
    BY <2>1, FS_EmptySet
<1>2. /\ \A r \in flight : r.ud \in 1..Len(req)
      /\ \A i \in 1..Len(sq) : sq[i].ud \in 1..Len(req)
      /\ \A i \in 1..Len(cq) : cq[i].ud \in 1..Len(req)
  BY DEF BatchInv, Requested, Asked
<1>. QED
  BY <1>1, <1>2 DEF Unread

\* A load is published: without an error, and it has waited for every part, its
\* slot holds the whole expert.  With the last load nothing is left of the batch.
LEMMA LoadPublishedStep == ASSUME Batch!UringAssumption, BatchInv, Batch!Publish PROVE BatchInv'
<1>. DEFINE l == load[li]
<1>1. /\ pc = "wait" /\ l.done
      /\ slots' = [slots EXCEPT ![l.slot].state = Batch!Outcome(l)]
      /\ sq' = sq /\ flight' = flight /\ cq' = cq
  BY DEF Batch!Publish, Batch!Current
<1>2. /\ li \in 1..Len(load) /\ l \in Loads /\ li \in Nat /\ Len(load) \in Nat
  <2>1. li <= Len(load) /\ li \in Nat /\ li >= 1 /\ Len(load) \in Nat
    BY <1>1, BatchIs DEF BatchInv, BatchTypes
  <2>2. li \in 1..Len(load)
    BY <2>1
  <2>. QED
    BY <2>1, <2>2, BatchIs
<1>3. /\ \A r \in flight : req[r.ud] # li
      /\ \A i \in 1..Len(sq) : req[sq[i].ud] # li
      /\ \A i \in 1..Len(cq) : req[cq[i].ud] # li
  BY <1>1, <1>2, OverIs
<1>4. /\ slots[l.slot].state = "reserved" /\ slots[l.slot].eid = l.eid
      /\ \A k \in 1..Len(load) : k # li => load[k].slot # l.slot
      /\ \A k \in 1..Len(load) : load[k].slot \in Slots
  BY <1>2, BatchIs DEF BatchInv, Reserved, Loads
<1>5. /\ slots' \in [Slots -> Slabs]
      /\ slots'[l.slot].state = IF l.error THEN "free" ELSE "ready"
      /\ \A s \in Slots : slots'[s].eid = slots[s].eid /\ slots'[s].data = slots[s].data
      /\ \A s \in Slots : s # l.slot => slots'[s] = slots[s]
  <2>1. slots \in [Slots -> Slabs] /\ l.slot \in Slots
    BY <1>2, <1>4 DEF BatchInv, BatchTypes
  <2>. DEFINE o == Batch!Outcome(l)
  <2>2. o = (IF l.error THEN "free" ELSE "ready") /\ o \in {"free", "reserved", "ready"}
    BY DEF Batch!Outcome
  <2>. HIDE DEF o
  <2>3. slots' = [slots EXCEPT ![l.slot] = [slots[l.slot] EXCEPT !.state = o]]
    BY <1>1, <2>1 DEF o
  <2>4. /\ [slots[l.slot] EXCEPT !.state = o] \in Slabs
        /\ [slots[l.slot] EXCEPT !.state = o].state = o
        /\ [slots[l.slot] EXCEPT !.state = o].eid = slots[l.slot].eid
        /\ [slots[l.slot] EXCEPT !.state = o].data = slots[l.slot].data
    BY <2>1, <2>2 DEF Slabs
  <2>. QED
    BY <2>1, <2>2, <2>3, <2>4
<1>6. Batch!PublishedWhole'
  <2>1. ASSUME NEW s \in Slots, slots'[s].state = "ready", NEW p \in Parts
        PROVE  slots'[s].data[p] = slots'[s].eid
    <3>1. CASE s = l.slot
      <4>1. ~l.error
        BY <1>5, <2>1, <3>1
      <4>2. Arrives(li, p)
        BY <1>2 DEF BatchInv, Arriving
      <4>3. slots[s].data[p] = l.eid
        BY <1>3, <3>1, <4>1, <4>2 DEF Arrives
      <4>. QED
        BY <1>4, <1>5, <3>1, <4>3
    <3>2. CASE s # l.slot
      BY <1>5, <2>1, <3>2 DEF BatchInv, Batch!PublishedWhole
    <3>. QED
      BY <3>1, <3>2
  <2>. QED
    BY <2>1 DEF Batch!PublishedWhole
<1>7. CASE Batch!LastLoad
  <2>1. /\ li = Len(load) /\ pc' = "fill" /\ load' = <<>> /\ req' = <<>> /\ li' = 1
    BY <1>7 DEF Batch!Publish, Batch!LastLoad
  <2>2. \A k \in 1..Len(load) : load[k].done
    <3>1. \A k \in 1..Len(load) : k = li \/ k < li
      BY <1>2, <2>1
    <3>. QED
      BY <1>1, <3>1 DEF BatchInv, Counts
  <2>3. /\ flight = {} /\ Len(sq) = 0 /\ Len(cq) = 0
    <3>1. /\ \A r \in flight : req[r.ud] \in 1..Len(load)
          /\ \A i \in 1..Len(sq) : req[sq[i].ud] \in 1..Len(load)
          /\ \A i \in 1..Len(cq) : req[cq[i].ud] \in 1..Len(load)
      BY BatchIs DEF BatchInv, Requested, Asked
    <3>2. flight = {}
      BY <2>2, <3>1, OverIs
    <3>3. \A i \in 1..Len(sq) : FALSE
      BY <2>2, <3>1, OverIs
    <3>4. \A i \in 1..Len(cq) : FALSE
      BY <2>2, <3>1, OverIs
    <3>5. Len(sq) \in Nat /\ Len(cq) \in Nat
      BY BatchIs
    <3>6. Len(sq) = 0
      BY <3>3, <3>5
    <3>7. Len(cq) = 0
      BY <3>4, <3>5
    <3>. QED
      BY <3>2, <3>6, <3>7
  <2>4. Len(load') = 0 /\ Len(req') = 0 /\ load' \in Seq(Loads) /\ req' \in Seq(Nat)
    BY <2>1
  <2>5. BatchTypes'
    BY <1>1, <1>5, <2>1, <2>4 DEF BatchInv, BatchTypes, Batch!UringAssumption
  <2>6. Requested'
    BY <1>1, <2>3 DEF Requested
  <2>7. Counts' /\ Reserved' /\ Arriving'
    BY <2>4 DEF Counts, Reserved, Arriving
  <2>. QED
    BY <1>6, <2>5, <2>6, <2>7 DEF BatchInv
<1>8. CASE ~Batch!LastLoad
  <2>1. /\ li # Len(load) /\ li' = li + 1 /\ load' = load /\ req' = req
        /\ pc' \in {"wait", "reap"}
    BY <1>8 DEF Batch!Publish, Batch!LastLoad
  <2>2. BatchTypes'
    <3>1. li' <= Len(load') /\ li' \in 1..Len(load')
      BY <1>2, <2>1
    <3>. QED
      BY <1>1, <1>5, <2>1, <3>1 DEF BatchInv, BatchTypes
  <2>3. Requested'
    <3>1. ASSUME NEW i \in 1..Len(sq) PROVE Asked(sq[i])'
      <4>1. Asked(sq[i])
        BY DEF BatchInv, Requested
      <4>. QED
        BY <1>1, <2>1, <4>1 DEF Asked
    <3>. QED
      BY <1>1, <2>1, <3>1 DEF BatchInv, Requested, Asked
  <2>4. Counts'
    <3>1. \A k \in 1..Len(load) : k < li' => k = li \/ k < li
      BY <1>2, <2>1
    <3>2. ASSUME NEW k PROVE Unread(k)' = Unread(k)
      BY <1>1, <2>1 DEF Unread
    <3>. QED
      BY <1>1, <2>1, <3>1, <3>2 DEF BatchInv, Counts
  <2>5. \A k \in 1..Len(load) : k >= li' => k >= li /\ k # li
    BY <1>2, <2>1
  <2>6. Reserved'
    BY <1>4, <1>5, <2>1, <2>5 DEF BatchInv, Reserved
  <2>7. Arriving'
    <3>1. ASSUME NEW k \in 1..Len(load), NEW p \in Parts, k >= li' PROVE Arrives(k, p)'
      <4>1. Arrives(k, p) /\ slots'[load[k].slot].data = slots[load[k].slot].data
        BY <1>4, <1>5, <2>5, <3>1 DEF BatchInv, Arriving
      <4>. QED
        BY <1>1, <2>1, <4>1 DEF Arrives
    <3>. QED
      BY <2>1, <3>1 DEF Arriving
  <2>. QED
    BY <1>6, <2>2, <2>3, <2>4, <2>6, <2>7 DEF BatchInv
<1>. QED
  BY <1>7, <1>8

LEMMA BatchNext ==
    ASSUME Batch!UringAssumption, EnterFails = FALSE, BatchInv, [Batch!Next]_batchVars
    PROVE  BatchInv'
<1>1. ASSUME NEW s \in Slots, NEW e \in Read, Batch!Reserve(s, e) PROVE BatchInv'
  <2>1. Batch!Queue(s, e) \/ Batch!NoTensor(s, e)
    BY <1>1 DEF Batch!Reserve
  <2>. QED
    BY <1>1, <2>1, QueueStep, NoTensorStep
<1>2. ASSUME Batch!Submit PROVE BatchInv'
  <2>1. /\ load # <<>> /\ load' = load /\ req' = req /\ cq' = cq /\ li' = 1 /\ li = 1
        /\ pc' = "reap" /\ (Batch!Taken \/ Batch!Stays)
    BY <1>2 DEF Batch!Submit, BatchInv, BatchTypes
  <2>2. CASE Batch!Taken
    BY <2>1, <2>2, TakenStep
  <2>3. CASE Batch!Stays
    BY <2>1, <2>3, BatchQuiet DEF Batch!Stays
  <2>. QED
    BY <2>1, <2>2, <2>3
<1>3. ASSUME Batch!Kernel PROVE BatchInv'
  BY <1>3, CompleteStep DEF Batch!Kernel
<1>4. ASSUME Batch!Owner PROVE BatchInv'
  <2>1. ASSUME pc # "fill" PROVE load # <<>>
    BY <2>1 DEF BatchInv, BatchTypes
  <2>2. ASSUME Batch!ReapEnds PROVE BatchInv'
    BY <2>1, <2>2, BatchQuiet DEF Batch!ReapEnds
  <2>3. ASSUME Batch!Wait PROVE BatchInv'
    <3>1. /\ load # <<>> /\ load' = load /\ req' = req /\ cq' = cq /\ li' = li
          /\ pc' = "reap" /\ (Batch!Taken \/ Batch!Stays)
      BY <2>1, <2>3 DEF Batch!Wait, Batch!TakenRest
    <3>2. CASE Batch!Taken
      BY <3>1, <3>2, TakenStep
    <3>3. CASE Batch!Stays
      BY <3>1, <3>3, BatchQuiet DEF Batch!Stays
    <3>. QED
      BY <3>1, <3>2, <3>3
  <2>. QED
    BY <1>4, <2>2, <2>3, ReapStep, LoadPublishedStep DEF Batch!Owner
<1>5. ASSUME UNCHANGED batchVars PROVE BatchInv'
  <2>0. UNCHANGED <<pc, slots, load, req, sq, flight, cq, li>>
    BY <1>5 DEF batchVars
  <2>2. BatchTypes'
    BY <2>0 DEF BatchInv, BatchTypes
  <2>3. Requested'
    <3>1. ASSUME NEW i \in 1..Len(sq) PROVE Asked(sq[i])'
      <4>1. Asked(sq[i])
        BY DEF BatchInv, Requested
      <4>. QED
        BY <2>0, <4>1 DEF Asked
    <3>. QED
      BY <2>0, <3>1 DEF BatchInv, Requested, Asked
  <2>4. Counts'
    <3>1. ASSUME NEW k PROVE Unread(k)' = Unread(k)
      BY <2>0 DEF Unread
    <3>. QED
      BY <2>0, <3>1 DEF BatchInv, Counts
  <2>5. Reserved' /\ Arriving' /\ Batch!PublishedWhole'
    BY <2>0 DEF BatchInv, Reserved, Arriving, Arrives, Batch!PublishedWhole
  <2>. QED
    BY <2>2, <2>3, <2>4, <2>5 DEF BatchInv
<1>6. ASSUME Batch!Finished PROVE UNCHANGED batchVars
  BY <1>6 DEF Batch!Finished, Batch!vars, batchVars
<1>. QED
  BY <1>1, <1>2, <1>3, <1>4, <1>5, <1>6 DEF Batch!Next

LEMMA BatchAlways == ASSUME EnterFails = FALSE PROVE Spec => []BatchInv
<1>1. Batch!UringAssumption
  BY GlmExpertsAssumption
<1>2. Init => BatchInv
  BY <1>1, BatchInit DEF Init
<1>3. BatchInv /\ [Next]_vars => BatchInv'
  <2>1. [Next]_vars => [Batch!Next]_batchVars
    BY DEF Next, PipeSteps, PilotSteps, UringSteps, RepinSteps, vars, batchVars
  <2>. QED
    BY <1>1, <2>1, BatchNext
<1>. QED
  BY <1>2, <1>3, PTL DEF Spec

\* Two finite sets of which one names the other's elements have as many.
LEMMA SameNumber ==
    ASSUME NEW S, NEW T, IsFiniteSet(S), NEW f \in [S -> T],
           \A x, y \in S : f[x] = f[y] => x = y, \A t \in T : \E x \in S : f[x] = t
    PROVE  IsFiniteSet(T) /\ Cardinality(T) = Cardinality(S)
<1>1. f \in Bijection(S, T)
  BY DEF Bijection, Injection, Surjection, IsInjective
<1>. QED
  BY <1>1, FS_Bijection DEF ExistsBijection

\* What a load waits for: its reads that are not over, and their completions.
LEMMA PendingIs ==
    ASSUME BatchInv, NEW k \in 1..Len(load)
    PROVE  load[k].pending =
             Cardinality({r \in flight \cup Batch!ToSet(sq) : r.slot = load[k].slot})
             + Cardinality({i \in 1..Len(cq) : cq[i].ud <= Len(req) /\ req[cq[i].ud] = k})
<1>. DEFINE Reads == flight \cup Batch!ToSet(sq)
            A == {r \in Reads : r.slot = load[k].slot}
            I == {i \in 1..Len(cq) : cq[i].ud <= Len(req) /\ req[cq[i].ud] = k}
            U == {u \in Unread(k) : \E r \in Reads : r.ud = u}
            V == {u \in Unread(k) : \E i \in 1..Len(cq) : cq[i].ud = u}
<1>1. \A r : r \in Reads <=> r \in flight \/ \E i \in 1..Len(sq) : r = sq[i]
  <2>1. DOMAIN sq = 1..Len(sq)
    BY DEF BatchInv, BatchTypes
  <2>. QED
    BY <2>1 DEF Batch!ToSet
<1>. HIDE DEF Reads
<1>2. /\ \A r, q \in Reads : r.ud = q.ud => r = q
      /\ \A r \in Reads, i \in 1..Len(cq) : r.ud # cq[i].ud
      /\ \A i, j \in 1..Len(cq) : cq[i].ud = cq[j].ud => i = j
      /\ \A i \in 1..Len(cq) : cq[i].ud \in 1..Len(req)
      /\ \A r \in Reads : r.ud \in 1..Len(req)
  <2>1. /\ \A r, q \in flight : r.ud = q.ud => r = q
        /\ \A i, j \in 1..Len(sq) : sq[i].ud = sq[j].ud => i = j
        /\ \A r \in flight, i \in 1..Len(sq) : sq[i].ud # r.ud
        /\ \A r \in flight, i \in 1..Len(cq) : cq[i].ud # r.ud
        /\ \A i \in 1..Len(sq), j \in 1..Len(cq) : sq[i].ud # cq[j].ud
        /\ \A i, j \in 1..Len(cq) : cq[i].ud = cq[j].ud => i = j
        /\ \A i \in 1..Len(cq) : cq[i].ud \in 1..Len(req)
        /\ \A r \in flight : r.ud \in 1..Len(req)
        /\ \A i \in 1..Len(sq) : sq[i].ud \in 1..Len(req)
    BY DEF BatchInv, Requested, Asked
  <2>2. \A r, q \in Reads : r.ud = q.ud => r = q
    BY <1>1, <2>1
  <2>. QED
    BY <1>1, <2>1, <2>2
<1>3. \A r \in Reads : r.slot = load[k].slot <=> req[r.ud] = k
  <2>1. ASSUME NEW r \in Reads PROVE r.slot = load[k].slot <=> req[r.ud] = k
    <3>1. load[req[r.ud]].slot = r.slot /\ req[r.ud] \in 1..Len(load)
      BY <1>1, ReadsReserved
    <3>. QED
      BY <3>1 DEF BatchInv, Reserved
  <2>. QED
    BY <2>1
<1>4. IsFiniteSet(Unread(k)) /\ load[k].pending = Cardinality(Unread(k))
  BY DEF BatchInv, Counts
<1>5. /\ \A u : u \in U <=> u \in 1..Len(req) /\ req[u] = k /\ \E r \in Reads : r.ud = u
      /\ \A u : u \in V <=> u \in 1..Len(req) /\ req[u] = k
                            /\ \E i \in 1..Len(cq) : cq[i].ud = u
  BY <1>1 DEF Unread
<1>6. U \cup V = Unread(k) /\ U \cap V = {}
  <2>1. U \cup V = Unread(k)
    BY <1>1 DEF Unread
  <2>. QED
    BY <1>2, <2>1
<1>7. /\ IsFiniteSet(U) /\ IsFiniteSet(V) /\ Cardinality(U) \in Nat /\ Cardinality(V) \in Nat
      /\ Cardinality(Unread(k)) = Cardinality(U) + Cardinality(V)
  <2>1. U \in SUBSET Unread(k) /\ V \in SUBSET Unread(k)
    OBVIOUS
  <2>. HIDE DEF U, V
  <2>2. IsFiniteSet(U) /\ IsFiniteSet(V)
    BY <1>4, <2>1, FS_Subset
  <2>3. Cardinality(U) \in Nat /\ Cardinality(V) \in Nat
    BY <2>2, FS_CardinalityType
  <2>4. /\ Cardinality(U \cup V) = Cardinality(U) + Cardinality(V) - Cardinality(U \cap V)
        /\ Cardinality(U \cap V) = 0
    <3>1. Cardinality(U \cup V) = Cardinality(U) + Cardinality(V) - Cardinality(U \cap V)
      BY <2>2, FS_Union
    <3>2. Cardinality(U \cap V) = 0
      BY <1>6, FS_EmptySet
    <3>. QED
      BY <3>1, <3>2
  <2>5. Cardinality(Unread(k)) = Cardinality(U \cup V)
    BY <1>6
  <2>6. Cardinality(U \cup V) = Cardinality(U) + Cardinality(V)
    BY <2>3, <2>4
  <2>. QED
    BY <2>2, <2>3, <2>5, <2>6
<1>. HIDE DEF U, V
<1>8. Cardinality(A) = Cardinality(U)
  <2>. DEFINE f == [u \in U |-> CHOOSE r \in A : r.ud = u]
  <2>1. ASSUME NEW u \in U PROVE f[u] \in A /\ f[u].ud = u
    <3>1. \E r \in A : r.ud = u
      BY <1>3, <1>5
    <3>. QED
      BY <3>1
  <2>2. ASSUME NEW r \in A PROVE r.ud \in U
    BY <1>2, <1>3, <1>5
  <2>3. \A r \in A : r \in Reads
    OBVIOUS
  <2>4. f \in [U -> A]
    BY <2>1
  <2>. HIDE DEF f, A
  <2>5. \A t \in A : f[t.ud] = t
    BY <1>2, <2>1, <2>2, <2>3
  <2>6. /\ \A x, y \in U : f[x] = f[y] => x = y
        /\ \A t \in A : \E x \in U : f[x] = t
    BY <2>1, <2>2, <2>5
  <2>. QED
    BY <1>7, <2>4, <2>6, SameNumber
<1>9. Cardinality(I) = Cardinality(V)
  <2>. DEFINE g == [u \in V |-> CHOOSE i \in I : cq[i].ud = u]
  <2>0. \A u \in 1..Len(req) : u <= Len(req)
    BY BatchIs
  <2>1. ASSUME NEW u \in V PROVE g[u] \in I /\ cq[g[u]].ud = u
    <3>1. \E i \in I : cq[i].ud = u
      BY <1>5, <2>0
    <3>. QED
      BY <3>1
  <2>2. ASSUME NEW i \in I PROVE cq[i].ud \in V /\ i \in 1..Len(cq)
    BY <1>2, <1>5
  <2>4. g \in [V -> I]
    BY <2>1
  <2>. HIDE DEF g, I
  <2>5. \A t \in I : g[cq[t].ud] = t
    BY <1>2, <2>1, <2>2
  <2>6. /\ \A x, y \in V : g[x] = g[y] => x = y
        /\ \A t \in I : \E x \in V : g[x] = t
    BY <2>1, <2>2, <2>5
  <2>. QED
    BY <1>7, <2>4, <2>6, SameNumber
<1>. QED
  BY <1>4, <1>7, <1>8, <1>9 DEF Reads

\* What the runs ask of the batches.
LEMMA BatchSound ==
    BatchInv => Batch!TypeOK /\ Batch!OwnSlot /\ Batch!CountsOwn /\ Batch!PublishedWhole
<1>. SUFFICES ASSUME BatchInv
              PROVE  Batch!TypeOK /\ Batch!OwnSlot /\ Batch!CountsOwn /\ Batch!PublishedWhole
  OBVIOUS
<1>1. /\ DOMAIN sq = 1..Len(sq) /\ DOMAIN cq = 1..Len(cq) /\ DOMAIN load = 1..Len(load)
      /\ DOMAIN req = 1..Len(req)
  BY DEF BatchInv, BatchTypes
<1>2. Batch!TypeOK
  <2>1. \A s \in Slots : /\ slots[s].eid \in Read \cup {Batch!Nobody}
                         /\ slots[s].state \in {"free", "reserved", "ready"}
    BY DEF BatchInv, BatchTypes, Slabs
  <2>. QED
    BY <1>1, <2>1 DEF BatchInv, BatchTypes, Batch!TypeOK
<1>3. Batch!OwnSlot
  BY <1>1, ReadsReserved DEF Batch!OwnSlot, Batch!ToSet
<1>4. Batch!CountsOwn
  <2>1. ASSUME NEW k \in 1..Len(load)
        PROVE  load[k].pending =
                 Batch!Cardinality({r \in flight \cup Batch!ToSet(sq) : r.slot = load[k].slot})
                 + Batch!Cardinality({i \in DOMAIN cq : cq[i].ud <= Len(req) /\ req[cq[i].ud] = k})
    BY <1>1, PendingIs, BatchCardinalities
  <2>. QED
    BY <1>1, <2>1 DEF Batch!CountsOwn
<1>. QED
  BY <1>2, <1>3, <1>4 DEF BatchInv

-----------------------------------------------------------------------------
(* The four together.                                                        *)

LEMMA StoreSound == Spec => []Store!TypeOK /\ []Store!SameSize
<1>1. StoreInv => Store!TypeOK /\ Store!SameSize
  <2>1. Tokens \in Nat
    BY GlmExpertsAssumption DEF Store!RepinAssumption
  <2>. QED
    BY <2>1 DEF StoreInv, StoreTypes, Store!TypeOK
<1>. QED
  BY <1>1, StoreAlways, PTL

LEMMA SetupKept == Spec => [](on \in Setups)
<1>1. Init => on \in Setups
  BY DEF Init
<1>2. on \in Setups /\ [Next]_vars => (on \in Setups)'
  BY DEF Next, PipeSteps, PilotSteps, UringSteps, RepinSteps, vars
<1>. QED
  BY <1>1, <1>2, PTL DEF Spec

\* The four mechanisms keep what their states relate: one thread reads a slab and
\* no read outlives its block (pipe_worker); an id in the cache stands for its
\* weights, once (pilot_realload against moe()); a read of a batch writes the slot
\* reserved for it and a load counts its own completions (uring_reap); the store
\* keeps its size (repin_pass).  Two hypotheses: no block of the pipeline is larger
\* than the one before, and io_uring_enter does not fail; without either the model
\* has a counterexample.
THEOREM MechanismsHold ==
    ASSUME EnterFails = FALSE
    PROVE  Spec /\ [][NoGrowth]_vars => []Consistent
<1>1. PipeInv /\ PilotInv /\ BatchInv /\ Store!TypeOK /\ Store!SameSize /\ on \in Setups
      => Consistent
  BY PipeSound, PilotSound, BatchSound DEF Consistent, TypeOK
<1>2. Spec => []BatchInv
  BY BatchAlways
<1>. QED
  BY <1>1, <1>2, PipeAlways, PilotAlways, StoreSound, SetupKept, PTL

\* What the forward multiplies by is whole: the slab it has waited for (pipe_wait),
\* the slot it took from the cache while the pilot reads (moe()), and the slots a
\* batch published (pilot_uring_batch); under the same two hypotheses.
THEOREM ForwardUsesWhole ==
    ASSUME EnterFails = FALSE
    PROVE  Spec /\ [][NoGrowth]_vars => []UsesWhole
<1>1. PipeInv /\ PilotInv /\ BatchInv => UsesWhole
  BY PipeSound, PilotSound, BatchSound DEF UsesWhole
<1>2. Spec => []BatchInv
  BY BatchAlways
<1>. QED
  BY <1>1, <1>2, PipeAlways, PilotAlways, PTL

\* With blocks of one size, whatever it is, no hypothesis on the steps is left.
THEOREM OneSizeHolds ==
    ASSUME EnterFails = FALSE, NEW n, Sizes = {n}
    PROVE  Spec => []Consistent /\ []UsesWhole
<1>1. Spec => [][NoGrowth]_vars
  BY OneSizeNeverGrows
<1>2. Spec /\ [][NoGrowth]_vars => []Consistent
  BY MechanismsHold
<1>3. Spec /\ [][NoGrowth]_vars => []UsesWhole
  BY ForwardUsesWhole
<1>. QED
  BY <1>1, <1>2, <1>3, PTL
=============================================================================
