----------------------------- MODULE ExpertCache -----------------------------
(***************************************************************************)
(* The cache of one MoE layer's experts (src/c/runtime/moecache.c) and the *)
(* three that use it: the warm-up after loading a model, which several     *)
(* threads may run (engines' ENGINE_POST_INIT), the single-token path,     *)
(* which fetches all K experts of a token and then computes, and the batch *)
(* path, which computes with each expert as it comes (src/c/nn/moe.c).     *)
(*                                                                         *)
(* A slot names an expert and holds weights; fetching is four steps, so    *)
(* that two threads may interleave.  Only the warm-up has two threads.     *)
(***************************************************************************)
EXTENDS Tier, Sequences, Functions, FiniteSetsExt

CONSTANTS E,         \* experts of the layer: 0 .. E-1
          K,         \* experts per token
          Team,      \* threads of the warm-up
          Setups,    \* caches considered: cap, pins, paths
          HeatMax,   \* the counter saturates (2^32 - 1)
          Passes     \* bound: forward passes of a run

Experts == 0 .. E - 1
None    == -1
Caller  == CHOOSE t \in Team : TRUE

CacheAssumption ==
    /\ E \in Nat \ {0} /\ K \in 1 .. E /\ Team # {}
    /\ \A u \in Setups :
          /\ u.cap \in 1 .. E /\ u.paths \subseteq {"single", "batch"}
          /\ u.pins \in Seq(Experts) /\ IsInjective(u.pins)
    /\ HeatMax \in Nat /\ Passes \in Nat

VARIABLES setup,     \* the cache of this run
          phase,     \* "pin", "warm", "serve"
          next,      \* pin: pins made; warm: experts handed out; serve: passes
          pc, want,  \* per thread: where it is in expert_get, for which expert
          at,        \* per thread: the slot it has found or taken
          tick, nn,  \* per thread: lc->clock and lc->n as it read them
          n,         \* slots filled
          eid,       \* slot -> the expert it names
          holds,     \* slot -> the expert whose weights are in its buffers
          heat, last, clock, pinned,
          hits, misses,
          path, plan,  \* this pass: how it computes, the experts left to fetch
          es,        \* the slots collected for a token: <<expert, slot>>
          used,      \* history: <<expert routed, weights computed with>>
          asked      \* history: how often each expert was asked for

thread == <<pc, want, at, tick, nn>>
store  == <<n, eid, holds>>
stats  == <<heat, last, clock, hits, misses, asked>>
pass   == <<path, plan, es, used>>
vars   == <<setup, phase, next, thread, store, stats, pinned, pass>>

Cap   == setup.cap     \* slots, EXPERT_CACHE
Pins  == setup.pins    \* experts pinned before anything is fetched
Paths == setup.paths   \* how the layer may compute: "single", "batch"
Slots == 1 .. Cap
Zero  == [e \in Experts |-> 0]

Init == /\ setup \in Setups /\ phase = "pin" /\ next = 0
        /\ pc = [t \in Team |-> "idle"] /\ want = [t \in Team |-> None]
        /\ at = [t \in Team |-> None]
        /\ tick = [t \in Team |-> 0] /\ nn = [t \in Team |-> 0]
        /\ n = 0 /\ eid = [s \in Slots |-> None] /\ holds = [s \in Slots |-> None]
        /\ heat = Zero /\ last = Zero /\ clock = 0 /\ pinned = {}
        /\ hits = 0 /\ misses = 0 /\ asked = Zero
        /\ path = "batch" /\ plan = <<>> /\ es = <<>> /\ used = {}

-----------------------------------------------------------------------------
(***************************************************************************)
(* expert_get, by thread t.                                                *)
(***************************************************************************)
Ask(t, e) == /\ pc[t] = "idle"
             /\ pc' = [pc EXCEPT ![t] = "touch"]
             /\ want' = [want EXCEPT ![t] = e]
             /\ asked' = [asked EXCEPT ![e] = @ + 1]
             /\ UNCHANGED <<at, tick, nn, store, heat, last, clock, hits, misses, pinned>>

\* heat[eid]++, and the tick read of last[eid] = clock++
Touch(t) == /\ pc[t] = "touch"
            /\ heat' = [heat EXCEPT ![want[t]] = IF @ < HeatMax THEN @ + 1 ELSE @]
            /\ last' = [last EXCEPT ![want[t]] = clock]
            /\ tick' = [tick EXCEPT ![t] = clock]
            /\ pc' = [pc EXCEPT ![t] = "look"]
            /\ UNCHANGED <<phase, next, want, at, nn, store, clock, hits, misses, asked,
                           pinned, pass>>

FoundShort(e) == {s \in 1 .. n - 1 : eid[s] = e}       \* mutant: i < n-1
Score(c) == [e \in Experts |-> LfruScore(heat[e], last[e], c)]
Residents == {s \in 1 .. n : eid[s] \in Experts}
Found(e)  == {s \in Residents : eid[s] = e}

\* Mutants: the pins are forgotten; the first slot that is not pinned goes.
VictimsPinned(c) == LET cold == {s \in Residents : \A x \in Residents :
                                    Score(c)[eid[s]] <= Score(c)[eid[x]]}
                    IN  IF cold = {} THEN {1} ELSE {Min(cold)}
VictimsFirst(c)  == LET free == {s \in Residents : eid[s] \notin pinned}
                    IN  IF free = {} THEN {1} ELSE {Min(free)}

\* The unpinned resident of lowest score, the first of equals; else slot 1.
Victims(c) == LET free == {s \in Residents : eid[s] \notin pinned}
                  cold == {s \in free : \A x \in free :
                              Score(c)[eid[s]] <= Score(c)[eid[x]]}
              IN  IF free = {} THEN {1} ELSE {Min(cold)}

Tick(t) == (tick[t] + 1) % TickMod
Hit(t) == /\ pc[t] = "look" /\ Found(want[t]) # {}
          /\ clock' = Tick(t)
          /\ hits' = hits + 1
          /\ at' = [at EXCEPT ![t] = Min(Found(want[t]))]
          /\ pc' = [pc EXCEPT ![t] = "got"]
          /\ UNCHANGED <<phase, next, want, tick, nn, store, heat, last, misses, asked,
                         pinned, pass>>

\* Mutant: n <= cap.
MissOver(t) == /\ pc[t] = "look" /\ Found(want[t]) = {} /\ n <= Cap
               /\ clock' = Tick(t)
               /\ misses' = misses + 1
               /\ nn' = [nn EXCEPT ![t] = n]
               /\ pc' = [pc EXCEPT ![t] = "grow"]
               /\ UNCHANGED <<phase, next, want, at, tick, store, heat, last, hits, asked,
                              pinned, pass>>

\* A free slot: lc->n is read here and written by Grow.
Miss(t) == /\ pc[t] = "look" /\ Found(want[t]) = {} /\ n < Cap
           /\ clock' = Tick(t)
           /\ misses' = misses + 1
           /\ nn' = [nn EXCEPT ![t] = n]
           /\ pc' = [pc EXCEPT ![t] = "grow"]
           /\ UNCHANGED <<phase, next, want, at, tick, store, heat, last, hits, asked,
                          pinned, pass>>

Evict(t) == /\ pc[t] = "look" /\ Found(want[t]) = {} /\ n = Cap
            /\ clock' = Tick(t)
            /\ misses' = misses + 1
            /\ \E s \in Victims(Tick(t)) : at' = [at EXCEPT ![t] = s]
            /\ pc' = [pc EXCEPT ![t] = "load"]
            /\ UNCHANGED <<phase, next, want, tick, nn, store, heat, last, hits, asked,
                           pinned, pass>>

Grow(t) == /\ pc[t] = "grow"
           /\ n' = nn[t] + 1
           /\ at' = [at EXCEPT ![t] = nn[t] + 1]
           /\ pc' = [pc EXCEPT ![t] = "load"]
           /\ UNCHANGED <<phase, next, want, tick, nn, eid, holds, stats, pinned, pass>>

\* Mutant: the weights are read only when the buffers are allocated.
LoadOnce(t) == /\ pc[t] = "load"
               /\ holds' = [holds EXCEPT ![at[t]] = IF @ = None THEN want[t] ELSE @]
               /\ pc' = [pc EXCEPT ![t] = "name"]
               /\ UNCHANGED <<phase, next, want, at, tick, nn, n, eid, stats, pinned, pass>>

\* fn() fills the slot's buffers
Load(t) == /\ pc[t] = "load"
           /\ holds' = [holds EXCEPT ![at[t]] = want[t]]
           /\ pc' = [pc EXCEPT ![t] = "name"]
           /\ UNCHANGED <<phase, next, want, at, tick, nn, n, eid, stats, pinned, pass>>

\* Mutant: only a new slot is named.
NameNew(t) == /\ pc[t] = "name"
              /\ eid' = [eid EXCEPT ![at[t]] = IF @ = None THEN want[t] ELSE @]
              /\ pc' = [pc EXCEPT ![t] = "got"]
              /\ UNCHANGED <<phase, next, want, at, tick, nn, n, holds, stats, pinned, pass>>

Name(t) == /\ pc[t] = "name"
           /\ eid' = [eid EXCEPT ![at[t]] = want[t]]
           /\ pc' = [pc EXCEPT ![t] = "got"]
           /\ UNCHANGED <<phase, next, want, at, tick, nn, n, holds, stats, pinned, pass>>

Get(t) == Touch(t) \/ Hit(t) \/ Miss(t) \/ Evict(t) \/ Grow(t) \/ Load(t) \/ Name(t)

Free(t) == /\ pc[t] = "got" /\ pc' = [pc EXCEPT ![t] = "idle"]
           /\ UNCHANGED <<want, at, tick, nn, store, stats, pinned>>

-----------------------------------------------------------------------------
(***************************************************************************)
(* expert_pin marks an expert and loads it at once, without looking        *)
(* whether it is resident; callers pin right after the cache is made.      *)
(***************************************************************************)
\* Mutant: the expert is pinned and named, its weights are not read.
PinNamed == /\ phase = "pin" /\ next < Len(Pins)
            /\ pinned' = pinned \cup {Pins[next + 1]}
            /\ n' = IF n < Cap THEN n + 1 ELSE n
            /\ eid' = [eid EXCEPT ![IF n < Cap THEN n + 1 ELSE 1] = Pins[next + 1]]
            /\ next' = next + 1
            /\ UNCHANGED <<phase, thread, holds, stats, pass>>

Pin == /\ phase = "pin" /\ next < Len(Pins)
       /\ pinned' = pinned \cup {Pins[next + 1]}
       /\ n' = IF n < Cap THEN n + 1 ELSE n
       /\ LET free == {s \in Residents : eid[s] \notin pinned'}
              s    == IF n < Cap THEN n + 1 ELSE IF free = {} THEN 1 ELSE Min(free)
          IN  /\ eid' = [eid EXCEPT ![s] = Pins[next + 1]]
              /\ holds' = [holds EXCEPT ![s] = Pins[next + 1]]
       /\ next' = next + 1
       /\ UNCHANGED <<phase, thread, stats, pass>>

Pinned == /\ phase = "pin" /\ next = Len(Pins)
          /\ phase' = "warm" /\ next' = 0
          /\ UNCHANGED <<thread, store, stats, pinned, pass>>

\* The warm-up hands every expert of the layer to some thread.
WarmUp(t) == /\ phase = "warm" /\ next < E
             /\ Ask(t, next)
             /\ next' = next + 1
             /\ UNCHANGED <<phase, pass>>

WarmNext(t) == phase = "warm" /\ Free(t) /\ UNCHANGED <<phase, next, pass>>

Warmed == /\ phase = "warm" /\ next = E /\ \A t \in Team : pc[t] = "idle"
          /\ phase' = "serve" /\ next' = 0
          /\ UNCHANGED <<thread, store, stats, pinned, pass>>

-----------------------------------------------------------------------------
(***************************************************************************)
(* One forward through the layer.  A token is routed to K experts, in any  *)
(* order (by weight); a batch asks in ascending order for what its tokens  *)
(* need.                                                                   *)
(***************************************************************************)
Idle == phase = "serve" /\ plan = <<>> /\ es = <<>> /\ pc[Caller] = "idle"

Plans(p) == IF p = "single" THEN {q \in [1 .. K -> Experts] : IsInjective(q)}
            ELSE {q \in UNION {[1 .. m -> Experts] : m \in K .. E} :
                    \A i, j \in DOMAIN q : i < j => q[i] < q[j]}

Route == /\ Idle /\ next < Passes
         /\ path' \in Paths
         /\ plan' \in Plans(path')
         /\ used' = {}
         /\ next' = next + 1
         /\ UNCHANGED <<phase, thread, store, stats, pinned, es>>

Fetch == /\ phase = "serve" /\ plan # <<>>
         /\ Ask(Caller, Head(plan))
         /\ plan' = Tail(plan)
         /\ UNCHANGED <<phase, next, path, es, used>>

\* Batch: compute with the slot just returned.
UseOne == /\ phase = "serve" /\ path = "batch"
          /\ Free(Caller)
          /\ used' = used \cup {<<want[Caller], holds[at[Caller]]>>}
          /\ UNCHANGED <<phase, next, path, plan, es>>

\* Single token: es[kk] = expert_get(...)
Collect == /\ phase = "serve" /\ path = "single"
           /\ Free(Caller)
           /\ es' = Append(es, <<want[Caller], at[Caller]>>)
           /\ UNCHANGED <<phase, next, path, plan, used>>

\* ... and the two regions then read every slot of es.
UseAll == /\ phase = "serve" /\ Len(es) = K
          /\ used' = {<<x[1], holds[x[2]]>> : x \in Range(es)}
          /\ es' = <<>>
          /\ UNCHANGED <<phase, next, thread, store, stats, pinned, path, plan>>

Serve == Route \/ Fetch \/ UseOne \/ Collect \/ UseAll

Finished == Idle /\ next = Passes /\ UNCHANGED vars

Step == \/ Pin \/ Pinned \/ Warmed \/ Serve
        \/ \E t \in Team : Get(t) \/ WarmUp(t) \/ WarmNext(t)

Next == (Step /\ UNCHANGED setup) \/ Finished

Spec == Init /\ [][Next]_vars
-----------------------------------------------------------------------------
(***************************************************************************)
(* Properties.                                                             *)
(***************************************************************************)
Quiet == \A t \in Team : pc[t] = "idle"

\* Every variable has its type and the filled slots are a prefix.
TypeOK == /\ phase \in {"pin", "warm", "serve"} /\ next \in Nat
          /\ \A t \in Team :
                /\ pc[t] \in {"idle", "touch", "look", "grow", "load", "name", "got"}
                /\ want[t] \in Experts \cup {None}
                /\ at[t] \in Slots \cup {None}
          /\ n \in 0 .. Cap
          /\ \A s \in Slots : /\ eid[s] \in Experts \cup {None}
                              /\ (Quiet => (eid[s] = None <=> s > n))
          /\ heat \in [Experts -> 0 .. HeatMax] /\ pinned \subseteq Experts

(***************************************************************************)
(* When no fetch is under way, a slot holds the weights of the expert it   *)
(* names, and no expert is resident twice (moe.h: "ritorna lo slot per     *)
(* (layer,eid)").                                                          *)
(***************************************************************************)
SlotsTrue == Quiet => \A s, x \in 1 .. n : /\ holds[s] = eid[s]
                                           /\ (eid[s] = eid[x] => s = x)

(***************************************************************************)
(* A forward computes with the weights of the experts the router chose.    *)
(***************************************************************************)
UsesRouted == \A u \in used : u[1] = u[2]

(***************************************************************************)
(* A pinned expert stays resident ("mai evicto", moe.h).                   *)
(***************************************************************************)
PinnedStays == phase # "pin" =>
                  \A e \in pinned : \E s \in 1 .. n : eid[s] = e /\ holds[s] = e

(***************************************************************************)
(* The expert that loses its slot was never asked for more often than an   *)
(* unpinned one that keeps its own: the cache keeps the hot ones.          *)
(***************************************************************************)
KeepsHot == [][ \A s \in Slots :
                  (holds[s] # None /\ holds'[s] # holds[s]) =>
                     \A x \in Slots \ {s} :
                        eid[x] \in pinned \/ asked[holds[s]] <= asked[eid[x]] ]_vars

(***************************************************************************)
(* With a slot for every expert nothing is read from disk after the        *)
(* warm-up: each expert was read once ("cap>=n_experts => niente eviction  *)
(* mai").                                                                  *)
(***************************************************************************)
ReadOnce == (Cap = E /\ phase = "serve") => misses + Len(Pins) = E

=============================================================================
