------------------------------- MODULE Pilot --------------------------------
(* The pilot of src/c/engines/glm.c (PILOT_REAL=1, without io_uring): while  *)
(* the main thread computes layer l, a second thread reads the experts the   *)
(* next layers are predicted to need into their caches.  g_pilot_mx guards   *)
(* the choice and the publication of a slot; the read itself runs outside    *)
(* it.  What is atomic here is one section under the lock, or one step       *)
(* outside it.  Any slot may be the least recently used one.                 *)
EXTENDS Integers, Sequences, FiniteSets

CONSTANTS NL,        \* MoE layers, 0 .. NL - 1
          Experts,   \* expert ids, numbers
          Cap,       \* ecap: slots of a layer's cache
          K,         \* experts routed per layer, and predicted per layer
          Ring,      \* entries of pilot_q, 4096 in the source
          Forwards   \* forwards in a run of the model

PilotAssumption ==
  /\ {NL, Cap, K, Ring} \subseteq Nat \ {0} /\ Forwards \in Nat
  /\ Experts \subseteq Nat /\ Experts # {} /\ IsFiniteSet(Experts)

Layers == 0..NL - 1
SlotIds == 1..Cap
None == -1        \* eid of a slot that holds nothing, and its data while it is written

VARIABLES
  cache,      \* per layer and slot: the id it shows and the weights it holds
  ecn,        \* per layer: how many slots are in use
  curMoe,     \* g_cur_moe_layer
  inflight,   \* g_pilot_inflight
  queue,      \* pilot_q, between pilot_r and pilot_w
  main,       \* step, layer, predictions left, the prediction at hand, routed, misses, forwards
  pilot       \* step, its job, its slot, whether that slot is new

vars == <<cache, ecn, curMoe, inflight, queue, main, pilot>>

Empty == [eid |-> None, data |-> None]

Init ==
  /\ cache = [l \in Layers |-> [z \in SlotIds |-> Empty]]
  /\ ecn = [l \in Layers |-> 0]
  /\ curMoe = -1 /\ inflight = [l \in Layers |-> 0] /\ queue = <<>>
  /\ main = [pc |-> "between", l |-> 0, guesses |-> 0, guess |-> None,
             hits |-> {}, misses |-> {}, promo |-> 0, forwards |-> 0]
  /\ pilot = [pc |-> "idle", l |-> 0, e |-> None, z |-> 1, isnew |-> FALSE]

InUse(l) == 1..ecn[l]
Resident(l, e) == \E z \in InUse(l) : cache[l][z].eid = e

-----------------------------------------------------------------------------
(* The forward on the main thread: layers_forward_rows and moe.              *)

\* Layers are owned anew from the first on.
ForwardBegins ==
  /\ main.pc = "between" /\ main.forwards < Forwards
  /\ curMoe' = -1
  /\ main' = [main EXCEPT !.pc = "predict", !.l = 0, !.guesses = K, !.forwards = @ + 1]
  /\ UNCHANGED <<cache, ecn, inflight, queue, pilot>>

\* pilot_prefetch: the residency scan of the next layer under the lock ...
Scan ==
  /\ main.pc = "predict" /\ main.guesses > 0 /\ main.l + 1 < NL
  /\ \E e \in Experts :
       main' = IF Resident(main.l + 1, e) THEN [main EXCEPT !.guesses = @ - 1]
               ELSE [main EXCEPT !.pc = "enqueue", !.guesses = @ - 1, !.guess = e]
  /\ UNCHANGED <<cache, ecn, curMoe, inflight, queue, pilot>>

FitsOneMore == Len(queue) <= Ring
Fits == Len(queue) < Ring

\* ... and the entry after it; a full ring drops the hint.
Enqueue ==
  /\ main.pc = "enqueue"
  /\ queue' = IF Fits THEN Append(queue, <<main.l + 1, main.guess>>) ELSE queue
  /\ main' = [main EXCEPT !.pc = "predict", !.guess = None]
  /\ UNCHANGED <<cache, ecn, curMoe, inflight, pilot>>

\* moe takes possession of its layer.
Enter ==
  /\ main.pc = "predict"
  /\ curMoe' = main.l
  /\ main' = [main EXCEPT !.pc = "barrier"]
  /\ UNCHANGED <<cache, ecn, inflight, queue, pilot>>

\* pthread_cond_wait until the read in flight on this very layer is over.
BarrierSleeps ==
  /\ main.pc = "barrier" /\ inflight[main.l] > 0
  /\ main' = [main EXCEPT !.pc = "asleep"]
  /\ UNCHANGED <<cache, ecn, curMoe, inflight, queue, pilot>>

FreeAlways == TRUE
Free == inflight[main.l] = 0

\* The routed set is resolved: a slot of the cache, or a slab of ws[] that is
\* read at once.
Resolve ==
  /\ main.pc = "barrier" /\ Free
  /\ \E R \in SUBSET Experts :
       /\ R # {} /\ Cardinality(R) <= K
       /\ main' = [main EXCEPT !.pc = "use",
                     !.hits = {z \in InUse(main.l) : cache[main.l][z].eid \in R},
                     !.misses = {e \in R : ~Resident(main.l, e)}]
  /\ UNCHANGED <<cache, ecn, curMoe, inflight, queue, pilot>>

\* The matmuls are over.
Used ==
  /\ main.pc = "use"
  /\ main' = [main EXCEPT !.pc = "promote", !.hits = {},
                !.promo = IF Cardinality(main.misses) < Cap THEN Cardinality(main.misses) ELSE Cap]
  /\ UNCHANGED <<cache, ecn, curMoe, inflight, queue, pilot>>

\* One slab of ws[] is swapped into the cache.
Promote ==
  /\ main.pc = "promote" /\ main.promo > 0
  /\ \E e \in main.misses, z \in SlotIds :
       /\ IF ecn[main.l] < Cap THEN z = ecn[main.l] + 1 ELSE z \in InUse(main.l)
       /\ cache' = [cache EXCEPT ![main.l][z] = [eid |-> e, data |-> e]]
       /\ ecn' = [ecn EXCEPT ![main.l] = IF @ < Cap THEN @ + 1 ELSE @]
       /\ main' = [main EXCEPT !.misses = @ \ {e}, !.promo = @ - 1]
  /\ UNCHANGED <<curMoe, inflight, queue, pilot>>

LayerEnds ==
  /\ main.pc = "promote" /\ main.promo = 0
  /\ main' = IF main.l + 1 < NL
             THEN [main EXCEPT !.pc = "predict", !.l = @ + 1, !.guesses = K, !.misses = {}]
             ELSE [main EXCEPT !.pc = "between", !.misses = {}]
  /\ UNCHANGED <<cache, ecn, curMoe, inflight, queue, pilot>>

-----------------------------------------------------------------------------
(* pilot_worker and pilot_realload.                                          *)

Done == [pilot EXCEPT !.pc = "idle", !.e = None]

\* The entry is read, and freed only after it has been served.
Take ==
  /\ pilot.pc = "idle" /\ queue # <<>>
  /\ pilot' = [pilot EXCEPT !.pc = "check", !.l = Head(queue)[1], !.e = Head(queue)[2]]
  /\ UNCHANGED <<cache, ecn, curMoe, inflight, queue, main>>

OwnedLess(l) == l < curMoe
Owned(l) == l <= curMoe
ResidentUnchecked(l, e) == FALSE
AlreadyThere(l, e) == Resident(l, e)
HiddenNot(l, z) == cache
Hidden(l, z) == [cache EXCEPT ![l][z].eid = None]

\* Dropped: the layer is owned by the main thread, or the expert is there.
Drop ==
  /\ pilot.pc = "check"
  /\ Owned(pilot.l) \/ AlreadyThere(pilot.l, pilot.e)
  /\ pilot' = Done /\ queue' = Tail(queue)
  /\ UNCHANGED <<cache, ecn, curMoe, inflight, main>>

\* The slot is chosen and hidden.
Reserve ==
  /\ pilot.pc = "check" /\ ~Owned(pilot.l) /\ ~AlreadyThere(pilot.l, pilot.e)
  /\ \E z \in SlotIds :
       /\ IF ecn[pilot.l] < Cap THEN z = ecn[pilot.l] + 1 ELSE z \in InUse(pilot.l)
       /\ cache' = Hidden(pilot.l, z)
       /\ pilot' = [pilot EXCEPT !.pc = "open", !.z = z, !.isnew = ecn[pilot.l] < Cap]
  /\ inflight' = [inflight EXCEPT ![pilot.l] = @ + 1]
  /\ UNCHANGED <<ecn, curMoe, queue, main>>

\* expert_load, outside the lock: the weights are torn from here to LoadEnds.
LoadBegins ==
  /\ pilot.pc = "open"
  /\ cache' = [cache EXCEPT ![pilot.l][pilot.z].data = None]
  /\ pilot' = [pilot EXCEPT !.pc = "read"]
  /\ UNCHANGED <<ecn, curMoe, inflight, queue, main>>

LoadEnds ==
  /\ pilot.pc = "read"
  /\ \/ /\ cache' = [cache EXCEPT ![pilot.l][pilot.z] = [eid |-> pilot.e, data |-> pilot.e]]
        /\ pilot' = [pilot EXCEPT !.pc = "publish"]
     \/ UNCHANGED cache /\ pilot' = [pilot EXCEPT !.pc = "failed"]
  /\ UNCHANGED <<ecn, curMoe, inflight, queue, main>>

WokenNot == main
Woken == IF main.pc = "asleep" THEN [main EXCEPT !.pc = "barrier"] ELSE main

\* A new slot counts only now; a read that failed leaves its slot hidden.
Publish ==
  /\ pilot.pc \in {"publish", "failed"}
  /\ ecn' = IF pilot.pc = "publish" /\ pilot.isnew
            THEN [ecn EXCEPT ![pilot.l] = pilot.z] ELSE ecn
  /\ inflight' = [inflight EXCEPT ![pilot.l] = @ - 1]
  /\ pilot' = Done /\ queue' = Tail(queue) /\ main' = Woken
  /\ UNCHANGED <<cache, curMoe>>

-----------------------------------------------------------------------------
Main ==
  \/ ForwardBegins \/ Scan \/ Enqueue \/ Enter \/ BarrierSleeps \/ Resolve \/ Used
  \/ Promote \/ LayerEnds

\* An idle worker polls the ring: usleep(200).
Poll == pilot.pc = "idle" /\ queue = <<>> /\ UNCHANGED vars

Worker == Take \/ Drop \/ Reserve \/ LoadBegins \/ LoadEnds \/ Publish

Next == Main \/ Worker \/ Poll

Spec == Init /\ [][Next]_vars

\* Both threads run, and a read ends.
FairSpec == Spec /\ WF_vars(Main) /\ WF_vars(Worker)

-----------------------------------------------------------------------------
Eids == Experts \cup {None}
TypeOK ==
  /\ cache \in [Layers -> [SlotIds -> [eid : Eids, data : Eids]]]
  /\ ecn \in [Layers -> 0..Cap] /\ curMoe \in Layers \cup {-1}
  /\ inflight \in [Layers -> 0..1] /\ Len(queue) <= Ring

(* "Nessuno slot mezzo-caricato viene mai matmul-ato": a slot the main       *)
(* thread computes with holds what it shows, and the pilot is not in it.     *)
UsesWhole ==
  main.pc = "use" =>
    \A z \in main.hits :
      /\ cache[main.l][z].data = cache[main.l][z].eid /\ cache[main.l][z].eid # None
      /\ ~(inflight[main.l] > 0 /\ pilot.l = main.l /\ pilot.z = z)

(* What a scan may see: an id in a slot in use stands for its weights, so    *)
(* the pilot changes which expert is resident and never what one computes.   *)
Truthful ==
  \A l \in Layers : \A z \in InUse(l) :
    cache[l][z].eid # None => cache[l][z].data = cache[l][z].eid

(* No expert fills two slots of a layer, however late a prediction is served *)
(* that was made before the main thread read the same expert itself.         *)
OneCopy ==
  \A l \in Layers : \A y, z \in InUse(l) :
    cache[l][y].eid = cache[l][z].eid /\ y # z => cache[l][z].eid = None

(* The barrier opens: every forward ends, whatever the pilot is reading.     *)
ForwardsEnd == (main.pc # "between") ~> (main.pc = "between")
=============================================================================
