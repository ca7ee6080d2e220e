------------------------------- MODULE Uring --------------------------------
(* The batches of expert reads over io_uring (src/c/io/uring.h and URING=1   *)
(* in src/c/engines/glm.c), as the pilot drives them: it reserves slots of   *)
(* one layer's cache, queues the reads of their experts, submits them in one *)
(* call and publishes each slot when its reads are done.  The kernel takes   *)
(* what is queued in order, in one call or in several, and completes it in   *)
(* any order, whole or short.                                                *)
EXTENDS Integers, Sequences, FiniteSets, SequencesExt

CONSTANTS Experts, Slots,
          Parts,       \* the reads one expert takes: weights and scales
          LoadMax,     \* URING_LOAD_MAX
          EnterFails,  \* whether io_uring_enter may return an error
          Batches      \* how many batches are submitted in a run

UringAssumption ==
  /\ LoadMax \in Nat \ {0} /\ Batches \in Nat /\ EnterFails \in {TRUE, FALSE}
  /\ IsFiniteSet(Parts) /\ Parts # {}

Torn == "torn"   \* what a read leaves before it is over, or when it is short
Nobody == "nobody"

VARIABLES
  pc,       \* the pilot: fill, reap or wait
  slots,    \* eid and state of each slot, and what its slab holds
  load,     \* UringBatch.load: slot, eid, pending, done, error
  req,      \* UringBatch.req: the load each read of this batch is for
  sq,       \* entries queued and not taken by the kernel
  flight,   \* entries the kernel works on
  cq,       \* completions not reaped: user_data, and whether it was whole
  li,       \* the load that is finalized next
  batches

vars == <<pc, slots, load, req, sq, flight, cq, li, batches>>

Current == load[li]

Init ==
  /\ pc = "fill" /\ load = <<>> /\ req = <<>> /\ sq = <<>> /\ flight = {} /\ cq = <<>>
  /\ slots = [s \in Slots |-> [eid |-> Nobody, state |-> "free", data |-> [p \in Parts |-> Torn]]]
  /\ li = 1 /\ batches = 0

-----------------------------------------------------------------------------
(* Filling a batch: pilot_uring_batch, uring_load_add                        *)

\* found: resident, or reserved for this expert
Found(e) == \E s \in Slots : slots[s].state # "free" /\ slots[s].eid = e

\* a slot nobody uses, else any that is not reserved (the least recently used)
Victim(s) == IF \E t \in Slots : slots[t].state = "free" THEN slots[s].state = "free"
             ELSE slots[s].state = "ready"

Entries(s, e, ps) ==
  [k \in 1..Len(ps) |-> [ud |-> Len(req) + k, slot |-> s, part |-> ps[k], eid |-> e]]

\* the expert's tensors are found, and its reads are queued ...
Queue(s, e) ==
  LET ps == SetToSeq(Parts) IN
  /\ req' = req \o [k \in 1..Len(ps) |-> Len(load) + 1]
  /\ sq' = sq \o Entries(s, e, ps)
  /\ load' = Append(load, [slot |-> s, eid |-> e, pending |-> Len(ps),
                           done |-> FALSE, error |-> FALSE])

\* ... or they are not: the load is over at once, with an error
NoTensor(s, e) ==
  /\ load' = Append(load, [slot |-> s, eid |-> e, pending |-> 0, done |-> TRUE, error |-> TRUE])
  /\ UNCHANGED <<req, sq>>

Room == Len(load) < LoadMax

Reserve(s, e) ==
  /\ pc = "fill" /\ Room /\ batches < Batches
  /\ ~Found(e) /\ Victim(s)
  /\ slots' = [slots EXCEPT ![s].eid = e, ![s].state = "reserved"]
  /\ Queue(s, e) \/ NoTensor(s, e)
  /\ UNCHANGED <<pc, flight, cq, li, batches>>

-----------------------------------------------------------------------------
(* io_uring_enter: the kernel takes a part of what is queued, at least one   *)

Overwritten(taken) ==
  [s \in Slots |-> [slots[s] EXCEPT !.data = [p \in Parts |->
     IF \E r \in taken : r.slot = s /\ r.part = p THEN Torn ELSE @[p]]]]

Stays == UNCHANGED <<slots, sq, flight>>
Taken == \E n \in 1..Len(sq) :
  LET taken == {sq[k] : k \in 1..n} IN
  /\ sq' = SubSeq(sq, n + 1, Len(sq))
  /\ flight' = flight \cup taken
  /\ slots' = Overwritten(taken)

FailedAll(ls) == [k \in DOMAIN ls |-> [ls[k] EXCEPT !.done = TRUE, !.error = TRUE]]

Submit ==
  /\ pc = "fill" /\ load # <<>>
  /\ \/ sq # <<>> /\ Taken /\ UNCHANGED load /\ pc' = "reap"
     \/ sq = <<>> /\ Stays /\ UNCHANGED load /\ pc' = "reap"
     \/ EnterFails /\ load' = FailedAll(load) /\ Stays /\ pc' = "wait"
  /\ li' = 1 /\ batches' = batches + 1
  /\ UNCHANGED <<req, cq>>

\* the kernel: a read is over, whole or not
Complete(r, whole) ==
  /\ flight' = flight \ {r}
  /\ slots' = [slots EXCEPT ![r.slot].data[r.part] = IF whole THEN r.eid ELSE Torn]
  /\ cq' = Append(cq, [ud |-> r.ud, whole |-> whole])
  /\ UNCHANGED <<pc, load, req, sq, li, batches>>

-----------------------------------------------------------------------------
(* Reaping: uring_reap, uring_wait_load                                      *)

Over(pending) == pending = 0

\* one completion, counted for the load of the request it names
Counted(ls, c) ==
  IF c.ud > Len(req) THEN ls
  ELSE LET k == req[c.ud]
           left == IF ls[k].pending > 0 THEN ls[k].pending - 1 ELSE 0
       IN  [ls EXCEPT ![k].pending = left, ![k].error = @ \/ ~c.whole,
                      ![k].done = @ \/ Over(left)]

\* one turn of the loop of uring_reap: a completion is taken off the ring ...
Reap ==
  /\ pc = "reap" /\ cq # <<>>
  /\ load' = Counted(load, Head(cq))
  /\ cq' = Tail(cq)
  /\ UNCHANGED <<pc, slots, req, sq, flight, li, batches>>

\* ... until there is none
ReapEnds ==
  /\ pc = "reap" /\ cq = <<>>
  /\ pc' = "wait"
  /\ UNCHANGED <<slots, load, req, sq, flight, cq, li, batches>>

\* the load is not over: enter submits what the call before left in the ring,
\* and blocks for one completion when nothing is left
TakenRest == Taken

Wait ==
  /\ pc = "wait" /\ ~Current.done
  /\ \/ sq # <<>> /\ TakenRest /\ UNCHANGED load /\ pc' = "reap"
     \/ sq = <<>> /\ cq # <<>> /\ Stays /\ UNCHANGED load /\ pc' = "reap"
     \/ /\ EnterFails /\ Stays
        /\ load' = [load EXCEPT ![li].done = TRUE, ![li].error = TRUE]
        /\ UNCHANGED pc
  /\ UNCHANGED <<req, cq, li, batches>>

-----------------------------------------------------------------------------
(* Publishing: uring_finalize_load and the end of pilot_uring_batch; the     *)
(* next batch starts with uring_batch_reset                                  *)

Outcome(l) == IF l.error THEN "free" ELSE "ready"

LastLoad == li = Len(load)

Publish ==
  /\ pc = "wait" /\ Current.done
  /\ slots' = [slots EXCEPT ![Current.slot].state = Outcome(Current)]
  /\ IF LastLoad THEN pc' = "fill" /\ load' = <<>> /\ req' = <<>> /\ li' = 1
     ELSE /\ pc' = IF load[li + 1].done THEN "wait" ELSE "reap"
          /\ li' = li + 1 /\ UNCHANGED <<load, req>>
  /\ UNCHANGED <<sq, flight, cq, batches>>

\* the bound of a run is reached
Finished == pc = "fill" /\ load = <<>> /\ batches = Batches /\ UNCHANGED vars

Kernel == \E r \in flight : \E whole \in {TRUE, FALSE} : Complete(r, whole)
Owner == Reap \/ ReapEnds \/ Wait \/ Publish

Next == (\E s \in Slots, e \in Experts : Reserve(s, e)) \/ Submit \/ Kernel \/ Owner \/ Finished

Spec == Init /\ [][Next]_vars
FairSpec == Spec /\ WF_vars(Kernel) /\ WF_vars(Owner)

-----------------------------------------------------------------------------
\* the ring, the batch and the slots are well formed
TypeOK ==
  /\ pc \in {"fill", "reap", "wait"} /\ Len(load) <= LoadMax /\ li \in 1..Len(load) \cup {1}
  /\ \A s \in Slots : slots[s].eid \in Experts \cup {Nobody}
       /\ slots[s].state \in {"free", "reserved", "ready"}
  /\ \A k \in DOMAIN req : req[k] \in DOMAIN load

\* the forward multiplies by every slot that is published: it holds its whole
\* expert, and keeps it, whatever reads were short, failed or came late
\* (glm.c:994, "the pilot never alters the value of an expert")
PublishedWhole ==
  \A s \in Slots : slots[s].state = "ready" =>
    \A p \in Parts : slots[s].data[p] = slots[s].eid

\* a read that is queued or under way writes a slot that is reserved for its
\* expert: none outlives its batch and lands in a slot given to another
OwnSlot ==
  \A r \in flight \cup ToSet(sq) :
    slots[r.slot].state = "reserved" /\ slots[r.slot].eid = r.eid

\* a load counts its own reads, all of them and no other batch's
CountsOwn ==
  \A k \in DOMAIN load :
    load[k].pending = Cardinality({r \in flight \cup ToSet(sq) : r.slot = load[k].slot})
                    + Cardinality({i \in DOMAIN cq : cq[i].ud <= Len(req) /\ req[cq[i].ud] = k})

\* every batch ends, and the barrier of the layer it reads for is lifted
BatchEnds == pc # "fill" ~> pc = "fill"
=============================================================================
