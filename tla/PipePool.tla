------------------------------ MODULE PipePool ------------------------------
(* The load pipeline of src/c/engines/glm.c (PIPE=1): I/O threads read the   *)
(* experts a block misses into the slabs ws[] while the main thread walks    *)
(* the block and computes with each slab once it is ready.  One atomic word, *)
(* cur = (generation, index), hands out the jobs.  Every step is one atomic  *)
(* access; accesses are sequentially consistent.                             *)
EXTENDS Integers, FiniteSets

CONSTANTS Workers,   \* the I/O threads
          Sizes,     \* jobs of a block, at most 64 in the source
          Blocks     \* how many blocks are dispatched

PipeAssumption ==
  /\ Workers # {} /\ Sizes \subseteq Nat \ {0} /\ Blocks \in Nat
  /\ \E m \in Sizes : \A n \in Sizes : m >= n

MaxOf(S) == CHOOSE x \in S : \A y \in S : x >= y
Slabs == 0..MaxOf(Sizes) - 1

VARIABLES
  cur,     \* generation and index of the next job
  njobs, layer, eids, ready,   \* the batch, one atomic each
  ws,      \* what a slab holds
  main,    \* the main thread: its step, the slot it is at, the size of its block
  worker   \* per I/O thread: its step, seen, its copy of cur, the job it has read

vars == <<cur, njobs, layer, eids, ready, ws, main, worker>>

(* Block g asks slot q for expert Job(g, q); layer and eids are named by the *)
(* block that stored them.                                                   *)
Job(l, e, q) == [layer |-> l, eid |-> e, slot |-> q]
Torn == [layer |-> 0, eid |-> 0, slot |-> -1]

Init ==
  /\ cur = [gen |-> 0, i |-> 0] /\ njobs = 0 /\ layer = 0
  /\ eids = [q \in Slabs |-> 0] /\ ready = [q \in Slabs |-> FALSE]
  /\ ws = [q \in Slabs |-> Torn]
  /\ main = [pc |-> "rest", q |-> 0, n |-> 0, block |-> 0]
  /\ worker = [w \in Workers |-> [pc |-> "parked", seen |-> 0, c |-> cur,
                                  layer |-> 0, eid |-> 0]]

-----------------------------------------------------------------------------
(* pipe_dispatch: the batch first, cur last, then the wake-up.               *)

BlockBegins ==
  /\ main.pc = "rest" /\ main.block < Blocks
  /\ \E n \in Sizes :
       /\ main' = [pc |-> "layer", q |-> 0, n |-> n, block |-> main.block + 1]
       /\ njobs' = n
  /\ UNCHANGED <<cur, layer, eids, ready, ws, worker>>

StoreLayer ==
  /\ main.pc = "layer"
  /\ layer' = main.block
  /\ main' = [main EXCEPT !.pc = "eids"]
  /\ UNCHANGED <<cur, njobs, eids, ready, ws, worker>>

\* Over the slots of the block, then the next step from slot 0.
NextSlot(then) ==
  IF main.q + 1 < main.n THEN [main EXCEPT !.q = @ + 1]
  ELSE [main EXCEPT !.q = 0, !.pc = then]

StoreEid ==
  /\ main.pc = "eids"
  /\ eids' = [eids EXCEPT ![main.q] = main.block]
  /\ main' = NextSlot("reset")
  /\ UNCHANGED <<cur, njobs, layer, ready, ws, worker>>

ResetReady ==
  /\ main.pc = "reset"
  /\ ready' = [ready EXCEPT ![main.q] = FALSE]
  /\ main' = NextSlot("publish")
  /\ UNCHANGED <<cur, njobs, layer, eids, ws, worker>>

Publish ==
  /\ main.pc = "publish"
  /\ cur' = [gen |-> cur.gen + 1, i |-> 0]
  /\ main' = [main EXCEPT !.pc = "wake"]
  /\ UNCHANGED <<njobs, layer, eids, ready, ws, worker>>

WokenNone == worker
WokenAll ==
  [w \in Workers |-> IF worker[w].pc = "asleep" THEN [worker[w] EXCEPT !.pc = "parked"]
                     ELSE worker[w]]

Wake ==
  /\ main.pc = "wake"
  /\ worker' = WokenAll
  /\ main' = [main EXCEPT !.pc = "wait"]
  /\ UNCHANGED <<cur, njobs, layer, eids, ready, ws>>

-----------------------------------------------------------------------------
(* The walk over the block: pipe_wait(q), then the matmul with slab q.       *)

Wait ==
  /\ main.pc = "wait" /\ ready[main.q]
  /\ main' = [main EXCEPT !.pc = "use"]
  /\ UNCHANGED <<cur, njobs, layer, eids, ready, ws, worker>>

Spin == main.pc = "wait" /\ ~ready[main.q] /\ UNCHANGED vars

Use ==
  /\ main.pc = "use"
  /\ main' = IF main.q + 1 < main.n THEN [main EXCEPT !.pc = "wait", !.q = @ + 1]
             ELSE [main EXCEPT !.pc = "rest"]
  /\ UNCHANGED <<cur, njobs, layer, eids, ready, ws, worker>>

-----------------------------------------------------------------------------
(* pipe_worker.  Under the mutex it sleeps when cur's generation is the one  *)
(* it has drained; then it takes jobs until the index reaches njobs.         *)

Goes(w, pc) == worker' = [worker EXCEPT ![w].pc = pc]

Park(w) ==
  /\ worker[w].pc = "parked"
  /\ IF cur.gen = worker[w].seen THEN Goes(w, "asleep") ELSE Goes(w, "cur")
  /\ UNCHANGED <<cur, njobs, layer, eids, ready, ws, main>>

LoadCur(w) ==
  /\ worker[w].pc = "cur"
  /\ worker' = [worker EXCEPT ![w].pc = "njobs", ![w].c = cur, ![w].seen = cur.gen]
  /\ UNCHANGED <<cur, njobs, layer, eids, ready, ws, main>>

DrainsLate(w) == worker[w].c.i > njobs
Drains(w) == worker[w].c.i >= njobs

LoadNjobs(w) ==
  /\ worker[w].pc = "njobs"
  /\ IF Drains(w) THEN Goes(w, "parked") ELSE Goes(w, "cas")
  /\ UNCHANGED <<cur, njobs, layer, eids, ready, ws, main>>

WonAlways(w) == TRUE
Won(w) == cur = worker[w].c

\* The compare-and-swap carries the generation; who loses looks again.
Cas(w) ==
  /\ worker[w].pc = "cas"
  /\ \/ Won(w) /\ cur' = [cur EXCEPT !.i = worker[w].c.i + 1] /\ Goes(w, "layer")
     \/ ~Won(w) /\ UNCHANGED cur /\ Goes(w, "cur")
  /\ UNCHANGED <<njobs, layer, eids, ready, ws, main>>

LoadLayer(w) ==
  /\ worker[w].pc = "layer"
  /\ worker' = [worker EXCEPT ![w].pc = "eid", ![w].layer = layer]
  /\ UNCHANGED <<cur, njobs, layer, eids, ready, ws, main>>

LoadEid(w) ==
  /\ worker[w].pc = "eid"
  /\ worker' = [worker EXCEPT ![w].pc = "open", ![w].eid = eids[worker[w].c.i]]
  /\ UNCHANGED <<cur, njobs, layer, eids, ready, ws, main>>

\* ready before the read instead of after it.
LoadBeginsReady(w) ==
  /\ worker[w].pc = "open"
  /\ ws' = [ws EXCEPT ![worker[w].c.i] = Torn]
  /\ ready' = [ready EXCEPT ![worker[w].c.i] = TRUE]
  /\ Goes(w, "read")
  /\ UNCHANGED <<cur, njobs, layer, eids, main>>

\* expert_load: the slab is torn from its first byte to its last.
LoadBegins(w) ==
  /\ worker[w].pc = "open"
  /\ ws' = [ws EXCEPT ![worker[w].c.i] = Torn]
  /\ Goes(w, "read")
  /\ UNCHANGED <<cur, njobs, layer, eids, ready, main>>

Writing(q) == {w \in Workers : worker[w].pc = "read" /\ worker[w].c.i = q}

LoadEnds(w) ==
  LET q == worker[w].c.i IN
  /\ worker[w].pc = "read"
  /\ ws' = [ws EXCEPT ![q] = IF Writing(q) = {w} THEN Job(worker[w].layer, worker[w].eid, q)
                             ELSE Torn]
  /\ Goes(w, "ready")
  /\ UNCHANGED <<cur, njobs, layer, eids, ready, main>>

SetReady(w) ==
  /\ worker[w].pc = "ready"
  /\ ready' = [ready EXCEPT ![worker[w].c.i] = TRUE]
  /\ Goes(w, "cur")
  /\ UNCHANGED <<cur, njobs, layer, eids, ws, main>>

-----------------------------------------------------------------------------
Main ==
  \/ BlockBegins \/ StoreLayer \/ StoreEid \/ ResetReady \/ Publish \/ Wake \/ Wait \/ Use

Work(w) ==
  \/ Park(w) \/ LoadCur(w) \/ LoadNjobs(w) \/ Cas(w) \/ LoadLayer(w) \/ LoadEid(w)
  \/ LoadBegins(w) \/ LoadEnds(w) \/ SetReady(w)

\* The model ends when the last block is done.
Ended == main.pc = "rest" /\ main.block = Blocks /\ UNCHANGED vars

Next == Main \/ (\E w \in Workers : Work(w)) \/ Spin \/ Ended

Spec == Init /\ [][Next]_vars

\* The operating system runs every thread that can run.
FairSpec == Spec /\ WF_vars(Main) /\ \A w \in Workers : WF_vars(Work(w))

-----------------------------------------------------------------------------
TypeOK ==
  /\ cur.gen \in 0..Blocks /\ cur.i \in 0..MaxOf(Sizes)
  /\ njobs \in Sizes \cup {0} /\ layer \in 0..Blocks /\ eids \in [Slabs -> 0..Blocks]
  /\ ready \in [Slabs -> BOOLEAN] /\ main.q \in Slabs
  /\ \A w \in Workers : worker[w].c.i \in 0..MaxOf(Sizes) /\ worker[w].seen \in 0..Blocks

(* While the main thread computes with slab q it holds the expert this block *)
(* asked for, whole, and nobody is writing it: "a straggler preempted        *)
(* anywhere can NEVER grab a wrong-generation job or read torn batch state". *)
UsesLoaded ==
  main.pc = "use" => ws[main.q] = Job(main.block, main.block, main.q)

(* No two threads read into one slab.                                        *)
OneReader ==
  \A v, w \in Workers :
    v # w /\ {worker[v].pc, worker[w].pc} \subseteq {"layer", "eid", "open", "read"}
      => worker[v].c.i # worker[w].c.i

(* "No grab outlives its generation": once the block is over every job that  *)
(* was handed out is done, which is why there is no barrier at its end.      *)
Drained ==
  main.pc = "rest" =>
    \A w \in Workers : worker[w].pc \notin {"layer", "eid", "open", "read", "ready"}

(* The main thread never waits for ever: the workers are woken for every     *)
(* block and every job is taken by one of them.                              *)
Served == \A q \in Slabs : (main.pc = "wait" /\ main.q = q) ~> (main.pc = "use" /\ main.q = q)
=============================================================================
