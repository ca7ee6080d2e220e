----------------------------- MODULE GlmExperts -----------------------------
(* The four mechanisms by which src/c/engines/glm.c gets the experts of a    *)
(* layer into memory, as the environment turns them on: the load pipeline    *)
(* (PIPE), the pilot with blocking reads (PILOT_REAL), the pilot with        *)
(* batches over io_uring (URING, which needs PILOT_REAL for them), and the   *)
(* exchange of resident experts (REPIN).  One of them is on in a run of the  *)
(* model; it shares nothing with the others that it writes.                  *)
EXTENDS Integers

CONSTANTS
  Setups,                            \* the mechanisms considered
  Workers, Sizes, Blocks,            \* of the pipeline
  NL, Experts, Cap, K, Ring, Forwards,   \* of the pilot
  Read, Slots, Parts, LoadMax, EnterFails, Batches,   \* of the batches
  E, Start, Every, HeatMax, Tokens, TickMod           \* of the exchange

VARIABLES
  on,       \* the mechanism that is on
  cur, njobs, layer, eids, ready, ws, walk, worker,
  cache, ecn, curMoe, inflight, queue, main, pilot,
  pc, slots, load, req, sq, flight, cq, li, batches,
  pin, heat, last, clock, emitted, lastPass, since

Pipe  == INSTANCE PipePool WITH main <- walk
Ahead == INSTANCE Pilot
Batch == INSTANCE Uring WITH Experts <- Read
Store == INSTANCE Repin

pipeVars  == <<cur, njobs, layer, eids, ready, ws, walk, worker>>
pilotVars == <<cache, ecn, curMoe, inflight, queue, main, pilot>>
batchVars == <<pc, slots, load, req, sq, flight, cq, li, batches>>
storeVars == <<pin, heat, last, clock, emitted, lastPass, since>>
vars == <<on, pipeVars, pilotVars, batchVars, storeVars>>

ASSUME GlmExpertsAssumption ==
  /\ Setups \subseteq {"pipe", "pilot", "uring", "repin"} /\ TickMod \in Nat \ {0}
  /\ Pipe!PipeAssumption /\ Ahead!PilotAssumption
  /\ Batch!UringAssumption /\ Store!RepinAssumption

\* main() of glm.c reads the environment; everything is there, at rest
Init ==
  /\ on \in Setups
  /\ Pipe!Init /\ Ahead!Init /\ Batch!Init /\ Store!Init

PipeSteps ==
  /\ on = "pipe" /\ Pipe!Next
  /\ UNCHANGED <<on, pilotVars, batchVars, storeVars>>

PilotSteps ==
  /\ on = "pilot" /\ Ahead!Next
  /\ UNCHANGED <<on, pipeVars, batchVars, storeVars>>

UringSteps ==
  /\ on = "uring" /\ Batch!Next
  /\ UNCHANGED <<on, pipeVars, pilotVars, storeVars>>

RepinSteps ==
  /\ on = "repin" /\ Store!Next
  /\ UNCHANGED <<on, pipeVars, pilotVars, batchVars>>

Next == PipeSteps \/ PilotSteps \/ UringSteps \/ RepinSteps

\* The operating system runs every thread that can run, and reads end.
Fairness ==
  /\ WF_pipeVars(on = "pipe" /\ Pipe!Main)
  /\ \A w \in Workers : WF_pipeVars(on = "pipe" /\ Pipe!Work(w))
  /\ WF_pilotVars(on = "pilot" /\ Ahead!Main)
  /\ WF_pilotVars(on = "pilot" /\ Ahead!Worker)
  /\ WF_batchVars(on = "uring" /\ Batch!Kernel)
  /\ WF_batchVars(on = "uring" /\ Batch!Owner)

Spec == Init /\ [][Next]_vars
FairSpec == Spec /\ Fairness

-----------------------------------------------------------------------------
\* Every part has its type.
TypeOK ==
  /\ on \in Setups
  /\ Pipe!TypeOK /\ Ahead!TypeOK /\ Batch!TypeOK /\ Store!TypeOK

\* What the mechanisms keep between any two steps.  The pipeline: one thread
\* per slab, and a block's reads are over with it.  The pilot: an id stands for
\* its weights, an expert is resident once.  The batches: a read writes the
\* slot reserved for it, a load counts its own completions.  The exchange: the
\* store keeps its size.
Consistent ==
  /\ TypeOK
  /\ Pipe!OneReader /\ Pipe!Drained
  /\ Ahead!Truthful /\ Ahead!OneCopy
  /\ Batch!OwnSlot /\ Batch!CountsOwn
  /\ Store!SameSize

(* What the matmul reads is whole: a slab of the pipeline (PipePool), of     *)
(* this block, a slot of the pilot's (Pilot), which is not being read any    *)
(* more, and what the batches publish (Uring).                               *)
UsesWhole == Pipe!UsesLoaded /\ Ahead!UsesWhole /\ Batch!PublishedWhole

(* Every wait for a slab ends, and with it every forward and every batch.    *)
AllEnd == Pipe!Served /\ Ahead!ForwardsEnd /\ Batch!BatchEnds

(* The exchange (Repin): who enters is hotter than who leaves, and the store *)
(* does not take back at once what it has just given up.                     *)
NoPingPong == Store!NoPingPong /\ Store!HotterIn
=============================================================================
