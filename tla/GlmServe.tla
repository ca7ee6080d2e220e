------------------------------ MODULE GlmServe ------------------------------
(* The serve modes of src/c/engines/glm.c, as main() chooses between them:   *)
(* SERVE answers one request at a time and keeps its conversation in a file, *)
(* write by write (KvDisk); SERVE_BATCH answers several at once (ServeMux).  *)
EXTENDS Integers, Sequences

CONSTANTS
  Modes,                                   \* the modes considered
  Tokens, Limits, Slack, Dims, Faults,     \* of the file
  Vocabulary, Slots, Ids, Prompts, Budgets, Stops, Best(_), MaxCtx, Frames, NoSlot

VARIABLES
  mode,     \* "one", "batch"
  file, kv, run, step, cut, at, diskNrec,
  pc, hist, rows, req, bound, saved, intr, eof, sent, answer

Disk == INSTANCE KvDisk WITH pc <- step
Mux == INSTANCE ServeMux

diskVars == <<file, kv, run, step, cut, at, diskNrec>>
muxVars == <<pc, hist, rows, req, bound, saved, intr, eof, sent, answer>>
vars == <<mode, diskVars, muxVars>>

ASSUME GlmServeAssumption ==
  Modes \subseteq {"one", "batch"} /\ Disk!KvDiskAssumption /\ Mux!ServeMuxAssumption

\* The mode that is not chosen keeps one initial state.
Init ==
  /\ mode \in Modes
  /\ Disk!Init /\ Mux!Init
  /\ mode # "batch" => bound = (CHOOSE s \in Slots : TRUE)

OneAtATime == mode = "one" /\ Disk!Next /\ UNCHANGED <<mode, muxVars>>
Batched == mode = "batch" /\ Mux!Next /\ UNCHANGED <<mode, diskVars>>

Next == OneAtATime \/ Batched

\* The loop of the batch mode goes on while there is work.
Fairness == WF_muxVars(mode = "batch" /\ Mux!Loop)

Spec == Init /\ [][Next]_vars
FairSpec == Spec /\ Fairness

-----------------------------------------------------------------------------
\* Every part has its type.
TypeOK == mode \in Modes /\ Disk!TypeOK /\ Mux!TypeOK

\* What the modes keep between any two steps: the counter of the file never
\* outruns its records; an id names one request, budgets hold, a finished
\* conversation is on disk, and nobody is left when the input has ended.
Consistent ==
  /\ TypeOK
  /\ Disk!DataFirst
  /\ Mux!OneById /\ Mux!WithinBudget /\ Mux!Saved /\ Mux!NoneLeft

(* The file (KvDisk): what is resumed is one conversation, and the file holds *)
(* the conversation in memory between turns.                                  *)
Durable == Disk!KvTrue /\ Disk!Durable

(* The requests (ServeMux): an answer is the one its prompt gets alone; every *)
(* request ends, and so does the loop once the input has.                     *)
OwnAnswer == Mux!OwnAnswer
AllEnd == Mux!Finishes /\ Mux!Exits

-----------------------------------------------------------------------------
(* A small instance: a model of three tokens that looks at the last one, at  *)
(* the length and at the first; token 2 stops what begins with a 1.          *)
SmallBest(c) ==
  IF c[1] = 1 /\ Len(c) >= 3 THEN 2 ELSE (c[Len(c)] + Len(c) \div 2) % 2
SmallPrompts == {<<>>, <<0>>, <<1>>, <<0, 1>>, <<1, 1, 0>>}
=============================================================================
