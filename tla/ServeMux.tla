------------------------------ MODULE ServeMux ------------------------------
(* run_serve_mux of src/c/engines/glm.c: requests of several clients are     *)
(* prefilled one at a time, each into a KV slot, and decoded together, one   *)
(* token of every active slot per pass, while frames arrive.  The model is   *)
(* Best, the choice for a sequence of rows; the conversation file of a slot  *)
(* is what it holds when a write is over (KvDisk models the writes).         *)
EXTENDS Integers, Sequences, FiniteSets

CONSTANTS Vocabulary, \* the tokens of the model, stop tokens too
          Slots,      \* KV_SLOTS
          Ids,        \* request ids the clients use
          Prompts,    \* tokenised prompts, the empty one too
          Budgets,    \* max_tokens the frames name
          Stops, Best(_),
          MaxCtx,     \* CTX
          Frames,     \* how many frames arrive in a run
          NoSlot      \* a slot number past KV_SLOTS

ServeMuxAssumption ==
  /\ NoSlot \notin Slots
  /\ MaxCtx \in Nat /\ Frames \in Nat /\ Budgets \subseteq Nat \ {0}
  /\ Prompts \subseteq Seq(Vocabulary) /\ \A c \in Prompts : Len(c) <= MaxCtx - 2
  /\ \A n \in 1..MaxCtx : \A c \in [1..n -> Vocabulary] : Best(c) \in Vocabulary

VARIABLES
  pc,       \* where the loop is: intr, stdin, decode or exit
  hist,     \* per slot the tokens; the last may be pending, without a row
  rows,     \* per slot the KV rows that count, so that len is their number
  req,      \* per slot the request
  bound,    \* the slot m->kv is bound to
  saved,    \* per slot the records of its conversation file
  intr,     \* g_intr
  eof,      \* stdin has ended
  sent,     \* frames that have arrived
  answer    \* per slot the prompt of the last request and where its answer begins

vars == <<pc, hist, rows, req, bound, saved, intr, eof, sent, answer>>

Idle == [active |-> FALSE, id |-> 0, emitted |-> 0, maximum |-> 0]
Active == {s \in Slots : req[s].active}
MinOf(a, b) == IF a < b THEN a ELSE b

Init ==
  /\ pc = "intr" /\ intr = FALSE /\ eof = FALSE /\ sent = 0
  /\ hist = [s \in Slots |-> <<>>] /\ rows = hist /\ saved = hist
  /\ req = [s \in Slots |-> Idle]
  /\ bound \in Slots
  /\ answer = [s \in Slots |-> 0]

-----------------------------------------------------------------------------
(* kv_disk_append and kv_disk_truncate work on the bound slot.  The file is  *)
(* only ever extended from disk_nrec on.                                     *)
Appended(disk, r) == disk \o SubSeq(r, Len(disk) + 1, Len(r))
Cut(disk, n) == SubSeq(disk, 1, MinOf(n, Len(disk)))

\* mux_done: the end of a request that was not cancelled.
Ended(r) == [r EXCEPT !.active = FALSE]

-----------------------------------------------------------------------------
(* The top of the loop: a soft stop ends every request the normal way.       *)

SoftStop ==
  /\ pc = "intr" /\ intr
  /\ intr' = FALSE
  /\ req' = [s \in Slots |-> Ended(req[s])]
  /\ saved' = [s \in Slots |-> IF s \in Active THEN Appended(saved[s], rows[s]) ELSE saved[s]]
  /\ IF Active = {} THEN UNCHANGED bound ELSE bound' \in Active
  /\ pc' = "stdin"
  /\ UNCHANGED <<hist, rows, eof, sent, answer>>

NoSoftStop ==
  /\ pc = "intr" /\ ~intr /\ pc' = "stdin"
  /\ UNCHANGED <<hist, rows, req, bound, saved, intr, eof, sent, answer>>

-----------------------------------------------------------------------------
(* At most one frame is read between two passes; with no request the loop    *)
(* waits for one (a signal wakes it), with a request it goes on at once.     *)

\* The end of the input looked at before the requests in flight, or not at all.
AfterFrameEof == pc' = IF eof' THEN "exit" ELSE IF Active' # {} THEN "decode" ELSE "intr"
AfterFrameOn == pc' = IF Active' # {} THEN "decode" ELSE "intr"

AfterFrame == pc' = IF Active' # {} THEN "decode" ELSE IF eof' THEN "exit" ELSE "intr"

NoFrame ==
  /\ pc = "stdin" /\ (Active # {} \/ eof \/ intr)
  /\ UNCHANGED <<hist, rows, req, bound, saved, intr, eof, sent, answer>>
  /\ AfterFrame

Eof ==
  /\ pc = "stdin" /\ ~eof /\ eof' = TRUE
  /\ UNCHANGED <<hist, rows, req, bound, saved, intr, sent, answer>>
  /\ AfterFrame

Frame == pc = "stdin" /\ ~eof /\ sent < Frames /\ sent' = sent + 1

\* Answered with an error and nothing else: BAD_REQUEST, SLOT_BUSY, DUPLICATE_ID,
\* EMPTY_PROMPT (which has bound the slot by then).
Refused(id, s, c) ==
  /\ Frame
  /\ \/ s = NoSlot /\ UNCHANGED bound
     \/ /\ s # NoSlot /\ (req[s].active \/ \E t \in Active : req[t].id = id)
        /\ UNCHANGED bound
     \/ /\ s # NoSlot /\ ~req[s].active /\ (\A t \in Active : req[t].id # id)
        /\ c = <<>> /\ bound' = s
  /\ UNCHANGED <<hist, rows, req, saved, intr, eof, answer>>
  /\ AfterFrame

\* CANCEL: found, the slot is saved and free again; otherwise NOT_FOUND.
CancelForgets(s) == saved
CancelSaves(s) == [saved EXCEPT ![s] = Appended(@, rows[s])]

Cancel(id) ==
  /\ Frame
  /\ \/ \E s \in Active :
          /\ req[s].id = id
          /\ req' = [req EXCEPT ![s].active = FALSE]
          /\ bound' = s /\ saved' = CancelSaves(bound')
     \/ (\A s \in Active : req[s].id # id) /\ UNCHANGED <<req, bound, saved>>
  /\ UNCHANGED <<hist, rows, intr, eof, answer>>
  /\ AfterFrame

\* The rows a prompt finds in its slot.
ReusedUnchecked(s, c) == MinOf(Len(c), Len(rows[s]))
Reused(s, c) ==
  CHOOSE n \in 0..MinOf(Len(c), Len(rows[s])) :
    /\ SubSeq(c, 1, n) = SubSeq(hist[s], 1, n)
    /\ n < MinOf(Len(c), Len(rows[s])) => c[n + 1] # hist[s][n + 1]

\* step() forwards into the bound slot: what is kept there, then the rest of c.
BindTo(s) == bound' = s

SlotFree(s, id) == ~req[s].active
IdFree(s, id) == ~req[s].active /\ \A t \in Active : req[t].id # id

Submit(id, s, c, max) ==
  /\ Frame /\ s # NoSlot /\ IdFree(s, id) /\ c # <<>>
  /\ BindTo(s)
  /\ LET n     == Reused(s, c)
         full  == SubSeq(rows[s], 1, n) \o SubSeq(c, n + 1, Len(c))
         next  == Best(full)
         room  == MinOf(max, MaxCtx - Len(c) - 1)
         over  == room <= 0 \/ next \in Stops
         disk  == IF n < Len(rows[s]) THEN Cut(saved[bound'], n) ELSE saved[bound']
         ended == over \/ 1 >= room
     IN
     /\ rows' = [rows EXCEPT ![bound'] = full]
     /\ hist' = [hist EXCEPT ![s] = IF over THEN c ELSE Append(c, next)]
     /\ req' = [req EXCEPT ![s] = [active |-> ~ended, id |-> id, maximum |-> room,
                                   emitted |-> IF over THEN 0 ELSE 1]]
     /\ saved' = [saved EXCEPT ![bound'] = IF ended THEN Appended(disk, full) ELSE disk]
     /\ answer' = [answer EXCEPT ![s] = Len(c)]
  /\ UNCHANGED <<intr, eof>>
  /\ AfterFrame

-----------------------------------------------------------------------------
(* One pass: the pending token of every active slot becomes a row, and every *)
(* slot picks its next token, in the order of the slots.                     *)

Forwarded(s) == Append(rows[s], hist[s][Len(rows[s]) + 1])
Picked(s) == Best(Forwarded(s))
Stopped(s) == Picked(s) \in Stops
FinishedLate(s) == Stopped(s) \/ req[s].emitted >= req[s].maximum
FinishedByStop(s) == Stopped(s)
Finished(s) == Stopped(s) \/ req[s].emitted + 1 >= req[s].maximum

Said(s) ==
  LET got == IF Stopped(s) THEN req[s] ELSE [req[s] EXCEPT !.emitted = @ + 1]
  IN  IF Finished(s) THEN Ended(got) ELSE got

Decode ==
  /\ pc = "decode"
  /\ rows' = [s \in Slots |-> IF s \in Active THEN Forwarded(s) ELSE rows[s]]
  /\ hist' = [s \in Slots |-> IF s \in Active /\ ~Stopped(s)
                              THEN Append(Forwarded(s), Picked(s)) ELSE hist[s]]
  /\ req' = [s \in Slots |-> IF s \in Active THEN Said(s) ELSE req[s]]
  /\ LET done == {s \in Active : Finished(s)} IN
     /\ saved' = [s \in Slots |-> IF s \in done THEN Appended(saved[s], rows'[s]) ELSE saved[s]]
     /\ IF done = {} THEN UNCHANGED bound ELSE bound' \in done
  /\ pc' = "intr"
  /\ UNCHANGED <<intr, eof, sent, answer>>

\* The first Ctrl-C; the signal counts as one of the frames, as a bound.
Signal ==
  /\ pc # "exit" /\ ~intr /\ sent < Frames
  /\ intr' = TRUE /\ sent' = sent + 1
  /\ UNCHANGED <<pc, hist, rows, req, bound, saved, eof, answer>>

Terminated == pc = "exit" /\ UNCHANGED vars

Arrives ==
  \/ \E id \in Ids, s \in Slots \cup {NoSlot}, c \in Prompts : Refused(id, s, c)
  \/ \E id \in Ids : Cancel(id)
  \/ \E id \in Ids, s \in Slots, c \in Prompts, n \in Budgets : Submit(id, s, c, n)

Loop == SoftStop \/ NoSoftStop \/ NoFrame \/ Decode

Next == Arrives \/ Eof \/ Loop \/ Signal \/ Terminated

\* The loop never waits while there is work; clients owe nothing but the end of
\* what they send.
Spec == Init /\ [][Next]_vars
FairSpec == Spec /\ WF_vars(Loop)

-----------------------------------------------------------------------------
TypeOK ==
  /\ pc \in {"intr", "stdin", "decode", "exit"}
  /\ \A s \in Slots : Len(rows[s]) <= Len(hist[s]) /\ Len(hist[s]) <= MaxCtx
  /\ \A s \in Slots : req[s].id \in Ids \cup {0} /\ req[s].emitted \in 0..MaxCtx
  /\ bound \in Slots /\ sent \in 0..Frames

(* However the requests interleave, every answer is the one its own prompt   *)
(* gets alone: no row, token or history of another slot ever enters it.      *)
OwnAnswer ==
  \A s \in Slots :
    /\ rows[s] = SubSeq(hist[s], 1, Len(rows[s]))
    /\ \A i \in answer[s] + 1..Len(hist[s]) : hist[s][i] = Best(SubSeq(hist[s], 1, i - 1))

(* A CANCEL or a DATA line names one request: no two are in flight under one *)
(* id, whatever was refused, cancelled or finished before.                   *)
OneById ==
  \A s, t \in Active : req[s].id = req[t].id => s = t

(* Nobody reads more than was asked for, and no slot runs into the end of its *)
(* cache, which would fail the pass for all of them ("decode batch failed"). *)
WithinBudget ==
  \A s \in Active : req[s].emitted < req[s].maximum /\ Len(rows[s]) < MaxCtx

(* A slot without a request has its whole conversation in its file, whether  *)
(* the request was finished, cancelled, interrupted or over at once.         *)
Saved == \A s \in Slots \ Active : saved[s] = rows[s]

(* Nobody is left without a DONE: the end of the input ends the loop only    *)
(* when every accepted request has been answered.                            *)
NoneLeft == pc = "exit" => Active = {}

(* Every accepted request ends, however many frames and other requests there *)
(* are; and after the end of the input so does the loop.                     *)
Finishes == \A s \in Slots : req[s].active ~> ~req[s].active
Exits == eof ~> pc = "exit"
=============================================================================
