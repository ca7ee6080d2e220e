------------------------------- MODULE KvDisk -------------------------------
(* The conversation file of the serve mode of src/c/engines/glm.c: a header  *)
(* whose last field counts the records, then one record per position.  The   *)
(* engine process may die between any two writes and start again, with       *)
(* another context size or another set of dimensions.  A write that has been *)
(* made survives the death of the process (power loss is not modelled).      *)
EXTENDS Integers, Sequences, SequencesExt

CONSTANTS Tokens,   \* the vocabulary, numbers with 0 among them
          Limits,   \* maxctx - 8 - g_draft of the starts: a file this long is not resumed
          Slack,    \* how far past that limit a conversation may run before it is cut
          Dims,     \* the dimensions a start may have (DSA on or off)
          Faults    \* what else may go wrong: "open", "oom", "create"

KvDiskAssumption ==
  /\ Tokens \subseteq Nat /\ 0 \in Tokens
  /\ Limits \subseteq Nat \ {0} /\ Slack \in Nat
  /\ \E n \in Limits : \A m \in Limits : n >= m
  /\ Dims # {}
  /\ Faults \subseteq {"open", "oom", "create"}

VARIABLES
  file,      \* state, dims, nrec (the header) and recs (the records)
  kv,        \* the rows in memory: hist and the KV of every position
  run,       \* limit and dims of the running process
  pc,        \* where the serve loop is
  cut,       \* the argument of the pending kv_disk_truncate
  at,        \* the next position kv_disk_append writes
  diskNrec   \* disk_nrec

vars == <<file, kv, run, pc, cut, at, diskNrec>>

MaxOf(S) == CHOOSE x \in S : \A y \in S : x >= y
MinOf(a, b) == IF a < b THEN a ELSE b

(* A conversation is a sequence of tokens.  The KV of a position is computed *)
(* from every token up to it, so it is named by that prefix: "of".           *)
Conversations(n) == UNION {[1..k -> Tokens] : k \in 0..n}
Row(c, p) == [tok |-> c[p], of |-> SubSeq(c, 1, p), dims |-> run.dims]
Hist == [p \in DOMAIN kv |-> kv[p].tok]

\* What fseek past the end leaves behind: a record of zero bytes.
Hole == [tok |-> 0, of |-> <<>>, dims |-> run.dims]

\* A record written with other dimensions has another size: its KV is not read back.
ReadAs(rec, d) == IF rec.dims = d THEN rec ELSE [rec EXCEPT !.of = <<>>, !.dims = d]

NoFile == [state |-> "none", dims |-> CHOOSE d \in Dims : TRUE, nrec |-> 0, recs |-> <<>>]

Init ==
  /\ file = NoFile
  /\ kv = <<>>
  /\ run = [limit |-> CHOOSE n \in Limits : TRUE, dims |-> CHOOSE d \in Dims : TRUE]
  /\ pc = "down" /\ cut = 0 /\ at = 0 /\ diskNrec = 0

-----------------------------------------------------------------------------
(* Loading: kv_disk_load.  A refused file leaves disk_nrec and the header.   *)

Resumable(limit, d) ==
  file.state = "ok" /\ file.dims = d /\ file.nrec >= 1 /\ file.nrec < limit

\* The records the header promises, as far as the file goes.
Promised(d) == [p \in 1..MinOf(file.nrec, Len(file.recs)) |-> ReadAs(file.recs[p], d)]

Start(limit, d) ==
  /\ pc = "down"
  /\ run' = [limit |-> limit, dims |-> d]
  /\ kv' = IF Resumable(limit, d) THEN Promised(d) ELSE <<>>
  /\ diskNrec' = Len(kv')
  /\ pc' = "idle"
  /\ UNCHANGED <<file, cut, at>>

-----------------------------------------------------------------------------
(* A turn ends with the conversation c in memory.  What c shares with the    *)
(* conversation before it is kept, the rest is cut in the file first.        *)

Shared(c) == MaxOf({n \in 0..MinOf(Len(c), Len(kv)) : \A p \in 1..n : c[p] = kv[p].tok})

Converse(c) ==
  /\ pc = "idle" /\ Len(c) >= 1 /\ Len(c) <= run.limit + Slack
  /\ kv' = [p \in 1..Len(c) |-> IF p <= Shared(c) THEN kv[p] ELSE Row(c, p)]
  /\ cut' = Shared(c)
  /\ pc' = IF Shared(c) < Len(kv) THEN "truncate" ELSE "append"
  /\ UNCHANGED <<file, run, at, diskNrec>>

\* RESET, and a chat turn that does not fit any more.
Reset ==
  /\ pc = "idle"
  /\ kv' = <<>> /\ cut' = 0 /\ pc' = "truncate"
  /\ UNCHANGED <<file, run, at, diskNrec>>

\* A truncate that forgets the file.
TruncateSilently(n) == UNCHANGED file /\ diskNrec' = n

\* kv_disk_truncate: only the counter is written, whether it shrinks or grows.
TruncateTo(n) == file' = [file EXCEPT !.nrec = n] /\ diskNrec' = n

Truncate ==
  /\ pc = "truncate"
  /\ pc' = "append"
  /\ \/ file.state # "none" /\ TruncateTo(cut)
     \/ (file.state = "none" \/ "open" \in Faults) /\ diskNrec' = 0 /\ UNCHANGED file
  /\ UNCHANGED <<kv, run, cut, at>>

-----------------------------------------------------------------------------
(* kv_disk_append: the new records first, the counter last.                  *)

\* Nothing new, or the file or the staging buffer is not to be had: skip the turn.
AppendSkipped ==
  /\ pc = "append"
  /\ Len(kv) <= diskNrec \/ {"open", "oom"} \cap Faults # {}
  /\ pc' = "idle"
  /\ UNCHANGED <<file, kv, run, cut, at, diskNrec>>

\* kv_disk_open on a path that is not there: an empty file, then its header.
Create ==
  /\ pc = "append" /\ Len(kv) > diskNrec /\ file.state = "none"
  /\ file' = [file EXCEPT !.state = "empty", !.nrec = 0, !.recs = <<>>]
  /\ pc' = "create"
  /\ UNCHANGED <<kv, run, cut, at, diskNrec>>

Header ==
  /\ pc = "create"
  /\ file' = [file EXCEPT !.state = "ok", !.dims = run.dims, !.nrec = 0]
  /\ pc' = "append"
  /\ UNCHANGED <<kv, run, cut, at, diskNrec>>

FirstNewLate == diskNrec + 1
FirstNew == diskNrec

AppendBegins ==
  /\ pc = "append" /\ Len(kv) > diskNrec /\ file.state # "none"
  /\ at' = FirstNew /\ pc' = "records"
  /\ UNCHANGED <<file, kv, run, cut, diskNrec>>

\* One fwrite at position n + 1 of the file.
Stored(n) ==
  LET recs == file.recs IN
  [p \in 1..MaxOf({Len(recs), n + 1}) |->
     IF p = n + 1 THEN kv[p] ELSE IF p <= Len(recs) THEN recs[p] ELSE Hole]

\* A counter written with the first record instead of after the last.
WriteRecordCounted ==
  /\ pc = "records" /\ at < Len(kv)
  /\ file' = [file EXCEPT !.recs = Stored(at), !.nrec = Len(kv)]
  /\ at' = at + 1
  /\ UNCHANGED <<kv, run, pc, cut, diskNrec>>

WriteRecord ==
  /\ pc = "records" /\ at < Len(kv)
  /\ file' = [file EXCEPT !.recs = Stored(at)]
  /\ at' = at + 1
  /\ UNCHANGED <<kv, run, pc, cut, diskNrec>>

\* A counter that takes in the pending token, which has no row yet.
WriteCounterPending ==
  /\ pc = "records" /\ at >= Len(kv)
  /\ file' = [file EXCEPT !.nrec = Len(kv) + 1]
  /\ diskNrec' = Len(kv) /\ pc' = "idle"
  /\ UNCHANGED <<kv, run, cut, at>>

WriteCounter ==
  /\ pc = "records" /\ at >= Len(kv)
  /\ file' = [file EXCEPT !.nrec = Len(kv)]
  /\ diskNrec' = Len(kv) /\ pc' = "idle"
  /\ UNCHANGED <<kv, run, cut, at>>

-----------------------------------------------------------------------------
(* The process ends, by itself or not, and its memory with it.               *)

Stop ==
  /\ pc # "down" /\ (pc = "create" => "create" \in Faults)
  /\ pc' = "down" /\ kv' = <<>> /\ diskNrec' = 0 /\ cut' = 0 /\ at' = 0
  /\ UNCHANGED <<file, run>>

Next ==
  \/ \E n \in Limits, d \in Dims : Start(n, d)
  \/ \E c \in Conversations(MaxOf(Limits) + Slack) : Converse(c)
  \/ Reset \/ Truncate \/ AppendSkipped \/ Create \/ Header \/ AppendBegins
  \/ WriteRecord \/ WriteCounter \/ Stop

Spec == Init /\ [][Next]_vars

-----------------------------------------------------------------------------
Rows == [tok : Tokens, of : Conversations(MaxOf(Limits) + Slack), dims : Dims]

(* One type invariant for the file and the process.                          *)
TypeOK ==
  /\ file.state \in {"none", "empty", "ok"} /\ file.dims \in Dims
  /\ file.nrec \in 0..MaxOf(Limits) + Slack
  /\ \A p \in DOMAIN file.recs : file.recs[p] \in Rows
  /\ \A p \in DOMAIN kv : kv[p] \in Rows
  /\ run \in [limit : Limits, dims : Dims]
  /\ pc \in {"down", "idle", "truncate", "append", "create", "records"}
  /\ diskNrec \in 0..MaxOf(Limits) + Slack /\ at \in 0..MaxOf(Limits) + Slack

(* The KV rows the engine decodes from belong to the tokens of its history:  *)
(* wherever the process died, what it resumes is one conversation, not the   *)
(* tail of an old one behind the head of a new one (glm.c 4440-4442).        *)
KvTrue == \A p \in DOMAIN kv : kv[p].of = SubSeq(Hist, 1, p)

(* Between turns the file holds exactly the conversation in memory: a start  *)
(* with the same dimensions and room for it resumes it whole.                *)
Durable ==
  (pc = "idle" /\ kv # <<>>) =>
    /\ file.state = "ok" /\ file.dims = run.dims
    /\ Promised(run.dims) = kv

(* What the header promises never outruns the records that were written, so  *)
(* no start reads a hole or stops short (kv_disk_append, "dati prima,        *)
(* contatore poi").                                                          *)
DataFirst ==
  file.nrec <= Len(file.recs) /\ \A p \in 1..file.nrec : file.recs[p].of # <<>>
=============================================================================
