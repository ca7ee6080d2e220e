------------------------------- MODULE Session -------------------------------
(***************************************************************************)
(* One handle of the library and the calls on it: moty_generate with its   *)
(* chunked prefill, plain and lookahead decoding, abort, failure and       *)
(* cleanup (src/c/api/api.c), over an engine's KV cache and step           *)
(* (runtime/runtime.h).  Calls on a handle do not overlap; moty_abort may  *)
(* come at any moment, from any thread and from the callback.              *)
(*                                                                         *)
(* The language model is any function LM from what the KV cache holds up   *)
(* to a position to the next token.  A call that is refused before it      *)
(* takes the lock changes only the status it returns.                      *)
(***************************************************************************)
EXTENDS Integers, Sequences, FiniteSetsExt

CONSTANTS Tokens, Weights, LM(_, _),
          Stops,        \* the engine's stop tokens
          Ctx,          \* the context length of the handle
          MaxNew,       \* largest max_new_tokens of a call
          Prompts,      \* the prompts of calls: sequences of tokens
          Samplings,    \* of calls: greedy (temperature 0) and the draft
          DraftK,       \* draft_k after its default and its cap of 15
          ChunkOpts,    \* values of moty_options.prefill_chunk (0: whole)
          CanVerify,    \* the engine can verify (attention only)
          None          \* pending = -1; a position never written

ASSUME SessionAssumption ==
    /\ Stops \subseteq Tokens /\ None \notin Tokens
    /\ Ctx \in Nat \ {0} /\ MaxNew \in Nat
    /\ DraftK \in Nat \ {0}
    /\ ChunkOpts \subseteq Nat
    /\ Prompts \subseteq Seq(Tokens)
    /\ Samplings \subseteq [greedy : BOOLEAN, draft : Seq(Tokens)]
    /\ CanVerify \in BOOLEAN
    /\ \A w \in Weights, n \in 1 .. Ctx : \A s \in [1 .. n -> Tokens] :
          LM(w, s) \in Tokens

VARIABLES pc,        \* where the call is
          weights,   \* the model's weights
          chunk,     \* opt.prefill_chunk
          abort,     \* the sticky flag
          n_past,    \* positions of the KV cache that count
          pending,   \* last token produced, not yet in the KV cache
          kv,        \* the token each position of the KV cache was computed for
          call,      \* arguments: max, greedy, draft; the prompt pr
          done,      \* prefill: tokens of pr already fed
          t,         \* the token to be produced next
          gen,       \* tokens produced by this call (m->gen, new_tokens)
          prop, a,   \* proposals of a verification and how many were accepted
          lo,        \* the tokens its logits predict, one per position fed
          rc, stop,  \* status and stats.stop of the last call
          conv,      \* history: the conversation the caller has seen
          late       \* history: forwards begun since the abort was raised

vars == <<pc, weights, chunk, abort, n_past, pending, kv, call, done, t, gen,
          prop, a, lo, rc, stop, conv, late>>

NoCall == [max |-> 0, greedy |-> TRUE, draft |-> <<>>, pr |-> <<>>]
Positions == 0 .. Ctx + DraftK          \* 0 .. Ctx-1 exist
Known(k, p) == [i \in 1 .. p |-> k[i - 1]]      \* what attention reads
Busy == pc # "idle"
LookingAhead == call.greedy /\ call.draft # <<>> /\ CanVerify

Init == /\ pc = "idle"
        /\ weights \in Weights
        /\ chunk \in ChunkOpts
        /\ abort = FALSE
        /\ n_past = 0 /\ pending = None
        /\ kv = [p \in Positions |-> None]
        /\ call = NoCall /\ done = 0 /\ t = None /\ gen = <<>>
        /\ prop = <<>> /\ a = 0 /\ lo = <<>>
        /\ rc = "ok" /\ stop = "length"
        /\ conv = <<>> /\ late = 0

-----------------------------------------------------------------------------
(***************************************************************************)
(* The engine: step() writes the KV cache and returns logits.              *)
(***************************************************************************)
Forward(ids, pos) ==
    /\ kv' = [p \in Positions |->
                 IF p >= pos /\ p < pos + Len(ids) THEN ids[p - pos + 1] ELSE kv[p]]
    /\ late' = IF abort THEN late + 1 ELSE late

\* The choice moty_pick_tok makes from the logits of position p.
Pick(k, p) == IF call.greedy THEN {LM(weights, Known(k, p + 1))} ELSE Tokens

-----------------------------------------------------------------------------
(***************************************************************************)
(* moty_generate.                                                          *)
(***************************************************************************)
WithPending(ids) == IF pending = None THEN ids ELSE <<pending>> \o ids

Generate(ids, max, s) ==
    /\ pc = "idle"
    /\ ~abort
    /\ LET pr == WithPending(ids) IN
       /\ pr # <<>>
       /\ n_past + Len(pr) + max <= Ctx
       /\ call' = [max |-> max, greedy |-> s.greedy, draft |-> s.draft,
                   pr |-> pr]
    /\ pc' = "prefill"
    /\ done' = 0 /\ gen' = <<>> /\ t' = None
    /\ rc' = "ok" /\ stop' = "length"
    /\ conv' = conv \o ids
    /\ late' = 0
    /\ UNCHANGED <<weights, chunk, abort, n_past, pending, kv, prop, a, lo>>

\* The sticky flag refuses the call; nothing else changes.
Refused ==
    /\ pc = "idle"
    /\ abort
    /\ rc' = "aborted" /\ stop' = "abort"
    /\ UNCHANGED <<pc, weights, chunk, abort, n_past, pending, kv, call, done,
                   t, gen, prop, a, lo, conv, late>>

\* Mutant: prefill_chunk 0 is not turned into "the whole prompt".
ChunkUnset(n) == IF n - done < chunk THEN n - done ELSE chunk

ChunkOf(n) == IF chunk <= 0 \/ n - done < chunk THEN n - done ELSE chunk

\* Mutant: the flag is not looked at between two chunks.
DeafBetweenChunks == FALSE

StopsBetweenChunks == abort

\* One chunk of the prompt; a raised flag ends the prefill without logits.
PrefillChunk ==
    /\ pc = "prefill"
    /\ LET np   == Len(call.pr)
           c    == ChunkOf(np)
           last == done + c = np
       IN /\ Forward(SubSeq(call.pr, done + 1, done + c), n_past + done)
          /\ done' = done + c
          /\ IF last \/ StopsBetweenChunks
             THEN /\ t' \in IF last THEN Pick(kv', n_past + np - 1) ELSE {None}
                  /\ n_past' = n_past + np /\ pending' = None
                  /\ pc' = "loop"
             ELSE UNCHANGED <<t, n_past, pending, pc>>
    /\ UNCHANGED <<weights, chunk, abort, call, gen, prop, a, lo, rc, stop, conv>>

\* Mutant: the budget lets one more token through.
SpentLate == Len(gen) + 1 > call.max

Spent == Len(gen) + 1 >= call.max

\* emit_tok: the callback may stop the call, then stop tokens, then the budget.
Deliver(y) == gen' = Append(gen, y) /\ conv' = Append(conv, y)
EmitEnds(y) == \/ stop' = "callback"
               \/ y \in Stops /\ stop' = "eos"
               \/ y \notin Stops /\ Spent /\ UNCHANGED stop
EmitGoesOn(y) == y \notin Stops /\ ~Spent /\ UNCHANGED stop

LoopEnds ==
    /\ pc = "loop"
    /\ t = None \/ call.max = 0 \/ abort
    /\ pc' = "end"
    /\ UNCHANGED <<weights, chunk, abort, n_past, pending, kv, call, done, t,
                   gen, prop, a, lo, rc, stop, conv, late>>

Emit ==
    /\ pc = "loop"
    /\ t # None /\ call.max > 0 /\ ~abort
    /\ Deliver(t)
    /\ pending' = t
    /\ \/ EmitEnds(t) /\ pc' = "end"
       \/ EmitGoesOn(t) /\ pc' = "decode"
    /\ UNCHANGED <<weights, chunk, abort, n_past, kv, call, done, t, prop, a,
                   lo, rc, late>>

\* Mutant: the token to be fed is not counted.
BudgetPlus == call.max - Len(gen) + 1

Budget == call.max - Len(gen)

\* The tokens that follow, in the draft d, the first occurrence of the longest
\* (at most 3) suffix of the answer that the draft continues.
Proposed(d) ==
    LET At(l)    == {j \in 0 .. Len(d) - 1 - l :
                        SubSeq(d, j + 1, j + l) = SubSeq(gen, Len(gen) - l + 1, Len(gen))}
        Suffixes == {l \in 1 .. Min({3, Len(gen)}) : At(l) # {}}
        from     == Min(At(Max(Suffixes))) + Max(Suffixes)
    IN  IF Suffixes = {} THEN <<>>
        ELSE SubSeq(d, from + 1, Min({from + DraftK, from + Budget, Len(d)}))

Proposal == IF LookingAhead /\ Budget > 0 THEN Proposed(call.draft) ELSE <<>>

\* Mutant: each proposal is compared with the prediction of the one after it.
LogitsSkewed(k, n) ==
    [i \in 1 .. n |-> LM(weights, Known(k, n_past + IF i < n THEN i + 1 ELSE i))]

\* What the model predicts after each of the n tokens fed at n_past.
LogitsAll(k, n) == [i \in 1 .. n |-> LM(weights, Known(k, n_past + i))]

\* One forward over the pending token and the proposals.
Verify ==
    /\ pc = "decode"
    /\ Proposal # <<>>
    /\ Forward(<<t>> \o Proposal, n_past)
    /\ lo' = LogitsAll(kv', 1 + Len(Proposal))
    /\ prop' = Proposal /\ a' = 0
    /\ n_past' = n_past + 1 /\ pending' = None
    /\ pc' = "accept"
    /\ UNCHANGED <<weights, chunk, abort, call, done, t, gen, rc, stop, conv>>

\* Mutant: an accepted proposal is still waiting to be fed.
AcceptPending ==
    /\ pc = "accept"
    /\ a < Len(prop) /\ lo[a + 1] = prop[a + 1]
    /\ Deliver(prop[a + 1])
    /\ pending' = prop[a + 1]
    /\ \/ EmitEnds(prop[a + 1]) /\ pc' = "end" /\ UNCHANGED <<n_past, a>>
       \/ EmitGoesOn(prop[a + 1]) /\ n_past' = n_past + 1 /\ a' = a + 1
          /\ UNCHANGED pc
    /\ UNCHANGED <<weights, chunk, abort, kv, call, done, t, prop, lo, rc, late>>

\* An accepted proposal is in the KV cache already; the one that ends the call
\* stays pending and is fed again by the next one.
Accept ==
    /\ pc = "accept"
    /\ a < Len(prop) /\ lo[a + 1] = prop[a + 1]
    /\ Deliver(prop[a + 1])
    /\ \/ /\ EmitEnds(prop[a + 1])
          /\ pending' = prop[a + 1] /\ pc' = "end"
          /\ UNCHANGED <<n_past, a>>
       \/ /\ EmitGoesOn(prop[a + 1])
          /\ pending' = None /\ n_past' = n_past + 1 /\ a' = a + 1
          /\ UNCHANGED pc
    /\ UNCHANGED <<weights, chunk, abort, kv, call, done, t, prop, lo, rc, late>>

\* The model disagrees with the next proposal, or none is left: its own
\* prediction goes on.
OwnToken ==
    /\ pc = "accept"
    /\ a < Len(prop) => lo[a + 1] # prop[a + 1]
    /\ t' = lo[a + 1]
    /\ pc' = "loop"
    /\ prop' = <<>> /\ a' = 0 /\ lo' = <<>>
    /\ UNCHANGED <<weights, chunk, abort, n_past, pending, kv, call, done,
                   gen, rc, stop, conv, late>>

\* Plain decoding: one token per forward.
Step ==
    /\ pc = "decode"
    /\ Proposal = <<>>
    /\ Forward(<<t>>, n_past)
    /\ t' \in Pick(kv', n_past)
    /\ n_past' = n_past + 1 /\ pending' = None
    /\ pc' = "loop"
    /\ UNCHANGED <<weights, chunk, abort, call, done, gen, prop, a, lo, rc,
                   stop, conv>>

\* Whatever the engine or the allocator reports unwinds to the call.
Fail ==
    /\ pc \in {"prefill", "loop", "decode", "accept"}
    /\ rc' = "failed"
    /\ pc' = "end"
    /\ UNCHANGED <<weights, chunk, abort, n_past, pending, kv, call, done, t,
                   gen, prop, a, lo, stop, conv, late>>

Outcome == IF rc = "ok" /\ abort THEN "aborted" ELSE rc

LocalsGone == /\ call' = [call EXCEPT !.draft = <<>>, !.pr = <<>>]
              /\ done' = 0 /\ t' = None /\ prop' = <<>> /\ a' = 0 /\ lo' = <<>>
              /\ late' = 0

\* The cleanup of every call: anything but MOTY_OK empties the conversation.
Return ==
    /\ pc = "end"
    /\ rc' = Outcome
    /\ stop' = IF Outcome = "aborted" THEN "abort" ELSE stop
    /\ IF Outcome = "ok" THEN UNCHANGED <<n_past, pending, conv>>
       ELSE n_past' = 0 /\ pending' = None /\ conv' = <<>>
    /\ pc' = "idle"
    /\ LocalsGone
    /\ UNCHANGED <<weights, chunk, abort, kv, gen>>

-----------------------------------------------------------------------------
Abort ==
    /\ ~abort
    /\ abort' = TRUE
    /\ UNCHANGED <<pc, weights, chunk, n_past, pending, kv, call, done, t, gen,
                   prop, a, lo, rc, stop, conv, late>>

AbortClear ==
    /\ pc = "idle" /\ abort
    /\ abort' = FALSE
    /\ UNCHANGED <<pc, weights, chunk, n_past, pending, kv, call, done, t, gen,
                   prop, a, lo, rc, stop, conv, late>>

Reset ==
    /\ pc = "idle"
    /\ n_past' = 0 /\ pending' = None /\ abort' = FALSE /\ conv' = <<>>
    /\ UNCHANGED <<pc, weights, chunk, kv, call, done, t, gen, prop, a, lo, rc,
                   stop, late>>

CallStep == PrefillChunk \/ LoopEnds \/ Emit \/ Verify \/ Accept \/ OwnToken
            \/ Step \/ Return

Next == \/ \E ids \in Prompts, max \in 0 .. MaxNew, s \in Samplings :
              Generate(ids, max, s)
        \/ Refused \/ CallStep \/ Fail \/ Abort \/ AbortClear \/ Reset

Spec == Init /\ [][Next]_vars

\* The engine's forwards and the callback return; nobody has to call or abort.
FairSpec == Spec /\ WF_vars(CallStep)

-----------------------------------------------------------------------------
(***************************************************************************)
(* Properties.                                                             *)
(***************************************************************************)
TypeOK ==
    /\ pc \in {"idle", "prefill", "loop", "decode", "accept", "end"}
    /\ weights \in Weights /\ chunk \in ChunkOpts /\ abort \in BOOLEAN
    /\ n_past \in 0 .. Ctx /\ pending \in Tokens \cup {None}
    /\ kv \in [Positions -> Tokens \cup {None}]
    /\ call.max \in 0 .. MaxNew /\ call.greedy \in BOOLEAN
    /\ done \in 0 .. Len(call.pr) /\ t \in Tokens \cup {None}
    /\ Len(gen) <= call.max /\ a \in 0 .. Len(prop)
    /\ rc \in {"ok", "aborted", "failed"}
    /\ stop \in {"length", "eos", "callback", "abort"}

\* The KV cache holds the conversation: whatever was proposed and rejected,
\* continued or stopped in the middle of a verification, positions below
\* n_past are the tokens the caller has seen, in order, and the one that is
\* missing is pending ("consecutive calls continue one conversation").
InKv ==
    pc = "idle" \/ (pc # "prefill" /\ done = Len(call.pr)) =>
        conv = Known(kv, n_past) \o (IF pending = None THEN <<>> ELSE <<pending>>)

\* No forward writes past the context, proposals included: the check made once
\* before the call covers every position the call will use.
WithinContext == \A p \in Positions : p >= Ctx => kv[p] = None

\* moty.h: a raised abort stops the running call "within one decode step or
\* prefill chunk": no second forward begins.
AbortPrompt == late <= 1

\* stats.stop says why a successful call ended.
StopTells ==
    pc = "idle" /\ rc = "ok" =>
        /\ stop = "length" => Len(gen) = call.max
        /\ stop = "eos" => gen[Len(gen)] \in Stops
        /\ stop = "callback" => gen # <<>>

\* What holds between any two steps of the API: the types, no row past the
\* context, and a reason that fits how the call ended.
Consistent == TypeOK /\ WithinContext /\ StopTells

\* Every call returns, proposals accepted or not, chunk 0 or not.
CallsEnd == Busy ~> ~Busy

\* Lookahead, chunks, aborts and failures do not show: the handle is the
\* conversation of moty.h, and a greedy call produces only the tokens the
\* model predicts one at a time.
Talk == INSTANCE Conversation WITH busy <- Busy, greedy <- call.greedy
Conversing == Talk!Spec

\* moty.h:28 of MOTY_ERR_ABORTED: "the conversation has been reset".
AbortedForgets == pc = "idle" /\ rc = "aborted" => conv = <<>>
=============================================================================
