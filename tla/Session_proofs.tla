--------------------------- MODULE Session_proofs ---------------------------
(***************************************************************************)
(* Proofs about Session, for every model, context length, chunk size,      *)
(* prompt and draft: what is in the KV cache is what the caller has seen,  *)
(* and the calls implement Conversation.                                   *)
(***************************************************************************)
EXTENDS Session, SequenceTheorems, WellFoundedInduction, TLAPS

PCs   == {"idle", "prefill", "loop", "decode", "accept", "end"}
InRun == {"prefill", "loop", "decode", "accept"}

\* What the proofs need of the types.
Typed ==
  /\ pc \in PCs /\ weights \in Weights /\ chunk \in ChunkOpts /\ abort \in BOOLEAN
  /\ n_past \in 0 .. Ctx /\ pending \in Tokens \cup {None}
  /\ kv \in [Positions -> Tokens \cup {None}]
  /\ call \in [max : 0 .. MaxNew, greedy : BOOLEAN, draft : Seq(Tokens), pr : Seq(Tokens)]
  /\ done \in 0 .. Len(call.pr) /\ t \in Tokens \cup {None}
  /\ gen \in Seq(Tokens) /\ prop \in Seq(Tokens) /\ a \in 0 .. Len(prop)
  /\ conv \in Seq(Tokens)

\* The one check before the call leaves room for all it will write.
Roomy ==
  /\ Len(gen) <= call.max
  /\ pc = "prefill" => /\ gen = <<>> /\ done < Len(call.pr)
                       /\ n_past + Len(call.pr) + call.max <= Ctx
  /\ pc = "loop" => /\ n_past + call.max - Len(gen) <= Ctx
                    /\ call.max > 0 => Len(gen) < call.max
  /\ pc = "decode" => /\ Len(gen) < call.max
                      /\ n_past + 1 + call.max - Len(gen) <= Ctx
  /\ pc = "accept" => /\ n_past > 0 /\ Len(gen) < call.max
                      /\ n_past + call.max - Len(gen) <= Ctx
                      /\ Len(prop) - a <= call.max - Len(gen)

\* A prefill that was not finished leads to the reset of the conversation.
Whole == pc \in {"idle", "prefill"} \/ done = Len(call.pr)
Unfinished == ~Whole => /\ pc \in {"loop", "end"} /\ (pc = "loop" => t = None)
                        /\ rc = "failed" \/ abort

\* The caller has seen what the KV cache holds, and then Ahead.
Waiting == IF pending = None THEN <<>> ELSE <<pending>>
Ahead   == IF pc = "prefill" THEN call.pr ELSE Waiting
Told == Whole => /\ Len(conv) = n_past + Len(Ahead)
                 /\ \A i \in 1 .. n_past : conv[i] = kv[i - 1]
                 /\ \A i \in 1 .. Len(Ahead) : conv[n_past + i] = Ahead[i]
Fed == pc = "prefill" => \A i \in 1 .. done : kv[n_past + i - 1] = call.pr[i]

\* The token to come, and the proposals with what the model says of each.
Chosen ==
  /\ pc = "loop" => /\ pending = None
                    /\ t = None => abort
                    /\ t # None /\ call.greedy => t = LM(weights, conv)
  /\ pc = "decode" => t # None /\ pending = t
  /\ pc = "accept" =>
       /\ pending = None /\ call.greedy
       /\ \A i \in 1 .. Len(prop) - a : kv[n_past + i - 1] = prop[a + i]
       /\ \A i \in a + 1 .. Len(prop) + 1 :
             lo[i] = LM(weights, Known(kv, n_past - a - 1 + i))

\* A forward begins after the abort only if the flag was not looked at yet.
LateOnce == /\ late \in 0 .. 1
            /\ ~abort \/ pc \in {"idle", "prefill", "decode"} => late = 0

\* The reason of the end.
Fits == /\ stop = "length" => Len(gen) = call.max
        /\ stop = "eos" => gen[Len(gen)] \in Stops
        /\ stop = "callback" => gen # <<>>
Reasons == /\ rc \in {"ok", "aborted", "failed"}
           /\ stop \in {"length", "eos", "callback", "abort"}
           /\ pc \in InRun => rc = "ok" /\ stop = "length"
           /\ pc = "idle" /\ rc = "ok" => Fits
           /\ pc = "end" => rc # "aborted" /\ (rc = "ok" /\ ~abort => Fits)

IInv == /\ Typed /\ Roomy /\ WithinContext /\ Unfinished /\ Told /\ Fed
        /\ Chosen /\ LateOnce /\ Reasons

-----------------------------------------------------------------------------
(***************************************************************************)
(* The least and the greatest element.                                     *)
(***************************************************************************)
Less == {ss \in Nat \X Nat : ss[1] < ss[2]}

LEMMA MinOfNat ==
    ASSUME NEW S \in SUBSET Nat, S # {}
    PROVE  Min(S) \in S /\ \A y \in S : Min(S) <= y
<1>1. OpToRel(<, Nat) = Less
  BY Zenon DEF OpToRel, Less
<1>2. IsWellFoundedOn(Less, Nat)
  BY NatLessThanWellFounded, <1>1, Zenon
<1>3. PICK x \in S : \A y \in S : ~(<<y, x>> \in Less)
  BY <1>2, WFMin
<1>4. ASSUME NEW y \in S PROVE x <= y
  <2>1. x \in Nat /\ y \in Nat
    OBVIOUS
  <2>2. ~(y < x)
    BY <1>3, <2>1 DEF Less
  <2>. QED
    BY <2>1, <2>2
<1>. QED
  BY <1>4 DEF Min

LEMMA MaxToThree ==
    ASSUME NEW S \in SUBSET (1 .. 3), S # {} PROVE Max(S) \in S
<1>1. \E x \in S : \A y \in S : x >= y
  <2>1. CASE 3 \in S
    BY <2>1
  <2>2. CASE 3 \notin S /\ 2 \in S
    BY <2>2
  <2>3. CASE 3 \notin S /\ 2 \notin S
    <3>1. PICK x \in S : TRUE
      OBVIOUS
    <3>2. \A y \in S : y = 1
      BY <2>3
    <3>3. \A y \in S : x >= y
      BY <3>2
    <3>. QED
      BY <3>3
  <2>. QED
    BY <2>1, <2>2, <2>3
<1>. QED
  BY <1>1 DEF Max

LEMMA MinOfThree ==
    ASSUME NEW x \in Int, NEW y \in Int, NEW z \in Int
    PROVE  /\ Min({x, y, z}) \in {x, y, z}
           /\ Min({x, y, z}) <= x /\ Min({x, y, z}) <= y /\ Min({x, y, z}) <= z
<1>1. \E m \in {x, y, z} : \A n \in {x, y, z} : m <= n
  <2>1. CASE x <= y /\ x <= z
    BY <2>1
  <2>2. CASE y <= x /\ y <= z
    BY <2>2
  <2>3. CASE z <= x /\ z <= y
    BY <2>3
  <2>. QED
    BY <2>1, <2>2, <2>3
<1>. QED
  BY <1>1 DEF Min

\* What moty_ngram_draft returns: tokens of the draft, as many as the budget
\* of the call has left.
LEMMA ProposedIs ==
    ASSUME SessionAssumption, NEW d \in Seq(Tokens), gen \in Seq(Tokens), Budget \in Nat
    PROVE  Proposed(d) \in Seq(Tokens) /\ Len(Proposed(d)) <= Budget
<1>. DEFINE At(l)    == {j \in 0 .. Len(d) - 1 - l :
                            SubSeq(d, j + 1, j + l)
                              = SubSeq(gen, Len(gen) - l + 1, Len(gen))}
            top      == Min({3, Len(gen)})
            Suffixes == {l \in 1 .. top : At(l) # {}}
            from     == Min(At(Max(Suffixes))) + Max(Suffixes)
            last     == Min({from + DraftK, from + Budget, Len(d)})
<1>1. Proposed(d) = IF Suffixes = {} THEN <<>> ELSE SubSeq(d, from + 1, last)
  BY DEF Proposed
<1>2. CASE Suffixes = {}
  <2>. HIDE DEF Suffixes, from, last
  <2>1. Proposed(d) = <<>>
    BY <1>1, <1>2
  <2>. QED
    BY <2>1, EmptySeq
<1>3. CASE Suffixes # {}
  <2>1. top \in Int /\ top <= 3
    <3>1. top = Min({3, 3, Len(gen)})
      <4>1. {3, Len(gen)} = {3, 3, Len(gen)}
        OBVIOUS
      <4>. QED
        BY <4>1
    <3>. DEFINE n == Len(gen)
    <3>2. n \in Int
      OBVIOUS
    <3>. HIDE DEF n, top
    <3>3. ASSUME NEW x \in Int PROVE Min({3, 3, x}) \in {3, 3, x} /\ Min({3, 3, x}) <= 3
      <4>1. 3 \in Int
        OBVIOUS
      <4>. QED
        BY <4>1, MinOfThree
    <3>. QED
      BY <3>1, <3>2, <3>3 DEF n
  <2>. DEFINE m == Max(Suffixes)
  <2>2. Suffixes \in SUBSET (1 .. 3)
    BY <2>1
  <2>3. m \in Suffixes
    <3>. HIDE DEF Suffixes
    <3>. QED
      BY <1>3, <2>2, MaxToThree
  <2>4. m \in 1 .. 3 /\ At(m) # {}
    BY <2>2, <2>3
  <2>5. At(m) \in SUBSET Nat /\ \A j \in At(m) : j <= Len(d) - 1 - m
    <3>. HIDE DEF m
    <3>. QED
      BY <2>4
  <2>6. Min(At(m)) \in At(m)
    <3>. HIDE DEF At, m
    <3>. QED
      BY <2>4, <2>5, MinOfNat
  <2>7. from \in Nat /\ from < Len(d)
    <3>. DEFINE j == Min(At(m))
    <3>1. j \in Nat /\ j <= Len(d) - 1 - m /\ Len(d) \in Nat
      <4>. HIDE DEF At, m
      <4>. QED
        BY <2>5, <2>6
    <3>2. from = j + m
      OBVIOUS
    <3>. HIDE DEF j, m, from, At
    <3>. QED
      BY <2>4, <3>1, <3>2
  <2>. HIDE DEF from
  <2>8. last \in Int /\ last <= from + Budget /\ last <= Len(d)
    <3>1. from + DraftK \in Int /\ from + Budget \in Int /\ Len(d) \in Int
      BY <2>7, SessionAssumption
    <3>. HIDE DEF last
    <3>. QED
      BY <3>1, MinOfThree DEF last
  <2>. HIDE DEF last, Suffixes
  <2>9. \A i \in from + 1 .. last : d[i] \in Tokens
    BY <2>7, <2>8
  <2>10. /\ SubSeq(d, from + 1, last) \in Seq(Tokens)
         /\ Len(SubSeq(d, from + 1, last))
              = IF from + 1 <= last THEN last - (from + 1) + 1 ELSE 0
    <3>1. from + 1 \in Int
      BY <2>7
    <3>. QED
      BY <2>8, <2>9, <3>1, SubSeqProperties
  <2>. QED
    BY <1>1, <1>3, <2>7, <2>8, <2>10
<1>. QED
  BY <1>2, <1>3

-----------------------------------------------------------------------------
(***************************************************************************)
(* What attention reads, and what a forward writes.                        *)
(***************************************************************************)
LEMMA KnownIs ==
    ASSUME NEW k, NEW n \in Nat, NEW s \in Seq(Tokens), Len(s) = n,
           \A i \in 1 .. n : s[i] = k[i - 1]
    PROVE  Known(k, n) = s
<1>1. s = [i \in 1 .. n |-> s[i]]
  OBVIOUS
<1>2. [i \in 1 .. n |-> s[i]] = [i \in 1 .. n |-> k[i - 1]]
  OBVIOUS
<1>. QED
  BY <1>1, <1>2 DEF Known

LEMMA Predicted ==
    ASSUME SessionAssumption, NEW w \in Weights, NEW k, NEW n \in 1 .. Ctx,
           \A i \in 1 .. n : k[i - 1] \in Tokens
    PROVE  LM(w, Known(k, n)) \in Tokens
<1>1. Known(k, n) \in [1 .. n -> Tokens]
  BY DEF Known
<1>. QED
  BY <1>1, SessionAssumption

\* A forward writes its own rows, and none past the context.
LEMMA ForwardIs ==
    ASSUME SessionAssumption, Typed, WithinContext, NEW ids \in Seq(Tokens),
           NEW pos \in 0 .. Ctx, pos + Len(ids) <= Ctx, Forward(ids, pos)
    PROVE  /\ kv' \in [Positions -> Tokens \cup {None}] /\ WithinContext'
           /\ \A p \in 0 .. pos - 1 : kv'[p] = kv[p]
           /\ \A i \in 1 .. Len(ids) : kv'[pos + i - 1] = ids[i]
<1>. DEFINE new(p) == p >= pos /\ p < pos + Len(ids)
<1>1. kv' = [p \in Positions |-> IF new(p) THEN ids[p - pos + 1] ELSE kv[p]]
  BY DEF Forward
<1>2. Ctx \in Nat \ {0} /\ DraftK \in Nat \ {0} /\ Len(ids) \in Nat
  BY SessionAssumption
<1>3. \A p \in Positions : p \in Nat
  BY <1>2 DEF Positions
<1>4. \A p \in Positions : new(p) => ids[p - pos + 1] \in Tokens
  BY <1>2, <1>3
<1>5. kv' \in [Positions -> Tokens \cup {None}]
  BY <1>1, <1>4 DEF Typed
<1>6. WithinContext'
  <2>1. \A p \in Positions : p >= Ctx => ~new(p)
    BY <1>2, <1>3
  <2>2. \A p \in Positions : kv'[p] = IF new(p) THEN ids[p - pos + 1] ELSE kv[p]
    BY <1>1
  <2>. HIDE DEF new
  <2>. QED
    BY <2>1, <2>2 DEF WithinContext
<1>7. \A p \in 0 .. pos - 1 : kv'[p] = kv[p]
  BY <1>1, <1>2 DEF Positions
<1>8. ASSUME NEW i \in 1 .. Len(ids) PROVE kv'[pos + i - 1] = ids[i]
  <2>1. pos + i - 1 \in Positions /\ new(pos + i - 1) /\ (pos + i - 1) - pos + 1 = i
    BY <1>2 DEF Positions
  <2>. QED
    BY <1>1, <2>1
<1>. QED
  BY <1>5, <1>6, <1>7, <1>8

-----------------------------------------------------------------------------
(***************************************************************************)
(* The steps.                                                              *)
(***************************************************************************)
LEMMA InitIInv == Init => IInv
<1>. SUFFICES ASSUME Init PROVE IInv
  OBVIOUS
<1>. USE SessionAssumption DEF Init, NoCall
<1>1. Ctx \in Nat /\ MaxNew \in Nat /\ Len(<<>>) = 0 /\ <<>> \in Seq(Tokens)
  BY EmptySeq
<1>2. Typed
  <2>1. call \in [max : 0 .. MaxNew, greedy : BOOLEAN, draft : Seq(Tokens), pr : Seq(Tokens)]
    BY <1>1
  <2>2. kv \in [Positions -> Tokens \cup {None}]
    OBVIOUS
  <2>3. done \in 0 .. Len(call.pr) /\ a \in 0 .. Len(prop)
    BY <1>1
  <2>4. chunk \in Nat /\ n_past \in 0 .. Ctx /\ pending = None /\ t = None /\ abort = FALSE
    BY <1>1
  <2>. QED
    BY <1>1, <2>1, <2>2, <2>3, <2>4 DEF Typed, PCs
<1>3. Roomy /\ WithinContext /\ Unfinished /\ Fed /\ Chosen /\ LateOnce
  BY <1>1 DEF Roomy, WithinContext, Unfinished, Whole, Fed, Chosen, LateOnce
<1>4. Told
  BY <1>1 DEF Told, Ahead, Waiting
<1>5. Reasons
  BY <1>1 DEF Reasons, Fits, InRun
<1>. QED
  BY <1>2, <1>3, <1>4, <1>5 DEF IInv

LEMMA GenerateStep ==
    ASSUME IInv, NEW ids \in Prompts, NEW max \in 0 .. MaxNew, NEW s \in Samplings,
           Generate(ids, max, s)
    PROVE  IInv'
<1>. DEFINE pr == WithPending(ids)
<1>1. /\ pc = "idle" /\ pc' = "prefill" /\ ~abort /\ abort' = abort /\ pr # <<>>
      /\ n_past + Len(pr) + max <= Ctx /\ done' = 0 /\ gen' = <<>> /\ t' = None
      /\ call' = [max |-> max, greedy |-> s.greedy, draft |-> s.draft, pr |-> pr]
      /\ rc' = "ok" /\ stop' = "length" /\ late' = 0 /\ conv' = conv \o ids
      /\ UNCHANGED <<weights, chunk, n_past, pending, kv, prop, a, lo>>
  BY DEF Generate
<1>2. ids \in Seq(Tokens) /\ s \in [greedy : BOOLEAN, draft : Seq(Tokens)]
  BY SessionAssumption
<1>3. /\ pr \in Seq(Tokens) /\ Len(pr) = Len(Waiting) + Len(ids)
      /\ Len(Waiting) \in Nat /\ Len(ids) \in Nat /\ Len(pr) > 0
      /\ \A i \in 1 .. Len(Waiting) : pr[i] = Waiting[i]
      /\ \A i \in 1 .. Len(ids) : pr[Len(Waiting) + i] = ids[i]
  <2>1. CASE pending = None
    BY <1>1, <1>2, <2>1 DEF WithPending, Waiting
  <2>2. CASE pending # None
    <3>1. <<pending>> \in Seq(Tokens) /\ Len(<<pending>>) = 1
      BY <2>2 DEF IInv, Typed
    <3>2. pr = <<pending>> \o ids /\ Waiting = <<pending>>
      BY <2>2 DEF WithPending, Waiting
    <3>. HIDE DEF pr
    <3>. QED
      BY <1>2, <3>1, <3>2, ConcatProperties
  <2>. QED
    BY <2>1, <2>2
<1>. HIDE DEF pr
<1>4. Typed' /\ Roomy'
  <2>1. call' \in [max : 0 .. MaxNew, greedy : BOOLEAN, draft : Seq(Tokens), pr : Seq(Tokens)]
    BY <1>1, <1>2, <1>3
  <2>2. conv' \in Seq(Tokens)
    BY <1>1, <1>2 DEF IInv, Typed
  <2>3. gen' = <<>> /\ Len(gen') = 0 /\ gen' \in Seq(Tokens)
    BY <1>1, EmptySeq
  <2>4. done' \in 0 .. Len(call'.pr) /\ t' = None
    BY <1>1, <1>3
  <2>5. Typed'
    BY <1>1, <2>1, <2>2, <2>3, <2>4, SessionAssumption DEF IInv, Typed, PCs
  <2>6. Roomy'
    <3>1. call'.max = max /\ call'.pr = pr /\ max >= 0
      BY <1>1, SessionAssumption
    <3>. QED
      BY <1>1, <1>3, <2>3, <3>1 DEF Roomy
  <2>. QED
    BY <2>5, <2>6
<1>5. Told'
  <2>1. /\ Len(conv) = n_past + Len(Waiting)
        /\ \A i \in 1 .. n_past : conv[i] = kv[i - 1]
        /\ \A i \in 1 .. Len(Waiting) : conv[n_past + i] = Waiting[i]
    BY <1>1 DEF IInv, Told, Whole, Ahead
  <2>2. n_past \in Nat /\ conv \in Seq(Tokens)
    BY SessionAssumption DEF IInv, Typed
  <2>3. /\ Len(conv') = Len(conv) + Len(ids)
        /\ \A i \in 1 .. Len(conv) : conv'[i] = conv[i]
        /\ \A i \in 1 .. Len(ids) : conv'[Len(conv) + i] = ids[i]
    BY <1>1, <1>2, <2>2, ConcatProperties
  <2>4. Ahead' = pr
    BY <1>1 DEF Ahead
  <2>5. ASSUME NEW i \in 1 .. Len(pr) PROVE conv'[n_past + i] = pr[i]
    <3>1. CASE i <= Len(Waiting)
      BY <1>3, <2>1, <2>2, <2>3, <3>1
    <3>2. CASE i > Len(Waiting)
      <4>1. i - Len(Waiting) \in 1 .. Len(ids)
        BY <1>3, <3>2
      <4>2. /\ Len(conv) + (i - Len(Waiting)) = n_past + i
            /\ Len(Waiting) + (i - Len(Waiting)) = i
        BY <1>3, <2>1, <2>2
      <4>. QED
        BY <1>3, <2>3, <4>1, <4>2
    <3>. QED
      BY <1>3, <3>1, <3>2
  <2>6. \A i \in 1 .. n_past : conv'[i] = kv'[i - 1]
    <3>1. \A i \in 1 .. n_past : i \in 1 .. Len(conv)
      BY <1>3, <2>1, <2>2
    <3>. QED
      BY <1>1, <2>1, <2>3, <3>1
  <2>7. Len(conv') = n_past + Len(pr)
    BY <1>3, <2>1, <2>2, <2>3
  <2>. QED
    BY <1>1, <2>4, <2>5, <2>6, <2>7 DEF Told
<1>6. WithinContext' /\ Unfinished' /\ Fed' /\ Chosen' /\ LateOnce'
  BY <1>1 DEF IInv, WithinContext, Unfinished, Whole, Fed, Chosen, LateOnce
<1>7. Reasons'
  BY <1>1 DEF Reasons, InRun
<1>. QED
  BY <1>4, <1>5, <1>6, <1>7 DEF IInv

\* One chunk: its rows follow those of the chunks before it.
LEMMA ChunkRows ==
    ASSUME IInv, PrefillChunk
    PROVE  LET np == Len(call.pr)  c == ChunkOf(np)
           IN  /\ c \in 1 .. np - done /\ np \in Nat /\ n_past + np <= Ctx
               /\ kv' \in [Positions -> Tokens \cup {None}] /\ WithinContext'
               /\ \A i \in 1 .. n_past : kv'[i - 1] = kv[i - 1]
               /\ \A i \in 1 .. done + c : kv'[n_past + i - 1] = call.pr[i]
<1>. DEFINE np  == Len(call.pr)
            c   == ChunkOf(np)
            ids == SubSeq(call.pr, done + 1, done + c)
<1>1. /\ pc = "prefill" /\ Forward(ids, n_past + done)
  BY DEF PrefillChunk
<1>2. /\ np \in Nat /\ done \in Nat /\ done < np /\ n_past \in Nat /\ call.max \in Nat
      /\ n_past + np + call.max <= Ctx /\ chunk \in Nat /\ call.pr \in Seq(Tokens)
      /\ Ctx \in Nat
  BY <1>1, SessionAssumption DEF IInv, Typed, Roomy
<1>3. c \in 1 .. np - done
  <2>. HIDE DEF np
  <2>. QED
    BY <1>2 DEF ChunkOf
<1>. HIDE DEF c
<1>4. /\ ids \in Seq(Tokens) /\ Len(ids) = c
      /\ \A i \in 1 .. c : ids[i] = call.pr[done + i]
  <2>. DEFINE m == done + 1
              n == done + c
  <2>1. m \in Int /\ n \in Int /\ m <= n /\ n - m + 1 = c
    BY <1>2, <1>3
  <2>2. \A i \in m .. n : call.pr[i] \in Tokens
    BY <1>2, <1>3
  <2>3. ids = SubSeq(call.pr, m, n)
    OBVIOUS
  <2>. HIDE DEF m, n, ids, np
  <2>4. /\ ids \in Seq(Tokens) /\ Len(ids) = c
        /\ \A i \in 1 .. c : ids[i] = call.pr[m + i - 1]
    BY <2>1, <2>2, <2>3, SubSeqProperties
  <2>5. \A i \in 1 .. c : m + i - 1 = done + i
    BY <1>2, <1>3 DEF m
  <2>. QED
    BY <2>4, <2>5
<1>. HIDE DEF ids, np
<1>5. /\ kv' \in [Positions -> Tokens \cup {None}] /\ WithinContext'
      /\ \A p \in 0 .. n_past + done - 1 : kv'[p] = kv[p]
      /\ \A i \in 1 .. c : kv'[n_past + done + i - 1] = ids[i]
  <2>1. n_past + done \in 0 .. Ctx /\ n_past + done + Len(ids) <= Ctx
    BY <1>2, <1>3, <1>4
  <2>. DEFINE pos == n_past + done
  <2>2. Forward(ids, pos) /\ pos \in 0 .. Ctx /\ pos + Len(ids) <= Ctx
    BY <1>1, <2>1
  <2>3. Typed /\ WithinContext
    BY DEF IInv
  <2>. HIDE DEF pos
  <2>4. /\ kv' \in [Positions -> Tokens \cup {None}] /\ WithinContext'
        /\ \A p \in 0 .. pos - 1 : kv'[p] = kv[p]
        /\ \A i \in 1 .. Len(ids) : kv'[pos + i - 1] = ids[i]
    BY <1>4, <2>2, <2>3, ForwardIs, SessionAssumption
  <2>5. \A i \in 1 .. c : kv'[pos + i - 1] = ids[i]
    BY <1>4, <2>4
  <2>6. pos = n_past + done
    BY DEF pos
  <2>7. \A p \in 0 .. n_past + done - 1 : kv'[p] = kv[p]
    BY <1>2, <2>4, <2>6
  <2>8. ASSUME NEW i \in 1 .. c PROVE kv'[n_past + done + i - 1] = ids[i]
    <3>1. n_past + done + i - 1 = pos + i - 1
      BY <1>2, <1>3, <2>6
    <3>. QED
      BY <2>5, <3>1
  <2>. QED
    BY <2>4, <2>7, <2>8
<1>6. \A i \in 1 .. n_past : kv'[i - 1] = kv[i - 1]
  BY <1>2, <1>5
<1>7. ASSUME NEW i \in 1 .. done + c PROVE kv'[n_past + i - 1] = call.pr[i]
  <2>1. CASE i <= done
    <3>1. n_past + i - 1 \in 0 .. n_past + done - 1 /\ i \in 1 .. done
      BY <1>2, <1>3, <2>1
    <3>. QED
      BY <1>1, <1>5, <3>1 DEF IInv, Fed
  <2>2. CASE i > done
    <3>1. /\ i - done \in 1 .. c /\ done + (i - done) = i
          /\ n_past + done + (i - done) - 1 = n_past + i - 1
      BY <1>2, <1>3, <2>2
    <3>. QED
      BY <1>4, <1>5, <3>1
  <2>. QED
    BY <1>2, <1>3, <2>1, <2>2
<1>. QED
  BY <1>2, <1>3, <1>5, <1>6, <1>7 DEF np, c

LEMMA PrefillStep ==
    ASSUME IInv, PrefillChunk PROVE IInv'
<1>. DEFINE np == Len(call.pr)
            c  == ChunkOf(np)
            last == done + c = np
<1>1. /\ pc = "prefill" /\ done' = done + c
      /\ late' = IF abort THEN late + 1 ELSE late
      /\ UNCHANGED <<weights, chunk, abort, call, gen, prop, a, lo, rc, stop, conv>>
  BY DEF PrefillChunk, Forward
<1>2. /\ c \in 1 .. np - done /\ np \in Nat /\ n_past + np <= Ctx
      /\ kv' \in [Positions -> Tokens \cup {None}] /\ WithinContext'
      /\ \A i \in 1 .. n_past : kv'[i - 1] = kv[i - 1]
      /\ \A i \in 1 .. done + c : kv'[n_past + i - 1] = call.pr[i]
  BY ChunkRows
<1>3. /\ done \in Nat /\ done < np /\ n_past \in Nat /\ call.max \in Nat /\ Ctx \in Nat
      /\ n_past + np + call.max <= Ctx /\ gen = <<>> /\ Len(gen) = 0
      /\ conv \in Seq(Tokens) /\ call.pr \in Seq(Tokens) /\ late = 0
      /\ call.max \in 0 .. MaxNew
  BY <1>1, SessionAssumption DEF IInv, Typed, Roomy, LateOnce
<1>4. /\ Len(conv) = n_past + np
      /\ \A i \in 1 .. n_past : conv[i] = kv[i - 1]
      /\ \A i \in 1 .. np : conv[n_past + i] = call.pr[i]
  BY <1>1 DEF IInv, Told, Whole, Ahead
<1>5. IF last \/ abort
      THEN /\ t' \in IF last THEN Pick(kv', n_past + np - 1) ELSE {None}
           /\ n_past' = n_past + np /\ pending' = None /\ pc' = "loop"
      ELSE UNCHANGED <<t, n_past, pending, pc>>
  BY DEF PrefillChunk, StopsBetweenChunks
<1>. HIDE DEF c
<1>6. CASE ~last /\ ~abort
  <2>1. /\ UNCHANGED <<t, n_past, pending, pc>> /\ late' = 0
    <3>. HIDE DEF last, np
    <3>. QED
      BY <1>1, <1>3, <1>5, <1>6
  <2>2. done + c < np /\ done + c \in Nat
    <3>1. done + c # np
      BY <1>6
    <3>. HIDE DEF np, last
    <3>. QED
      BY <1>2, <1>3, <3>1
  <2>3. Typed' /\ Roomy'
    BY <1>1, <1>2, <1>3, <2>1, <2>2 DEF IInv, Typed, Roomy
  <2>4. Unfinished' /\ Chosen' /\ LateOnce' /\ Reasons'
    BY <1>1, <2>1 DEF IInv, Unfinished, Whole, Chosen, LateOnce, Reasons, InRun, Fits
  <2>5. Told' /\ Fed'
    BY <1>1, <1>2, <1>4, <2>1 DEF Told, Fed, Ahead
  <2>. QED
    BY <1>2, <2>3, <2>4, <2>5 DEF IInv
<1>7. CASE last \/ abort
  <2>1. /\ n_past' = n_past + np /\ pending' = None /\ pc' = "loop"
        /\ t' \in IF last THEN Pick(kv', n_past + np - 1) ELSE {None}
    BY <1>5, <1>7
  <2>2. Roomy'
    BY <1>1, <1>3, <2>1 DEF Roomy
  <2>3. LateOnce' /\ Fed' /\ Reasons'
    BY <1>1, <1>3, <2>1 DEF IInv, LateOnce, Fed, Reasons, InRun
  <2>4. CASE last
    <3>1. /\ Len(conv) = n_past' /\ n_past' \in 1 .. Ctx
          /\ \A i \in 1 .. n_past' : conv[i] = kv'[i - 1]
      <4>1. Len(conv) = n_past' /\ n_past' \in 1 .. Ctx
        BY <1>2, <1>3, <1>4, <2>1
      <4>2. ASSUME NEW i \in 1 .. n_past' PROVE conv[i] = kv'[i - 1]
        <5>1. CASE i <= n_past
          <6>1. i \in 1 .. n_past
            BY <1>3, <4>1, <5>1
          <6>. QED
            BY <1>2, <1>4, <6>1
        <5>2. CASE i > n_past
          <6>1. /\ i - n_past \in 1 .. np /\ n_past + (i - n_past) = i
                /\ n_past + (i - n_past) - 1 = i - 1
            BY <1>2, <1>3, <2>1, <5>2
          <6>. QED
            BY <1>2, <1>4, <2>4, <6>1
        <5>. QED
          BY <1>3, <4>1, <5>1, <5>2
      <4>. QED
        BY <4>1, <4>2
    <3>2. Known(kv', n_past') = conv
      BY <1>3, <3>1, KnownIs
    <3>3. LM(weights, Known(kv', n_past')) \in Tokens
      <4>1. \A i \in 1 .. n_past' : kv'[i - 1] \in Tokens
        BY <1>3, <3>1
      <4>. QED
        BY <3>1, <4>1, Predicted, SessionAssumption DEF IInv, Typed
    <3>4. t' \in IF call.greedy THEN {LM(weights, Known(kv', n_past'))} ELSE Tokens
      <4>1. (n_past + np - 1) + 1 = n_past'
        BY <1>2, <1>3, <2>1
      <4>. QED
        BY <2>1, <2>4, <4>1 DEF Pick
    <3>5. t' \in Tokens /\ t' # None
      BY <3>3, <3>4, SessionAssumption
    <3>6. Typed'
      <4>1. done' \in 0 .. Len(call'.pr) /\ n_past' \in 0 .. Ctx
        BY <1>1, <1>2, <2>4, <3>1
      <4>. QED
        BY <1>1, <1>2, <2>1, <3>5, <4>1 DEF IInv, Typed, PCs
    <3>7. Told' /\ Unfinished'
      <4>1. Ahead' = <<>> /\ Len(<<>>) = 0 /\ Whole'
        BY <1>1, <2>1, <2>4 DEF Ahead, Waiting, Whole
      <4>. QED
        BY <1>1, <3>1, <4>1 DEF Told, Unfinished
    <3>8. Chosen'
      BY <1>1, <2>1, <3>2, <3>4, <3>5 DEF Chosen
    <3>. QED
      BY <1>2, <2>2, <2>3, <3>6, <3>7, <3>8 DEF IInv
  <2>5. CASE ~last
    <3>1. t' = None /\ abort /\ done' # np /\ done' \in 0 .. np
      BY <1>1, <1>2, <1>3, <1>7, <2>1, <2>5
    <3>2. Typed'
      BY <1>1, <1>2, <1>3, <2>1, <3>1 DEF IInv, Typed, PCs
    <3>3. Unfinished' /\ Told' /\ Chosen'
      BY <1>1, <2>1, <3>1 DEF Unfinished, Whole, Told, Chosen
    <3>. QED
      BY <1>2, <2>2, <2>3, <3>2, <3>3 DEF IInv
  <2>. QED
    BY <2>4, <2>5
<1>. QED
  BY <1>6, <1>7

\* A token is delivered: it is the answer's and the conversation's last.
LEMMA Delivered ==
    ASSUME IInv, NEW y \in Tokens, Deliver(y)
    PROVE  /\ gen' \in Seq(Tokens) /\ Len(gen') = Len(gen) + 1 /\ gen'[Len(gen')] = y
           /\ gen' # <<>>
           /\ conv' \in Seq(Tokens) /\ Len(conv') = Len(conv) + 1
           /\ \A i \in 1 .. Len(conv) : conv'[i] = conv[i]
           /\ conv'[Len(conv) + 1] = y
           /\ Len(gen) \in Nat /\ Len(conv) \in Nat
<1>1. /\ gen \in Seq(Tokens) /\ conv \in Seq(Tokens)
      /\ gen' = Append(gen, y) /\ conv' = Append(conv, y)
  BY DEF IInv, Typed, Deliver
<1>2. /\ gen' \in Seq(Tokens) /\ Len(gen') = Len(gen) + 1 /\ gen'[Len(gen) + 1] = y
      /\ Len(gen) \in Nat
  <2>. QED
    BY <1>1, AppendProperties, LenProperties
<1>3. gen' # <<>>
  BY <1>1, AppendProperties
<1>4. /\ conv' \in Seq(Tokens) /\ Len(conv') = Len(conv) + 1
      /\ \A i \in 1 .. Len(conv) : conv'[i] = conv[i]
      /\ conv'[Len(conv) + 1] = y /\ Len(conv) \in Nat
  BY <1>1, AppendProperties, LenProperties
<1>. QED
  BY <1>2, <1>3, <1>4

\* The call ends with it for the reason it reports.
LEMMA EndFits ==
    ASSUME IInv, NEW y \in Tokens, Deliver(y), EmitEnds(y), stop = "length",
           Len(gen) < call.max, call' = call
    PROVE  /\ Fits' /\ stop' \in {"length", "eos", "callback"}
<1>1. call.max \in Nat
  BY SessionAssumption DEF IInv, Typed
<1>. QED
  BY <1>1, Delivered DEF EmitEnds, Fits, Spent

LEMMA EmitStep ==
    ASSUME IInv, Emit PROVE IInv'
<1>1. /\ pc = "loop" /\ t # None /\ call.max > 0 /\ ~abort /\ Deliver(t) /\ pending' = t
      /\ \/ EmitEnds(t) /\ pc' = "end"
         \/ EmitGoesOn(t) /\ pc' = "decode"
      /\ UNCHANGED <<weights, chunk, abort, n_past, kv, call, done, t, prop, a,
                     lo, rc, late>>
  BY DEF Emit
<1>2. /\ t \in Tokens /\ Whole /\ pending = None /\ rc = "ok" /\ stop = "length"
      /\ Len(gen) < call.max /\ n_past + call.max - Len(gen) <= Ctx /\ late = 0
      /\ n_past \in Nat /\ call.max \in Nat /\ Ctx \in Nat
  BY <1>1, SessionAssumption
     DEF IInv, Typed, Roomy, Unfinished, Chosen, Reasons, InRun, LateOnce
<1>3. /\ gen' \in Seq(Tokens) /\ Len(gen') = Len(gen) + 1 /\ gen' # <<>>
      /\ conv' \in Seq(Tokens) /\ Len(conv') = Len(conv) + 1
      /\ \A i \in 1 .. Len(conv) : conv'[i] = conv[i]
      /\ conv'[Len(conv) + 1] = t
      /\ Len(gen) \in Nat /\ Len(conv) \in Nat
  BY <1>1, <1>2, Delivered
<1>4. Typed'
  BY <1>1, <1>2, <1>3 DEF IInv, Typed, PCs
<1>5. Roomy'
  BY <1>1, <1>2, <1>3 DEF EmitGoesOn, Spent, Roomy
<1>6. Told'
  <2>1. Len(conv) = n_past /\ \A i \in 1 .. n_past : conv[i] = kv[i - 1]
    BY <1>1, <1>2 DEF IInv, Told, Ahead, Waiting
  <2>2. Ahead' = <<t>>
    BY <1>1, <1>2, SessionAssumption DEF Ahead, Waiting
  <2>3. Len(conv') = n_past + 1 /\ \A i \in 1 .. n_past : conv'[i] = kv[i - 1]
    BY <1>3, <2>1
  <2>4. \A i \in 1 .. 1 : conv'[n_past + i] = <<t>>[i]
    BY <1>3, <2>1
  <2>5. Len(<<t>>) = 1
    OBVIOUS
  <2>6. n_past' = n_past /\ kv' = kv
    BY <1>1
  <2>. QED
    BY <2>2, <2>3, <2>4, <2>5, <2>6 DEF Told
<1>7. WithinContext' /\ Unfinished' /\ Fed' /\ LateOnce'
  BY <1>1, <1>2 DEF IInv, WithinContext, Unfinished, Whole, Fed, LateOnce
<1>8. Chosen'
  BY <1>1 DEF Chosen
<1>9. Reasons'
  <2>1. CASE pc' = "end"
    <3>1. EmitEnds(t)
      BY <1>1, <2>1
    <3>. QED
      BY <1>1, <1>2, <2>1, <3>1, EndFits DEF Reasons, InRun
  <2>2. CASE pc' = "decode"
    BY <1>1, <1>2, <2>2 DEF Reasons, InRun, EmitGoesOn, EmitEnds
  <2>. QED
    BY <1>1, <2>1, <2>2
<1>. QED
  BY <1>4, <1>5, <1>6, <1>7, <1>8, <1>9 DEF IInv

\* The pending token is fed.
LEMMA PendingFed ==
    ASSUME IInv, pc = "decode", NEW ids \in Seq(Tokens),
           Len(ids) <= call.max - Len(gen), Forward(<<t>> \o ids, n_past)
    PROVE  /\ kv' \in [Positions -> Tokens \cup {None}] /\ WithinContext'
           /\ Len(conv) = n_past + 1 /\ Whole
           /\ \A i \in 1 .. n_past + 1 : conv[i] = kv'[i - 1]
           /\ \A i \in 1 .. Len(ids) : kv'[n_past + 1 + i - 1] = ids[i]
           /\ n_past + 1 + Len(ids) <= Ctx
<1>. DEFINE fed == <<t>> \o ids
<1>1. /\ t \in Tokens /\ pending = t /\ Whole /\ pending # None
      /\ n_past \in Nat /\ n_past + 1 + call.max - Len(gen) <= Ctx
      /\ Len(gen) \in Nat /\ call.max \in Nat /\ Ctx \in Nat /\ Len(ids) \in Nat
  BY SessionAssumption DEF IInv, Typed, Chosen, Roomy, Unfinished
<1>2. /\ fed \in Seq(Tokens) /\ Len(fed) = 1 + Len(ids) /\ fed[1] = t
      /\ \A i \in 1 .. Len(ids) : fed[i + 1] = ids[i]
  <2>1. <<t>> \in Seq(Tokens) /\ Len(<<t>>) = 1 /\ <<t>>[1] = t
    BY <1>1
  <2>. QED
    BY <1>1, <2>1, ConcatProperties
<1>. HIDE DEF fed
<1>3. n_past + 1 + Len(ids) <= Ctx
  BY <1>1
<1>4. /\ kv' \in [Positions -> Tokens \cup {None}] /\ WithinContext'
      /\ \A p \in 0 .. n_past - 1 : kv'[p] = kv[p]
      /\ \A i \in 1 .. Len(fed) : kv'[n_past + i - 1] = fed[i]
  <2>1. n_past \in 0 .. Ctx /\ n_past + Len(fed) <= Ctx /\ Typed /\ WithinContext
    BY <1>1, <1>2, <1>3 DEF IInv
  <2>2. Forward(fed, n_past)
    BY DEF fed
  <2>. QED
    BY <1>2, <2>1, <2>2, ForwardIs, SessionAssumption
<1>5. /\ Len(conv) = n_past + 1 /\ conv[n_past + 1] = t
      /\ \A i \in 1 .. n_past : conv[i] = kv[i - 1]
  <2>1. Ahead = <<t>> /\ Len(<<t>>) = 1 /\ <<t>>[1] = t
    BY <1>1 DEF Ahead, Waiting
  <2>. QED
    BY <1>1, <2>1 DEF IInv, Told
<1>6. ASSUME NEW i \in 1 .. n_past + 1 PROVE conv[i] = kv'[i - 1]
  <2>1. CASE i <= n_past
    <3>1. i \in 1 .. n_past /\ i - 1 \in 0 .. n_past - 1
      BY <1>1, <2>1
    <3>. QED
      BY <1>4, <1>5, <3>1
  <2>2. CASE i = n_past + 1
    <3>1. 1 \in 1 .. Len(fed) /\ n_past + 1 - 1 = i - 1
      BY <1>1, <1>2, <2>2
    <3>. QED
      BY <1>2, <1>4, <1>5, <2>2, <3>1
  <2>. QED
    BY <1>1, <2>1, <2>2
<1>7. ASSUME NEW i \in 1 .. Len(ids) PROVE kv'[n_past + 1 + i - 1] = ids[i]
  <2>1. i + 1 \in 1 .. Len(fed) /\ n_past + (i + 1) - 1 = n_past + 1 + i - 1
    BY <1>1, <1>2
  <2>. QED
    BY <1>2, <1>4, <2>1
<1>. QED
  BY <1>1, <1>3, <1>4, <1>5, <1>6, <1>7

LEMMA VerifyStep ==
    ASSUME IInv, Verify PROVE IInv'
<1>1. /\ pc = "decode" /\ Proposal # <<>> /\ Forward(<<t>> \o Proposal, n_past)
      /\ lo' = LogitsAll(kv', 1 + Len(Proposal)) /\ prop' = Proposal /\ a' = 0
      /\ n_past' = n_past + 1 /\ pending' = None /\ pc' = "accept"
      /\ late' = IF abort THEN late + 1 ELSE late
      /\ UNCHANGED <<weights, chunk, abort, call, done, t, gen, rc, stop, conv>>
  BY DEF Verify, Forward
<1>2. /\ Len(gen) < call.max /\ Len(gen) \in Nat /\ call.max \in Nat /\ n_past \in Nat
      /\ n_past + 1 + call.max - Len(gen) <= Ctx /\ Ctx \in Nat /\ late = 0
      /\ gen \in Seq(Tokens) /\ call.draft \in Seq(Tokens) /\ conv \in Seq(Tokens)
  BY <1>1, SessionAssumption DEF IInv, Typed, Roomy, LateOnce
<1>3. /\ call.greedy /\ Proposal \in Seq(Tokens) /\ Len(Proposal) <= call.max - Len(gen)
  <2>1. Budget \in Nat
    BY <1>2 DEF Budget
  <2>2. call.greedy /\ Proposal = Proposed(call.draft)
    BY <1>1 DEF Proposal, LookingAhead
  <2>. QED
    BY <1>2, <2>1, <2>2, ProposedIs, SessionAssumption DEF Budget
<1>4. Len(Proposal) \in Nat
  BY <1>3
<1>5. /\ kv' \in [Positions -> Tokens \cup {None}] /\ WithinContext'
      /\ Len(conv) = n_past + 1 /\ Whole
      /\ \A i \in 1 .. n_past + 1 : conv[i] = kv'[i - 1]
      /\ \A i \in 1 .. Len(Proposal) : kv'[n_past + 1 + i - 1] = Proposal[i]
  BY <1>1, <1>3, PendingFed
<1>6. Typed'
  <2>1. n_past' \in 0 .. Ctx /\ a' \in 0 .. Len(prop') /\ prop' \in Seq(Tokens)
    BY <1>1, <1>2, <1>3, <1>4
  <2>. QED
    BY <1>1, <1>5, <2>1 DEF IInv, Typed, PCs
<1>7. Roomy'
  BY <1>1, <1>2, <1>3, <1>4 DEF Roomy
<1>8. Told'
  <2>1. Ahead' = <<>> /\ Len(<<>>) = 0
    BY <1>1 DEF Ahead, Waiting
  <2>. QED
    BY <1>1, <1>2, <1>5, <2>1 DEF Told
<1>9. Unfinished' /\ Fed' /\ LateOnce' /\ Reasons'
  BY <1>1, <1>2, <1>5
     DEF IInv, Unfinished, Whole, Fed, LateOnce, Reasons, InRun
<1>10. Chosen'
  <2>1. \A i \in 1 .. Len(prop') - a' : kv'[n_past' + i - 1] = prop'[a' + i]
    <3>1. ASSUME NEW i \in 1 .. Len(prop') - a'
          PROVE  kv'[n_past' + i - 1] = prop'[a' + i]
      <4>1. i \in 1 .. Len(Proposal) /\ a' + i = i
        BY <1>1, <1>4
      <4>. QED
        BY <1>1, <1>5, <4>1
    <3>. QED
      BY <3>1
  <2>2. ASSUME NEW i \in a' + 1 .. Len(prop') + 1
        PROVE  lo'[i] = LM(weights', Known(kv', n_past' - a' - 1 + i))
    <3>1. i \in 1 .. 1 + Len(Proposal) /\ n_past' - a' - 1 + i = n_past + i
      BY <1>1, <1>2, <1>4
    <3>2. lo'[i] = LM(weights, Known(kv', n_past + i))
      BY <1>1, <3>1 DEF LogitsAll
    <3>. QED
      BY <1>1, <3>1, <3>2
  <2>. QED
    BY <1>1, <1>3, <2>1, <2>2 DEF Chosen
<1>. QED
  BY <1>5, <1>6, <1>7, <1>8, <1>9, <1>10 DEF IInv

\* In a verification the next prediction is the model's for what was said.
LEMMA Expected ==
    ASSUME IInv, pc = "accept"
    PROVE  /\ Known(kv, n_past) = conv /\ n_past \in 1 .. Ctx /\ Len(conv) = n_past
           /\ lo[a + 1] = LM(weights, conv) /\ lo[a + 1] \in Tokens /\ Whole
<1>1. /\ Whole /\ pending = None /\ a \in Nat /\ Len(prop) \in Nat /\ a <= Len(prop)
      /\ n_past \in 0 .. Ctx /\ Ctx \in Nat /\ conv \in Seq(Tokens)
  BY SessionAssumption DEF IInv, Typed, Unfinished, Chosen
<1>2. Len(conv) = n_past /\ \A i \in 1 .. n_past : conv[i] = kv[i - 1]
  <2>1. Ahead = <<>> /\ Len(<<>>) = 0
    BY <1>1 DEF Ahead, Waiting
  <2>. QED
    BY <1>1, <2>1 DEF IInv, Told
<1>3. Known(kv, n_past) = conv
  BY <1>1, <1>2, KnownIs
<1>4. lo[a + 1] = LM(weights, Known(kv, n_past))
  <2>1. a + 1 \in a + 1 .. Len(prop) + 1 /\ n_past - a - 1 + (a + 1) = n_past
    BY <1>1
  <2>. QED
    BY <2>1 DEF IInv, Chosen
<1>5. n_past \in 1 .. Ctx
  BY <1>1 DEF IInv, Roomy
<1>6. LM(weights, Known(kv, n_past)) \in Tokens
  <2>1. ASSUME NEW i \in 1 .. n_past PROVE kv[i - 1] \in Tokens
    <3>1. i \in 1 .. Len(conv)
      BY <1>2
    <3>2. conv[i] \in Tokens
      BY <1>1, <3>1
    <3>. QED
      BY <1>2, <3>2
  <2>. QED
    BY <1>5, <2>1, Predicted, SessionAssumption DEF IInv, Typed
<1>. QED
  BY <1>1, <1>2, <1>3, <1>4, <1>5, <1>6

LEMMA AcceptStep ==
    ASSUME IInv, Accept PROVE IInv'
<1>. DEFINE y == prop[a + 1]
<1>1. /\ pc = "accept" /\ a < Len(prop) /\ lo[a + 1] = y /\ Deliver(y)
      /\ \/ /\ EmitEnds(y) /\ pending' = y /\ pc' = "end" /\ UNCHANGED <<n_past, a>>
         \/ /\ EmitGoesOn(y) /\ pending' = None /\ n_past' = n_past + 1 /\ a' = a + 1
            /\ pc' = pc
      /\ UNCHANGED <<weights, chunk, abort, kv, call, done, t, prop, lo, rc, late>>
  BY DEF Accept
<1>2. /\ n_past \in 1 .. Ctx /\ Len(conv) = n_past /\ Whole /\ y \in Tokens
      /\ \A i \in 1 .. n_past : conv[i] = kv[i - 1]
  <2>1. Ahead = <<>> /\ Len(<<>>) = 0
    BY <1>1 DEF IInv, Chosen, Ahead, Waiting
  <2>. QED
    BY <1>1, <2>1, Expected DEF IInv, Told
<1>3. /\ Len(gen) < call.max /\ n_past + call.max - Len(gen) <= Ctx /\ call.max \in Nat
      /\ Len(prop) - a <= call.max - Len(gen) /\ Ctx \in Nat /\ a \in Nat
      /\ Len(prop) \in Nat /\ call.greedy /\ rc = "ok" /\ stop = "length"
      /\ conv \in Seq(Tokens) /\ pending = None
  BY <1>1, SessionAssumption DEF IInv, Typed, Roomy, Chosen, Reasons, InRun
<1>4. kv[n_past] = y
  <2>1. 1 \in 1 .. Len(prop) - a /\ n_past + 1 - 1 = n_past
    BY <1>1, <1>2, <1>3
  <2>. QED
    BY <1>1, <2>1 DEF IInv, Chosen
<1>. HIDE DEF y
<1>5. /\ gen' \in Seq(Tokens) /\ Len(gen') = Len(gen) + 1
      /\ conv' \in Seq(Tokens) /\ Len(conv') = n_past + 1
      /\ \A i \in 1 .. n_past : conv'[i] = kv[i - 1]
      /\ conv'[n_past + 1] = y
      /\ Len(gen) \in Nat
  <2>1. /\ gen' \in Seq(Tokens) /\ Len(gen') = Len(gen) + 1
        /\ conv' \in Seq(Tokens) /\ Len(conv') = Len(conv) + 1
        /\ \A i \in 1 .. Len(conv) : conv'[i] = conv[i]
        /\ conv'[Len(conv) + 1] = y /\ Len(gen) \in Nat
    BY <1>1, <1>2, Delivered
  <2>. QED
    BY <1>2, <2>1
<1>6. WithinContext' /\ Unfinished' /\ Fed' /\ LateOnce'
  BY <1>1, <1>2 DEF IInv, WithinContext, Unfinished, Whole, Fed, LateOnce
<1>7. CASE EmitEnds(y) /\ pending' = y /\ pc' = "end" /\ UNCHANGED <<n_past, a>>
  <2>1. Typed' /\ Roomy' /\ Chosen'
    BY <1>1, <1>2, <1>3, <1>5, <1>7, SMTT(60) DEF IInv, Typed, PCs, Roomy, Chosen
  <2>2. Told'
    <3>1. Ahead' = <<y>> /\ Len(<<y>>) = 1 /\ <<y>>[1] = y
      BY <1>2, <1>7, SessionAssumption DEF Ahead, Waiting
    <3>2. \A i \in 1 .. 1 : conv'[n_past + i] = <<y>>[i]
      BY <1>5, <3>1
    <3>. QED
      BY <1>1, <1>5, <1>7, <3>1, <3>2 DEF Told
  <2>3. Reasons'
    BY <1>1, <1>2, <1>3, <1>7, EndFits DEF Reasons, InRun
  <2>. QED
    BY <1>6, <2>1, <2>2, <2>3 DEF IInv
<1>8. CASE EmitGoesOn(y) /\ pending' = None /\ n_past' = n_past + 1 /\ a' = a + 1 /\ pc' = pc
  <2>1. /\ Len(gen) + 1 < call.max /\ stop' = stop
    BY <1>3, <1>5, <1>8 DEF EmitGoesOn, Spent
  <2>2. Typed' /\ Roomy'
    <3>1. n_past' \in 0 .. Ctx /\ a' \in 0 .. Len(prop)
      BY <1>1, <1>2, <1>3, <1>5, <1>8, <2>1
    <3>2. Typed'
      BY <1>1, <1>5, <1>8, <3>1 DEF IInv, Typed, PCs
    <3>3. Roomy'
      BY <1>1, <1>2, <1>3, <1>5, <1>8, <2>1, SMTT(60) DEF Roomy
    <3>. QED
      BY <3>2, <3>3
  <2>3. Told'
    <3>1. Ahead' = <<>> /\ Len(<<>>) = 0
      BY <1>1, <1>8 DEF Ahead, Waiting
    <3>2. ASSUME NEW i \in 1 .. n_past + 1 PROVE conv'[i] = kv[i - 1]
      <4>1. CASE i \in 1 .. n_past
        BY <1>5, <4>1
      <4>2. CASE i = n_past + 1
        <5>1. i - 1 = n_past
          BY <1>2, <4>2
        <5>. QED
          BY <1>4, <1>5, <4>2, <5>1
      <4>. QED
        BY <1>2, <4>1, <4>2
    <3>. QED
      BY <1>1, <1>2, <1>5, <1>8, <3>1, <3>2 DEF Told
  <2>4. Chosen'
    <3>1. ASSUME NEW i \in 1 .. Len(prop') - a'
          PROVE  kv'[n_past' + i - 1] = prop'[a' + i]
      <4>1. /\ i + 1 \in 1 .. Len(prop) - a /\ n_past' + i - 1 = n_past + (i + 1) - 1
            /\ a' + i = a + (i + 1)
        BY <1>1, <1>2, <1>3, <1>8
      <4>. QED
        BY <1>1, <4>1 DEF IInv, Chosen
    <3>2. ASSUME NEW i \in a' + 1 .. Len(prop') + 1
          PROVE  lo'[i] = LM(weights', Known(kv', n_past' - a' - 1 + i))
      <4>1. i \in a + 1 .. Len(prop) + 1 /\ n_past' - a' - 1 + i = n_past - a - 1 + i
        BY <1>1, <1>2, <1>3, <1>8
      <4>2. lo[i] = LM(weights, Known(kv, n_past - a - 1 + i))
        BY <1>1, <4>1 DEF IInv, Chosen
      <4>. QED
        BY <1>1, <4>1, <4>2
    <3>3. pc' = "accept" /\ pending' = None /\ call'.greedy
      BY <1>1, <1>3, <1>8
    <3>. QED
      BY <3>1, <3>2, <3>3 DEF Chosen
  <2>5. Reasons'
    BY <1>1, <1>3, <1>8, <2>1 DEF Reasons, InRun
  <2>. QED
    BY <1>6, <2>2, <2>3, <2>4, <2>5 DEF IInv
<1>. QED
  BY <1>1, <1>7, <1>8

LEMMA OwnTokenStep ==
    ASSUME IInv, OwnToken PROVE IInv'
<1>1. /\ pc = "accept" /\ t' = lo[a + 1] /\ pc' = "loop"
      /\ prop' = <<>> /\ a' = 0 /\ lo' = <<>>
      /\ UNCHANGED <<weights, chunk, abort, n_past, pending, kv, call, done,
                     gen, rc, stop, conv, late>>
  BY DEF OwnToken
<1>2. t' \in Tokens /\ t' # None /\ t' = LM(weights, conv) /\ Whole
  BY <1>1, Expected, SessionAssumption
<1>3. Typed' /\ Roomy'
  <2>1. <<>> \in Seq(Tokens) /\ Len(<<>>) = 0
    BY EmptySeq
  <2>2. Typed'
    BY <1>1, <1>2, <2>1 DEF IInv, Typed, PCs
  <2>3. Roomy'
    BY <1>1, <1>2 DEF IInv, Roomy
  <2>. QED
    BY <2>2, <2>3
<1>4. WithinContext' /\ Unfinished' /\ Told' /\ Fed' /\ LateOnce' /\ Reasons'
  BY <1>1, <1>2 DEF IInv, WithinContext, Unfinished, Whole, Told, Ahead, Waiting,
                    Fed, LateOnce, Reasons, InRun
<1>5. Chosen'
  BY <1>1, <1>2 DEF IInv, Chosen
<1>. QED
  BY <1>3, <1>4, <1>5 DEF IInv

LEMMA DecodeStep ==
    ASSUME IInv, Step PROVE IInv'
<1>1. /\ pc = "decode" /\ Forward(<<t>>, n_past) /\ t' \in Pick(kv', n_past)
      /\ n_past' = n_past + 1 /\ pending' = None /\ pc' = "loop"
      /\ late' = IF abort THEN late + 1 ELSE late
      /\ UNCHANGED <<weights, chunk, abort, call, done, gen, prop, a, lo, rc,
                     stop, conv>>
  BY DEF Step, Forward
<1>2. /\ Len(gen) < call.max /\ Len(gen) \in Nat /\ call.max \in Nat /\ n_past \in Nat
      /\ n_past + 1 + call.max - Len(gen) <= Ctx /\ Ctx \in Nat /\ late = 0
      /\ conv \in Seq(Tokens) /\ t \in Tokens /\ <<>> \in Seq(Tokens) /\ Len(<<>>) = 0
  BY <1>1, SessionAssumption, EmptySeq DEF IInv, Typed, Roomy, LateOnce, Chosen
<1>3. Forward(<<t>> \o <<>>, n_past)
  <2>1. <<t>> \in Seq(Tokens)
    BY <1>2
  <2>2. <<t>> \o <<>> = <<t>>
    BY <2>1, ConcatEmptySeq
  <2>. QED
    BY <1>1, <2>2
<1>4. /\ kv' \in [Positions -> Tokens \cup {None}] /\ WithinContext'
      /\ Len(conv) = n_past + 1 /\ Whole
      /\ \A i \in 1 .. n_past + 1 : conv[i] = kv'[i - 1]
  <2>. DEFINE none == <<>>
  <2>1. /\ none \in Seq(Tokens) /\ Len(none) <= call.max - Len(gen)
        /\ Forward(<<t>> \o none, n_past)
    BY <1>2, <1>3
  <2>. HIDE DEF none
  <2>. QED
    BY <1>1, <2>1, PendingFed
<1>5. Known(kv', n_past + 1) = conv
  BY <1>2, <1>4, KnownIs
<1>6. LM(weights, Known(kv', n_past + 1)) \in Tokens
  <2>1. n_past + 1 \in 1 .. Ctx
    BY <1>2
  <2>2. ASSUME NEW i \in 1 .. n_past + 1 PROVE kv'[i - 1] \in Tokens
    <3>1. i \in 1 .. Len(conv)
      BY <1>4
    <3>2. conv[i] \in Tokens
      BY <1>2, <3>1
    <3>. QED
      BY <1>4, <3>2
  <2>. QED
    BY <2>1, <2>2, Predicted, SessionAssumption DEF IInv, Typed
<1>7. t' \in Tokens /\ t' # None /\ (call.greedy => t' = LM(weights, conv))
  BY <1>1, <1>5, <1>6, SessionAssumption DEF Pick
<1>8. Typed'
  <2>1. n_past' \in 0 .. Ctx
    BY <1>1, <1>2
  <2>. QED
    BY <1>1, <1>4, <1>7, <2>1 DEF IInv, Typed, PCs
<1>9. Roomy'
  BY <1>1, <1>2 DEF Roomy
<1>10. Told'
  <2>1. Ahead' = <<>>
    BY <1>1 DEF Ahead, Waiting
  <2>. QED
    BY <1>1, <1>2, <1>4, <2>1 DEF Told
<1>11. Unfinished' /\ Fed' /\ LateOnce' /\ Reasons'
  BY <1>1, <1>2, <1>4
     DEF IInv, Unfinished, Whole, Fed, LateOnce, Reasons, InRun
<1>12. Chosen'
  BY <1>1, <1>7 DEF Chosen
<1>. QED
  BY <1>4, <1>8, <1>9, <1>10, <1>11, <1>12 DEF IInv

LEMMA LoopEndsStep ==
    ASSUME IInv, LoopEnds PROVE IInv'
<1>1. /\ pc = "loop" /\ pc' = "end"
      /\ t = None \/ call.max = 0 \/ abort
      /\ UNCHANGED <<weights, chunk, abort, n_past, pending, kv, call, done, t,
                     gen, prop, a, lo, rc, stop, conv, late>>
  BY DEF LoopEnds
<1>2. Typed' /\ Roomy' /\ WithinContext' /\ Fed' /\ Chosen' /\ LateOnce'
  BY <1>1 DEF IInv, Typed, PCs, Roomy, WithinContext, Fed, Chosen, LateOnce
<1>3. Unfinished' /\ Told'
  BY <1>1 DEF IInv, Unfinished, Whole, Told, Ahead, Waiting
<1>4. Reasons'
  <2>1. ~abort => Len(gen) = call.max
    BY <1>1 DEF IInv, Typed, Roomy, Chosen
  <2>. QED
    BY <1>1, <2>1 DEF IInv, Reasons, InRun, Fits
<1>. QED
  BY <1>2, <1>3, <1>4 DEF IInv

LEMMA FailStep ==
    ASSUME IInv, Fail PROVE IInv'
<1>1. /\ pc \in InRun /\ rc' = "failed" /\ pc' = "end"
      /\ UNCHANGED <<weights, chunk, abort, n_past, pending, kv, call, done, t,
                     gen, prop, a, lo, stop, conv, late>>
  BY DEF Fail, InRun
<1>2. Typed' /\ Roomy' /\ WithinContext' /\ Fed' /\ Chosen' /\ LateOnce'
  BY <1>1 DEF IInv, Typed, PCs, Roomy, WithinContext, Fed, Chosen, LateOnce
<1>3. Unfinished'
  BY <1>1 DEF IInv, Unfinished, Whole
<1>4. Told'
  <2>1. CASE pc = "prefill"
    <3>1. ~Whole'
      BY <1>1, <2>1 DEF IInv, Typed, Roomy, Whole
    <3>. QED
      BY <3>1 DEF Told
  <2>2. CASE pc # "prefill"
    BY <1>1, <2>2 DEF IInv, Told, Whole, Ahead, Waiting, InRun
  <2>. QED
    BY <2>1, <2>2
<1>5. Reasons'
  BY <1>1 DEF IInv, Reasons, InRun, Fits
<1>. QED
  BY <1>2, <1>3, <1>4, <1>5 DEF IInv

LEMMA ReturnStep ==
    ASSUME IInv, Return PROVE IInv'
<1>1. /\ pc = "end" /\ pc' = "idle" /\ rc' = Outcome
      /\ stop' = IF Outcome = "aborted" THEN "abort" ELSE stop
      /\ call' = [call EXCEPT !.draft = <<>>, !.pr = <<>>]
      /\ done' = 0 /\ t' = None /\ prop' = <<>> /\ a' = 0 /\ lo' = <<>> /\ late' = 0
      /\ UNCHANGED <<weights, chunk, abort, kv, gen>>
  BY DEF Return, LocalsGone
<1>2. IF Outcome = "ok" THEN UNCHANGED <<n_past, pending, conv>>
      ELSE n_past' = 0 /\ pending' = None /\ conv' = <<>>
  BY DEF Return
<1>3. <<>> \in Seq(Tokens) /\ Len(<<>>) = 0
  BY EmptySeq
<1>4. /\ call' \in [max : 0 .. MaxNew, greedy : BOOLEAN, draft : Seq(Tokens), pr : Seq(Tokens)]
      /\ call'.max = call.max /\ call'.pr = <<>>
  BY <1>1, <1>3 DEF IInv, Typed
<1>5. n_past' \in 0 .. Ctx /\ pending' \in Tokens \cup {None} /\ conv' \in Seq(Tokens)
  <2>1. CASE Outcome = "ok"
    <3>1. UNCHANGED <<n_past, pending, conv>>
      BY <1>2, <2>1
    <3>. QED
      BY <3>1 DEF IInv, Typed
  <2>2. CASE Outcome # "ok"
    <3>1. n_past' = 0 /\ pending' = None /\ conv' = <<>>
      BY <1>2, <2>2
    <3>. QED
      BY <1>3, <3>1, SessionAssumption
  <2>. QED
    BY <2>1, <2>2
<1>6. Typed'
  <2>1. done' \in 0 .. Len(call'.pr) /\ a' \in 0 .. Len(prop') /\ prop' \in Seq(Tokens)
    BY <1>1, <1>3, <1>4
  <2>. QED
    BY <1>1, <1>4, <1>5, <2>1 DEF IInv, Typed, PCs
<1>7. Roomy' /\ WithinContext' /\ Unfinished' /\ Fed' /\ Chosen' /\ LateOnce'
  BY <1>1, <1>4 DEF IInv, Roomy, WithinContext, Unfinished, Whole, Fed, Chosen, LateOnce
<1>8. Told'
  <2>1. CASE Outcome = "ok"
    <3>1. rc = "ok" /\ ~abort
      BY <1>1, <2>1 DEF IInv, Reasons, Outcome
    <3>2. Whole /\ UNCHANGED <<n_past, pending, conv>>
      BY <1>2, <2>1, <3>1 DEF IInv, Unfinished
    <3>. QED
      BY <1>1, <3>2 DEF IInv, Told, Ahead, Waiting
  <2>2. CASE Outcome # "ok"
    <3>1. n_past' = 0 /\ pending' = None /\ conv' = <<>>
      BY <1>2, <2>2
    <3>. QED
      BY <1>1, <1>3, <3>1 DEF Told, Ahead, Waiting
  <2>. QED
    BY <2>1, <2>2
<1>9. Reasons'
  <2>1. CASE Outcome = "ok"
    <3>1. rc = "ok" /\ ~abort /\ stop' = stop
      BY <1>1, <2>1 DEF IInv, Reasons, Outcome
    <3>. QED
      BY <1>1, <1>4, <2>1, <3>1 DEF IInv, Reasons, InRun, Fits
  <2>2. CASE Outcome # "ok"
    BY <1>1, <2>2 DEF IInv, Reasons, InRun, Outcome
  <2>. QED
    BY <2>1, <2>2
<1>. QED
  BY <1>6, <1>7, <1>8, <1>9 DEF IInv

\* What other threads and the caller do between two steps of a call.
LEMMA AroundStep ==
    ASSUME IInv, Abort \/ AbortClear \/ Reset \/ Refused \/ UNCHANGED vars PROVE IInv'
<1>1. CASE Abort
  <2>1. /\ abort' = TRUE
        /\ UNCHANGED <<pc, weights, chunk, n_past, pending, kv, call, done, t, gen,
                       prop, a, lo, rc, stop, conv, late>>
    BY <1>1 DEF Abort
  <2>. QED
    BY <2>1 DEF IInv, Typed, PCs, Roomy, WithinContext, Unfinished, Whole, Told, Ahead,
                Waiting, Fed, Chosen, LateOnce, Reasons, InRun, Fits
<1>2. CASE AbortClear
  <2>1. /\ pc = "idle" /\ abort' = FALSE
        /\ UNCHANGED <<pc, weights, chunk, n_past, pending, kv, call, done, t, gen,
                       prop, a, lo, rc, stop, conv, late>>
    BY <1>2 DEF AbortClear
  <2>. QED
    BY <2>1 DEF IInv, Typed, PCs, Roomy, WithinContext, Unfinished, Whole, Told, Ahead,
                Waiting, Fed, Chosen, LateOnce, Reasons, InRun, Fits
<1>3. CASE Reset
  <2>1. /\ pc = "idle" /\ n_past' = 0 /\ pending' = None /\ abort' = FALSE /\ conv' = <<>>
        /\ UNCHANGED <<pc, weights, chunk, kv, call, done, t, gen, prop, a, lo, rc,
                       stop, late>>
    BY <1>3 DEF Reset
  <2>2. <<>> \in Seq(Tokens) /\ Len(<<>>) = 0 /\ 0 \in 0 .. Ctx
    BY EmptySeq, SessionAssumption
  <2>3. Typed'
    BY <2>1, <2>2 DEF IInv, Typed, PCs
  <2>4. Told'
    BY <2>1, <2>2 DEF Told, Ahead, Waiting
  <2>. QED
    BY <2>1, <2>3, <2>4 DEF IInv, Roomy, WithinContext, Unfinished, Whole, Fed, Chosen,
                            LateOnce, Reasons, InRun, Fits
<1>4. CASE Refused
  <2>1. /\ pc = "idle" /\ rc' = "aborted" /\ stop' = "abort"
        /\ UNCHANGED <<pc, weights, chunk, abort, n_past, pending, kv, call, done,
                       t, gen, prop, a, lo, conv, late>>
    BY <1>4 DEF Refused
  <2>. QED
    BY <2>1 DEF IInv, Typed, PCs, Roomy, WithinContext, Unfinished, Whole, Told, Ahead,
                Waiting, Fed, Chosen, LateOnce, Reasons, InRun, Fits
<1>5. CASE UNCHANGED vars
  BY <1>5 DEF vars, IInv, Typed, PCs, Roomy, WithinContext, Unfinished, Whole, Told,
              Ahead, Waiting, Fed, Chosen, LateOnce, Reasons, InRun, Fits
<1>. QED
  BY <1>1, <1>2, <1>3, <1>4, <1>5

LEMMA NextIInv == IInv /\ [Next]_vars => IInv'
<1>. SUFFICES ASSUME IInv, [Next]_vars PROVE IInv'
  OBVIOUS
<1>. USE GenerateStep, PrefillStep, LoopEndsStep, EmitStep, VerifyStep, AcceptStep,
         OwnTokenStep, DecodeStep, ReturnStep, FailStep, AroundStep
<1>1. ASSUME NEW ids \in Prompts, NEW max \in 0 .. MaxNew, NEW s \in Samplings,
             Generate(ids, max, s)
      PROVE  IInv'
  BY <1>1
<1>2. CASE CallStep
  BY <1>2 DEF CallStep
<1>3. CASE Fail \/ Abort \/ AbortClear \/ Reset \/ Refused \/ UNCHANGED vars
  BY <1>3
<1>. QED
  BY <1>1, <1>2, <1>3 DEF Next

LEMMA AlwaysIInv == Spec => []IInv
  BY InitIInv, NextIInv, PTL DEF Spec

-----------------------------------------------------------------------------
(***************************************************************************)
(* What follows.                                                           *)
(***************************************************************************)
LEMMA ToldIsInKv == ASSUME IInv PROVE InKv
<1>. SUFFICES ASSUME pc = "idle" \/ (pc # "prefill" /\ done = Len(call.pr))
              PROVE  conv = Known(kv, n_past) \o Waiting
  BY Zenon DEF InKv, Waiting
<1>1. /\ Whole /\ Ahead = Waiting /\ n_past \in Nat /\ conv \in Seq(Tokens)
      /\ Waiting \in Seq(Tokens) /\ Len(Waiting) \in Nat
  <2>1. Waiting \in Seq(Tokens) /\ Len(Waiting) \in Nat
    BY EmptySeq DEF IInv, Typed, Waiting
  <2>. QED
    BY <2>1, SessionAssumption DEF IInv, Typed, Whole, Ahead
<1>2. /\ Len(conv) = n_past + Len(Waiting)
      /\ \A i \in 1 .. n_past : conv[i] = kv[i - 1]
      /\ \A i \in 1 .. Len(Waiting) : conv[n_past + i] = Waiting[i]
  BY <1>1 DEF IInv, Told
<1>. DEFINE fed == SubSeq(conv, 1, n_past)
<1>3. fed \in Seq(Tokens) /\ Len(fed) = n_past /\ \A i \in 1 .. n_past : fed[i] = conv[i]
  <2>1. \A i \in 1 .. n_past : i \in 1 .. Len(conv)
    BY <1>1, <1>2
  <2>2. \A i \in 1 .. n_past : conv[i] \in Tokens
    BY <1>1, <2>1
  <2>3. /\ fed \in Seq(Tokens)
        /\ Len(fed) = IF 1 <= n_past THEN n_past - 1 + 1 ELSE 0
        /\ \A i \in 1 .. n_past - 1 + 1 : fed[i] = conv[1 + i - 1]
    <3>1. 1 \in Int /\ n_past \in Int
      BY <1>1
    <3>. QED
      BY <2>2, <3>1, SubSeqProperties
  <2>4. n_past - 1 + 1 = n_past /\ (1 > n_past => n_past = 0)
    BY <1>1
  <2>5. \A i \in 1 .. n_past : 1 + i - 1 = i
    BY <1>1
  <2>. QED
    BY <2>3, <2>4, <2>5
<1>. HIDE DEF fed
<1>4. Known(kv, n_past) = fed
  BY <1>1, <1>2, <1>3, KnownIs
<1>. DEFINE all == fed \o Waiting
<1>5. /\ all \in Seq(Tokens) /\ Len(all) = n_past + Len(Waiting)
      /\ \A i \in 1 .. n_past : all[i] = fed[i]
      /\ \A i \in 1 .. Len(Waiting) : all[n_past + i] = Waiting[i]
  <2>1. /\ all \in Seq(Tokens) /\ Len(all) = Len(fed) + Len(Waiting)
        /\ \A i \in 1 .. Len(fed) : all[i] = fed[i]
        /\ \A i \in 1 .. Len(Waiting) : all[Len(fed) + i] = Waiting[i]
    <3>1. fed \in Seq(Tokens) /\ Waiting \in Seq(Tokens)
      BY <1>1, <1>3
    <3>. QED
      BY <3>1, ConcatProperties
  <2>. HIDE DEF all
  <2>. QED
    BY <1>3, <2>1
<1>. HIDE DEF all
<1>6. ASSUME NEW i \in 1 .. Len(conv) PROVE conv[i] = all[i]
  <2>1. CASE i <= n_past
    <3>1. i \in 1 .. n_past
      BY <1>1, <2>1
    <3>. QED
      BY <1>3, <1>5, <3>1
  <2>2. CASE i > n_past
    <3>1. i - n_past \in 1 .. Len(Waiting) /\ n_past + (i - n_past) = i
      BY <1>1, <1>2, <2>2
    <3>. QED
      BY <1>2, <1>5, <3>1
  <2>. QED
    BY <1>1, <2>1, <2>2
<1>7. conv = all
  BY <1>1, <1>2, <1>5, <1>6, SeqEqual
<1>. QED
  BY <1>4, <1>7 DEF all

\* "Consecutive calls continue one conversation": between two calls, and in a
\* call once its prompt is in, the KV cache holds exactly the conversation the
\* caller has seen, up to the token that is pending, whatever was proposed,
\* rejected, stopped, aborted or failed before.
THEOREM CacheIsConversation == Spec => []InKv
<1>1. IInv => InKv
  BY ToldIsInKv
<1>. QED
  BY <1>1, AlwaysIInv, PTL

\* moty_abort stops the running call within one decode step or prefill chunk:
\* no second forward begins after the flag was raised.
THEOREM AbortsPromptly == Spec => []AbortPrompt
<1>1. IInv => AbortPrompt
  BY DEF IInv, LateOnce, AbortPrompt
<1>. QED
  BY <1>1, AlwaysIInv, PTL

\* No row past the context is written, proposals included, no call produces
\* more than it was asked for, and stats.stop is the reason of the end.
THEOREM HandleConsistent == Spec => []Consistent
<1>1. ASSUME IInv PROVE Consistent
  <2>1. call.max \in 0 .. MaxNew /\ call.greedy \in BOOLEAN
    BY <1>1 DEF IInv, Typed
  <2>2. TypeOK
    BY <1>1, <2>1 DEF IInv, Typed, PCs, Roomy, Reasons, TypeOK
  <2>3. StopTells
    BY <1>1 DEF IInv, Reasons, Fits, StopTells
  <2>. QED
    BY <1>1, <2>2, <2>3 DEF IInv, Consistent
<1>. QED
  BY <1>1, AlwaysIInv, PTL

-----------------------------------------------------------------------------
(***************************************************************************)
(* The refinement.                                                         *)
(***************************************************************************)
LEMMA TalkStep == ASSUME IInv, [Next]_vars PROVE [Talk!Next]_(Talk!vars)
<1>. DEFINE Same == UNCHANGED <<weights, conv, Busy, call.greedy>>
<1>1. Same => UNCHANGED Talk!vars
  BY DEF Talk!vars
<1>2. ASSUME NEW ids \in Prompts, NEW max \in 0 .. MaxNew, NEW s \in Samplings,
             Generate(ids, max, s)
      PROVE  Talk!Begin
  <2>1. /\ pc = "idle" /\ pc' = "prefill" /\ conv' = conv \o ids /\ weights' = weights
        /\ call'.greedy = s.greedy
    BY <1>2 DEF Generate
  <2>2. s.greedy \in BOOLEAN
    BY SessionAssumption
  <2>. QED
    BY <2>1, <2>2 DEF Talk!Begin, Busy
<1>3. CASE Emit
  <2>1. /\ pc = "loop" /\ t # None /\ pc' # "idle" /\ conv' = Append(conv, t)
        /\ weights' = weights /\ call' = call
    BY <1>3 DEF Emit, Deliver
  <2>2. t \in IF call.greedy THEN {LM(weights, conv)} ELSE Tokens
    BY <2>1 DEF IInv, Typed, Chosen
  <2>3. Busy /\ UNCHANGED <<weights, Busy, call.greedy>>
    BY <2>1 DEF Busy
  <2>. QED
    BY <2>1, <2>2, <2>3 DEF Talk!Produce, Talk!Next
<1>4. CASE Accept
  <2>1. /\ pc = "accept" /\ a < Len(prop) /\ lo[a + 1] = prop[a + 1] /\ pc' # "idle"
        /\ conv' = Append(conv, prop[a + 1]) /\ weights' = weights /\ call' = call
    BY <1>4 DEF Accept, Deliver
  <2>2. prop[a + 1] \in IF call.greedy THEN {LM(weights, conv)} ELSE Tokens
    BY <2>1, Expected DEF IInv, Chosen
  <2>3. Busy /\ UNCHANGED <<weights, Busy, call.greedy>>
    BY <2>1 DEF Busy
  <2>. QED
    BY <2>1, <2>2, <2>3 DEF Talk!Produce, Talk!Next
<1>5. CASE Return
  <2>1. pc = "end" /\ pc' = "idle" /\ weights' = weights /\ call'.greedy = call.greedy
    BY <1>5 DEF Return, LocalsGone, IInv, Typed
  <2>2. CASE Outcome = "ok"
    <3>1. conv' = conv
      BY <1>5, <2>2 DEF Return
    <3>. QED
      BY <2>1, <3>1 DEF Talk!End, Talk!Next, Busy
  <2>3. CASE Outcome # "ok"
    <3>1. conv' = <<>>
      BY <1>5, <2>3 DEF Return
    <3>. QED
      BY <2>1, <3>1 DEF Talk!Forget, Talk!Next, Busy
  <2>. QED
    BY <2>2, <2>3
<1>6. CASE Reset
  <2>1. /\ weights' = weights /\ conv' = <<>> /\ call' = call
        /\ pc = "idle" /\ pc' = "idle"
    BY <1>6 DEF Reset
  <2>. QED
    BY <2>1 DEF Talk!Forget, Talk!Next, Busy
<1>7. CASE PrefillChunk
  <2>1. weights' = weights /\ conv' = conv /\ call' = call /\ pc # "idle" /\ pc' # "idle"
    BY <1>7 DEF PrefillChunk
  <2>. QED
    BY <1>1, <2>1 DEF Busy
<1>8. CASE LoopEnds \/ Verify \/ OwnToken \/ Step \/ Fail
  <2>1. weights' = weights /\ conv' = conv /\ call' = call /\ pc # "idle" /\ pc' # "idle"
    BY <1>8 DEF LoopEnds, Verify, OwnToken, Step, Fail
  <2>. QED
    BY <1>1, <2>1 DEF Busy
<1>9. CASE Abort \/ AbortClear \/ Refused \/ UNCHANGED vars
  <2>1. weights' = weights /\ conv' = conv /\ call' = call /\ pc' = pc
    BY <1>9 DEF Abort, AbortClear, Refused, vars
  <2>. QED
    BY <1>1, <2>1 DEF Busy
<1>10. CASE CallStep
  BY <1>3, <1>4, <1>5, <1>7, <1>8, <1>10 DEF CallStep, Talk!Next
<1>11. CASE Next
  BY <1>2, <1>6, <1>8, <1>9, <1>10, <1>11 DEF Next, Talk!Next
<1>. QED
  BY <1>9, <1>11

\* What moty.h says of a handle: every call appends its prompt and then tokens
\* that continue all that was said, the model's own when the call is greedy,
\* and a call that fails or is aborted leaves no conversation.  Chunked
\* prefill, lookahead verification and the pending token implement it.
THEOREM SessionImplementsConversation == Spec => Conversing
<1>1. Init => Talk!Init
  BY DEF Init, NoCall, Busy, Talk!Init
<1>2. IInv /\ [Next]_vars => [Talk!Next]_(Talk!vars)
  BY TalkStep
<1>. QED
  BY <1>1, <1>2, AlwaysIInv, PTL DEF Spec, Conversing, Talk!Spec
=============================================================================
