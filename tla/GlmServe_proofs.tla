--------------------------- MODULE GlmServe_proofs ---------------------------
(* Proofs about GlmServe: the requests of SERVE_BATCH, for any slots,        *)
(* clients, prompts, context and model, and the conversation file of SERVE,  *)
(* for any vocabulary and length.                                            *)
EXTENDS GlmServe, SequenceTheorems, WellFoundedInduction, TLAPS

-----------------------------------------------------------------------------
(* Sequences and their prefixes.                                             *)

Less == {ss \in Nat \X Nat : ss[1] < ss[2]}

LEMMA LeastOf ==
    ASSUME NEW S \in SUBSET Nat, S # {}
    PROVE  \E x \in S : \A y \in S : x <= y
<1>1. OpToRel(<, Nat) = Less
  BY Zenon DEF OpToRel, Less
<1>2. IsWellFoundedOn(Less, Nat)
  BY NatLessThanWellFounded, <1>1, Zenon
<1>3. PICK x \in S : \A y \in S : ~(<<y, x>> \in Less)
  BY <1>2, WFMin
<1>4. ASSUME NEW y \in S PROVE x <= y
  <2>1. x \in Nat /\ y \in Nat
    OBVIOUS
  <2>2. ~(y < x)
    BY <1>3, <2>1 DEF Less
  <2>. QED
    BY <2>1, <2>2
<1>. QED
  BY <1>4

LEMMA HeadOf ==
    ASSUME NEW V, NEW x \in Seq(V), NEW n \in 0..Len(x)
    PROVE  /\ SubSeq(x, 1, n) \in Seq(V) /\ Len(SubSeq(x, 1, n)) = n
           /\ \A i \in 1..n : SubSeq(x, 1, n)[i] = x[i]
<1>. DEFINE m == 1
            y == SubSeq(x, m, n)
<1>1. m \in Int /\ n \in Int /\ \A i \in m..n : x[i] \in V
  OBVIOUS
<1>. HIDE DEF m, y
<1>2. /\ y \in Seq(V)
      /\ Len(y) = IF m <= n THEN n - m + 1 ELSE 0
      /\ \A i \in 1..n - m + 1 : y[i] = x[m + i - 1]
  BY <1>1, SubSeqProperties DEF y
<1>3. Len(y) = n
  BY <1>2 DEF m
<1>4. \A i \in 1..n : y[i] = x[i]
  <2>1. ASSUME NEW i \in 1..n PROVE y[i] = x[i]
    <3>1. i \in 1..n - m + 1 /\ m + i - 1 = i
      BY DEF m
    <3>. QED
      BY <1>2, <3>1
  <2>. QED
    BY <2>1
<1>. QED
  BY <1>2, <1>3, <1>4 DEF y, m

LEMMA TailOf ==
    ASSUME NEW V, NEW x \in Seq(V), NEW n \in 0..Len(x)
    PROVE  /\ SubSeq(x, n + 1, Len(x)) \in Seq(V)
           /\ Len(SubSeq(x, n + 1, Len(x))) = Len(x) - n
           /\ \A i \in 1..Len(x) - n : SubSeq(x, n + 1, Len(x))[i] = x[n + i]
<1>. DEFINE m == n + 1
            l == Len(x)
            y == SubSeq(x, m, l)
<1>1. m \in Int /\ l \in Nat /\ n \in 0..l /\ \A i \in m..l : x[i] \in V
  OBVIOUS
<1>. HIDE DEF m, l, y
<1>2. /\ y \in Seq(V)
      /\ Len(y) = IF m <= l THEN l - m + 1 ELSE 0
      /\ \A i \in 1..l - m + 1 : y[i] = x[m + i - 1]
  BY <1>1, SubSeqProperties DEF y
<1>3. Len(y) = l - n
  BY <1>1, <1>2 DEF m
<1>4. \A i \in 1..l - n : y[i] = x[n + i]
  <2>1. ASSUME NEW i \in 1..l - n PROVE y[i] = x[n + i]
    <3>1. i \in 1..l - m + 1 /\ m + i - 1 = n + i
      BY <1>1 DEF m
    <3>. QED
      BY <1>2, <3>1
  <2>. QED
    BY <2>1
<1>. QED
  BY <1>2, <1>3, <1>4 DEF y, m, l

\* x begins y.
Begins(x, y) == Len(x) <= Len(y) /\ \A i \in 1..Len(x) : x[i] = y[i]

\* A head and the tail after it.
LEMMA HeadAndTail ==
    ASSUME NEW V, NEW x \in Seq(V), NEW y \in Seq(V), Begins(x, y)
    PROVE  x \o SubSeq(y, Len(x) + 1, Len(y)) = y
<1>. DEFINE n == Len(x)
            z == SubSeq(y, n + 1, Len(y))
            w == x \o z
<1>1. n \in 0..Len(y) /\ Len(y) \in Nat /\ \A i \in 1..n : x[i] = y[i]
  BY DEF Begins
<1>2. z \in Seq(V) /\ Len(z) = Len(y) - n /\ \A i \in 1..Len(y) - n : z[i] = y[n + i]
  <2>. HIDE DEF n
  <2>. QED
    BY <1>1, TailOf
<1>. HIDE DEF z
<1>3. /\ w \in Seq(V) /\ Len(w) = Len(x) + Len(z)
      /\ \A i \in 1..Len(x) : w[i] = x[i]
      /\ \A i \in 1..Len(z) : w[Len(x) + i] = z[i]
  BY <1>2, ConcatProperties
<1>4. n = Len(x)
  OBVIOUS
<1>. HIDE DEF n, w
<1>5. Len(w) = Len(y)
  BY <1>1, <1>2, <1>3, <1>4
<1>6. ASSUME NEW i \in 1..Len(y) PROVE w[i] = y[i]
  <2>1. CASE i <= n
    BY <1>1, <1>3, <1>4, <2>1
  <2>2. CASE i > n
    <3>1. i - n \in 1..Len(y) - n /\ n + (i - n) = i
      BY <1>1, <2>2
    <3>. QED
      BY <1>2, <1>3, <1>4, <3>1
  <2>. QED
    BY <1>1, <2>1, <2>2
<1>7. w = y
  BY <1>3, <1>5, <1>6, SeqEqual
<1>. QED
  BY <1>7 DEF w, z, n

\* Two sequences agree up to n, where m is reached or they part.
Parts(x, y, m, n) == /\ \A i \in 1..n : x[i] = y[i]
                     /\ n < m => x[n + 1] # y[n + 1]

LEMMA Parting ==
    ASSUME NEW x, NEW y, NEW m \in Nat
    PROVE  \E n \in 0..m : Parts(x, y, m, n)
<1>. DEFINE S == {k \in 0..m : k = m \/ x[k + 1] # y[k + 1]}
<1>1. S \in SUBSET Nat /\ m \in S
  OBVIOUS
<1>2. PICK n \in S : \A k \in S : n <= k
  <2>. HIDE DEF S
  <2>. QED
    BY <1>1, LeastOf
<1>3. ASSUME NEW i \in 1..n PROVE x[i] = y[i]
  <2>1. i - 1 \in 0..m /\ i - 1 < n /\ (i - 1) + 1 = i
    OBVIOUS
  <2>2. ~(i - 1 \in S)
    BY <1>2, <2>1
  <2>. QED
    BY <2>1, <2>2
<1>4. Parts(x, y, m, n)
  BY <1>3 DEF Parts
<1>. QED
  BY <1>4

-----------------------------------------------------------------------------
(* The slots of SERVE_BATCH.                                                 *)

Requests == [active : BOOLEAN, id : Ids \cup {0}, emitted : 0..MaxCtx, maximum : 0..MaxCtx]

\* One slot: its tokens h, its rows r, its file d, its request q, and n, where
\* the answer begins.
SlotTypes(h, r, d, q, n) ==
  /\ h \in Seq(Vocabulary) /\ r \in Seq(Vocabulary) /\ d \in Seq(Vocabulary)
  /\ q \in Requests /\ n \in Nat

Answered(h, n) == \A i \in n + 1..Len(h) : h[i] = Best(SubSeq(h, 1, i - 1))

\* A request has one token pending, and room for all that it may still get.
InFlight(h, r, d, q) ==
  /\ Len(h) = Len(r) + 1 /\ Begins(d, r)
  /\ 0 < q.emitted /\ q.emitted < q.maximum
  /\ Len(r) + q.maximum - q.emitted < MaxCtx

SlotInv(h, r, d, q, n) ==
  /\ SlotTypes(h, r, d, q, n) /\ Begins(r, h) /\ Answered(h, n) /\ Len(h) <= MaxCtx
  /\ q.active => InFlight(h, r, d, q)
  /\ ~q.active => d = r

MuxTypes ==
  /\ pc \in {"intr", "stdin", "decode", "exit"}
  /\ bound \in Slots /\ sent \in 0..Frames
  /\ hist \in [Slots -> Seq(Vocabulary)] /\ rows \in [Slots -> Seq(Vocabulary)]
  /\ saved \in [Slots -> Seq(Vocabulary)]
  /\ req \in [Slots -> Requests] /\ answer \in [Slots -> Nat]

MuxInv ==
  /\ MuxTypes
  /\ \A s \in Slots : SlotInv(hist[s], rows[s], saved[s], req[s], answer[s])
  /\ Mux!OneById /\ Mux!NoneLeft

LEMMA MinIs ==
    ASSUME NEW x \in Int, NEW y \in Int
    PROVE  Mux!MinOf(x, y) \in {x, y} /\ Mux!MinOf(x, y) <= x /\ Mux!MinOf(x, y) <= y
  BY DEF Mux!MinOf

LEMMA AppendedIs ==
    ASSUME NEW d \in Seq(Vocabulary), NEW r \in Seq(Vocabulary), Begins(d, r)
    PROVE  Mux!Appended(d, r) = r
  BY HeadAndTail DEF Mux!Appended

LEMMA BeginsItself == ASSUME NEW r \in Seq(Vocabulary) PROVE Begins(r, r)
  BY DEF Begins

\* The end of a request, finished, cancelled or stopped: the file has it all.
LEMMA SlotEnds ==
    ASSUME NEW h, NEW r, NEW d, NEW q, NEW n, SlotInv(h, r, d, q, n), q.active
    PROVE  /\ SlotInv(h, r, Mux!Appended(d, r), Mux!Ended(q), n)
           /\ SlotInv(h, r, Mux!Appended(d, r), [q EXCEPT !.active = FALSE], n)
<1>1. Mux!Appended(d, r) = r
  BY AppendedIs DEF SlotInv, SlotTypes, InFlight
<1>2. /\ Mux!Ended(q) = [q EXCEPT !.active = FALSE] /\ Mux!Ended(q) \in Requests
      /\ ~Mux!Ended(q).active
  BY DEF SlotInv, SlotTypes, Mux!Ended, Requests
<1>. HIDE DEF Mux!Ended
<1>. QED
  BY <1>1, <1>2 DEF SlotInv, SlotTypes

\* What a slot keeps is what the prompt shares with it.
LEMMA ReusedIs ==
    ASSUME NEW s \in Slots, NEW c \in Seq(Vocabulary), hist[s] \in Seq(Vocabulary),
           rows[s] \in Seq(Vocabulary), Begins(rows[s], hist[s])
    PROVE  /\ Mux!Reused(s, c) \in 0..Len(c) /\ Mux!Reused(s, c) <= Len(rows[s])
           /\ \A i \in 1..Mux!Reused(s, c) : rows[s][i] = c[i]
<1>. DEFINE m == Mux!MinOf(Len(c), Len(rows[s]))
            Is(n) == /\ SubSeq(c, 1, n) = SubSeq(hist[s], 1, n)
                     /\ n < m => c[n + 1] # hist[s][n + 1]
<1>1. m \in Nat /\ m <= Len(c) /\ m <= Len(rows[s]) /\ Len(rows[s]) <= Len(hist[s])
  BY MinIs DEF Begins
<1>2. Mux!Reused(s, c) = CHOOSE n \in 0..m : Is(n)
  BY DEF Mux!Reused
<1>. HIDE DEF m
<1>3. \E n \in 0..m : Is(n)
  <2>1. PICK n \in 0..m : Parts(c, hist[s], m, n)
    BY <1>1, Parting
  <2>2. n \in 0..Len(c) /\ n \in 0..Len(hist[s])
    BY <1>1
  <2>. DEFINE x == SubSeq(c, 1, n)
              y == SubSeq(hist[s], 1, n)
  <2>3. /\ x \in Seq(Vocabulary) /\ Len(x) = n /\ \A i \in 1..n : x[i] = c[i]
        /\ y \in Seq(Vocabulary) /\ Len(y) = n /\ \A i \in 1..n : y[i] = hist[s][i]
    BY <2>2, HeadOf
  <2>. HIDE DEF x, y
  <2>4. x = y
    <3>1. ASSUME NEW i \in 1..n PROVE x[i] = y[i]
      BY <2>1, <2>3 DEF Parts
    <3>. QED
      BY <2>3, <3>1, SeqEqual
  <2>5. n < m => c[n + 1] # hist[s][n + 1]
    BY <2>1 DEF Parts
  <2>. QED
    BY <2>4, <2>5 DEF x, y
<1>. DEFINE n == Mux!Reused(s, c)
<1>. HIDE DEF Is
<1>4. n \in 0..m /\ Is(n)
  BY <1>2, <1>3
<1>. HIDE DEF n
<1>5. n \in 0..Len(c) /\ n \in 0..Len(hist[s]) /\ n <= Len(rows[s])
  BY <1>1, <1>4
<1>. DEFINE x == SubSeq(c, 1, n)
            y == SubSeq(hist[s], 1, n)
<1>6. /\ \A i \in 1..n : x[i] = c[i]
      /\ \A i \in 1..n : y[i] = hist[s][i]
  BY <1>5, HeadOf
<1>7. x = y
  BY <1>4 DEF Is
<1>. HIDE DEF x, y
<1>8. ASSUME NEW i \in 1..n PROVE rows[s][i] = c[i]
  <2>1. i \in 1..Len(rows[s])
    BY <1>5
  <2>. QED
    BY <1>6, <1>7, <2>1 DEF Begins
<1>. QED
  BY <1>5, <1>8 DEF n

\* After the answer's next token.
LEMMA AnsweredNext ==
    ASSUME NEW h \in Seq(Vocabulary), NEW n \in Nat, Answered(h, n),
           NEW y \in Vocabulary, y = Best(h)
    PROVE  /\ Append(h, y) \in Seq(Vocabulary) /\ Len(Append(h, y)) = Len(h) + 1
           /\ Begins(h, Append(h, y)) /\ Answered(Append(h, y), n)
<1>. DEFINE k == Append(h, y)
<1>1. /\ k \in Seq(Vocabulary) /\ Len(k) = Len(h) + 1 /\ Len(h) \in Nat
      /\ \A i \in 1..Len(h) : k[i] = h[i]
      /\ k[Len(h) + 1] = y
  BY AppendProperties
<1>. HIDE DEF k
<1>2. Begins(h, k)
  BY <1>1 DEF Begins
<1>3. ASSUME NEW i \in n + 1..Len(k) PROVE k[i] = Best(SubSeq(k, 1, i - 1))
  <2>1. i - 1 \in 0..Len(h) /\ i - 1 \in 0..Len(k)
    BY <1>1
  <2>. DEFINE p == SubSeq(k, 1, i - 1)
              o == SubSeq(h, 1, i - 1)
              j == i - 1
  <2>2. /\ p \in Seq(Vocabulary) /\ Len(p) = j /\ \A e \in 1..j : p[e] = k[e]
        /\ o \in Seq(Vocabulary) /\ Len(o) = j /\ \A e \in 1..j : o[e] = h[e]
    <3>1. j \in 0..Len(h) /\ j \in 0..Len(k)
      BY <2>1
    <3>. HIDE DEF j
    <3>2. p = SubSeq(k, 1, j) /\ o = SubSeq(h, 1, j)
      BY DEF j
    <3>. HIDE DEF p, o
    <3>. QED
      BY <1>1, <3>1, <3>2, HeadOf
  <2>3. p = o
    <3>1. \A e \in 1..j : e \in 1..Len(h)
      BY <1>1
    <3>2. \A e \in 1..j : p[e] = o[e]
      BY <1>1, <2>2, <3>1
    <3>. HIDE DEF p, o, j
    <3>. QED
      BY <2>2, <3>2, SeqEqual
  <2>4. CASE i <= Len(h)
    <3>1. i \in n + 1..Len(h) /\ i \in 1..Len(h)
      BY <2>4
    <3>. QED
      BY <1>1, <2>3, <3>1 DEF Answered
  <2>5. CASE i = Len(h) + 1
    <3>1. o = h
      <4>1. Len(o) = Len(h) /\ \A e \in 1..Len(h) : o[e] = h[e]
        BY <2>2, <2>5
      <4>. HIDE DEF o
      <4>. QED
        BY <2>2, <4>1, SeqEqual
    <3>. QED
      BY <1>1, <2>3, <2>5, <3>1
  <2>. QED
    BY <1>1, <2>4, <2>5
<1>. QED
  BY <1>1, <1>2, <1>3 DEF Answered, k

LEMMA BestIs ==
    ASSUME Mux!ServeMuxAssumption, NEW h \in Seq(Vocabulary), Len(h) > 0, Len(h) <= MaxCtx
    PROVE  Best(h) \in Vocabulary
<1>. DEFINE n == Len(h)
<1>1. n \in 1..MaxCtx
  BY DEF Mux!ServeMuxAssumption
<1>2. h \in [1..n -> Vocabulary]
  OBVIOUS
<1>. HIDE DEF n
<1>. QED
  BY <1>1, <1>2 DEF Mux!ServeMuxAssumption

\* What a prompt c of request id does with slot s, name by name (glm.c, SUBMIT).
Submission(id, s, c, max, n, full, next, room, over, disk, ended, q) ==
  /\ n = Mux!Reused(s, c)
  /\ full = SubSeq(rows[s], 1, n) \o SubSeq(c, n + 1, Len(c)) /\ next = Best(full)
  /\ room = Mux!MinOf(max, MaxCtx - Len(c) - 1)
  /\ over \in BOOLEAN /\ (over <=> room <= 0 \/ next \in Stops)
  /\ disk = IF n < Len(rows[s]) THEN Mux!Cut(saved[s], n) ELSE saved[s]
  /\ ended \in BOOLEAN /\ (ended <=> over \/ 1 >= room)
  /\ q = [active |-> ~ended, id |-> id, maximum |-> room,
          emitted |-> IF over THEN 0 ELSE 1]

\* A prompt in a free slot: the rows that are kept and the new ones are its own.
LEMMA SlotSubmitted ==
    ASSUME Mux!ServeMuxAssumption, MuxInv, NEW s \in Slots, NEW c \in Prompts, c # <<>>,
           NEW max \in Budgets, NEW id \in Ids, ~req[s].active,
           NEW n, NEW full, NEW next, NEW room, NEW over, NEW disk, NEW ended, NEW q,
           Submission(id, s, c, max, n, full, next, room, over, disk, ended, q)
    PROVE  SlotInv(IF over THEN c ELSE Append(c, next), full,
                   IF ended THEN Mux!Appended(disk, full) ELSE disk, q, Len(c))
<1>0. /\ n = Mux!Reused(s, c)
      /\ full = SubSeq(rows[s], 1, n) \o SubSeq(c, n + 1, Len(c)) /\ next = Best(full)
      /\ room = Mux!MinOf(max, MaxCtx - Len(c) - 1)
      /\ over \in BOOLEAN /\ (over <=> room <= 0 \/ next \in Stops)
      /\ disk = IF n < Len(rows[s]) THEN Mux!Cut(saved[s], n) ELSE saved[s]
      /\ ended \in BOOLEAN /\ (ended <=> over \/ 1 >= room)
      /\ q = [active |-> ~ended, id |-> id, maximum |-> room,
              emitted |-> IF over THEN 0 ELSE 1]
  BY Zenon DEF Submission
<1>1. /\ c \in Seq(Vocabulary) /\ Len(c) \in Nat /\ 0 < Len(c) /\ Len(c) <= MaxCtx - 2
      /\ max \in Nat /\ 0 < max /\ MaxCtx \in Nat
  BY EmptySeq DEF Mux!ServeMuxAssumption
<1>2. /\ SlotInv(hist[s], rows[s], saved[s], req[s], answer[s])
      /\ rows[s] \in Seq(Vocabulary) /\ hist[s] \in Seq(Vocabulary) /\ saved[s] = rows[s]
      /\ Begins(rows[s], hist[s]) /\ Len(rows[s]) \in Nat
  BY DEF MuxInv, SlotInv, SlotTypes
<1>3. /\ n \in 0..Len(c) /\ n \in 0..Len(rows[s])
      /\ \A i \in 1..n : rows[s][i] = c[i]
  <2>1. /\ Mux!Reused(s, c) \in 0..Len(c) /\ Mux!Reused(s, c) <= Len(rows[s])
        /\ \A i \in 1..Mux!Reused(s, c) : rows[s][i] = c[i]
    BY <1>1, <1>2, ReusedIs
  <2>. QED
    BY <1>0, <1>1, <1>2, <2>1
<1>. DEFINE kept == SubSeq(rows[s], 1, n)
<1>4. /\ kept \in Seq(Vocabulary) /\ Len(kept) = n /\ Begins(kept, c)
  <2>1. /\ kept \in Seq(Vocabulary) /\ Len(kept) = n
        /\ \A i \in 1..n : kept[i] = rows[s][i]
    BY <1>2, <1>3, HeadOf
  <2>. QED
    BY <1>3, <2>1 DEF Begins
<1>. HIDE DEF kept
<1>5. full = c
  <2>1. kept \o SubSeq(c, Len(kept) + 1, Len(c)) = c
    BY <1>1, <1>4, HeadAndTail
  <2>. QED
    BY <1>0, <1>4, <2>1 DEF kept
<1>6. disk \in Seq(Vocabulary) /\ Begins(disk, c)
  <2>1. CASE n < Len(rows[s])
    <3>1. Mux!MinOf(n, Len(rows[s])) = n
      BY <2>1 DEF Mux!MinOf
    <3>2. disk = kept
      BY <1>0, <1>2, <2>1, <3>1 DEF kept, Mux!Cut
    <3>. QED
      BY <1>4, <3>2
  <2>2. CASE ~(n < Len(rows[s]))
    <3>1. disk = rows[s] /\ n = Len(rows[s])
      BY <1>0, <1>2, <1>3, <2>2
    <3>. QED
      BY <1>2, <1>3, <3>1 DEF Begins
  <2>. QED
    BY <2>1, <2>2
<1>7. /\ room \in 1..MaxCtx /\ room <= MaxCtx - Len(c) - 1
  <2>1. MaxCtx - Len(c) - 1 \in Int /\ max \in Int /\ MaxCtx - Len(c) - 1 >= 1
    BY <1>1
  <2>2. room \in {max, MaxCtx - Len(c) - 1} /\ room <= MaxCtx - Len(c) - 1
    BY <1>0, <2>1, MinIs
  <2>. QED
    BY <1>1, <2>1, <2>2
<1>8. next \in Vocabulary /\ next = Best(c)
  <2>1. Len(c) > 0 /\ Len(c) <= MaxCtx
    BY <1>1
  <2>2. Best(c) \in Vocabulary
    BY <1>1, <2>1, BestIs
  <2>. QED
    BY <1>0, <1>5, <2>2
<1>9. /\ q \in Requests /\ q.active = ~ended /\ q.maximum = room
      /\ q.emitted = IF over THEN 0 ELSE 1
  <2>1. (~ended) \in BOOLEAN /\ id \in Ids \cup {0} /\ room \in 0..MaxCtx
        /\ (IF over THEN 0 ELSE 1) \in 0..MaxCtx
    BY <1>1, <1>7
  <2>. QED
    BY <1>0, <2>1 DEF Requests
<1>10. Answered(c, Len(c))
  BY <1>1 DEF Answered
<1>11. Begins(c, c)
  BY <1>1, BeginsItself
<1>12. /\ Append(c, next) \in Seq(Vocabulary) /\ Len(Append(c, next)) = Len(c) + 1
       /\ Begins(c, Append(c, next)) /\ Answered(Append(c, next), Len(c))
  BY <1>1, <1>8, <1>10, AnsweredNext
<1>13. Mux!Appended(disk, full) = c
  BY <1>1, <1>5, <1>6, AppendedIs
<1>. DEFINE h == IF over THEN c ELSE Append(c, next)
            d == IF ended THEN Mux!Appended(disk, full) ELSE disk
<1>14. SlotTypes(h, c, d, q, Len(c)) /\ Begins(c, h) /\ Answered(h, Len(c)) /\ Len(h) <= MaxCtx
  BY <1>1, <1>6, <1>9, <1>10, <1>11, <1>12, <1>13 DEF SlotTypes
<1>15. ASSUME q.active PROVE InFlight(h, c, d, q)
  <2>1. ~ended /\ ~over /\ 1 < room
    <3>1. ~ended
      BY <1>9, <1>15, Zenon
    <3>2. ~over /\ ~(1 >= room)
      BY <1>0, <3>1, Zenon
    <3>. QED
      BY <1>7, <3>1, <3>2
  <2>2. h = Append(c, next) /\ d = disk /\ q.emitted = 1
    BY <1>9, <2>1
  <2>. HIDE DEF h, d
  <2>3. Len(c) + room - 1 < MaxCtx
    BY <1>1, <1>7
  <2>. QED
    BY <1>6, <1>7, <1>9, <1>12, <2>1, <2>2, <2>3 DEF InFlight
<1>16. ~q.active => d = c
  BY <1>9, <1>13
<1>. HIDE DEF h, d
<1>17. SlotInv(h, full, d, q, Len(c))
  BY <1>5, <1>14, <1>15, <1>16 DEF SlotInv
<1>. QED
  BY <1>17 DEF h, d

\* One pass over a slot with a request: its pending token has its row.
LEMMA SlotDecoded ==
    ASSUME Mux!ServeMuxAssumption, MuxInv, NEW s \in Slots, req[s].active
    PROVE  LET h == IF Mux!Stopped(s) THEN hist[s]
                    ELSE Append(Mux!Forwarded(s), Mux!Picked(s))
               r == Mux!Forwarded(s)
               d == IF Mux!Finished(s) THEN Mux!Appended(saved[s], r) ELSE saved[s]
           IN  SlotInv(h, r, d, Mux!Said(s), answer[s])
<1>. DEFINE x == hist[s]
            r == rows[s]
            q == req[s]
            e == saved[s]
<1>1. /\ SlotInv(x, r, e, q, answer[s]) /\ MaxCtx \in Nat
  BY DEF MuxInv, Mux!ServeMuxAssumption
<1>2. /\ x \in Seq(Vocabulary) /\ r \in Seq(Vocabulary) /\ e \in Seq(Vocabulary)
      /\ q \in Requests /\ answer[s] \in Nat /\ Len(x) = Len(r) + 1 /\ Len(x) <= MaxCtx
      /\ Begins(r, x) /\ Begins(e, r) /\ Answered(x, answer[s])
      /\ 0 < q.emitted /\ q.emitted < q.maximum /\ q.active
      /\ Len(r) + q.maximum - q.emitted < MaxCtx
  BY <1>1 DEF SlotInv, SlotTypes, InFlight
<1>3. /\ Mux!Forwarded(s) = Append(r, x[Len(r) + 1])
      /\ Mux!Picked(s) = Best(Mux!Forwarded(s))
      /\ Mux!Stopped(s) <=> Mux!Picked(s) \in Stops
      /\ Mux!Finished(s) <=> Mux!Stopped(s) \/ q.emitted + 1 >= q.maximum
  BY DEF Mux!Forwarded, Mux!Picked, Mux!Stopped, Mux!Finished
<1>4. Mux!Said(s) = IF Mux!Finished(s)
                    THEN Mux!Ended(IF Mux!Stopped(s) THEN q ELSE [q EXCEPT !.emitted = @ + 1])
                    ELSE IF Mux!Stopped(s) THEN q ELSE [q EXCEPT !.emitted = @ + 1]
  BY DEF Mux!Said
<1>5. /\ Len(r) \in Nat /\ Len(x) \in Nat /\ x[Len(r) + 1] \in Vocabulary
  <2>1. Len(r) + 1 \in 1..Len(x)
    BY <1>2
  <2>. QED
    BY <1>2, <2>1
<1>. HIDE DEF x, r, q, e
<1>. DEFINE f == Mux!Forwarded(s)
<1>6. f = x
  <2>1. /\ f \in Seq(Vocabulary) /\ Len(f) = Len(r) + 1
        /\ \A i \in 1..Len(r) : f[i] = r[i]
        /\ f[Len(r) + 1] = x[Len(r) + 1]
    BY <1>2, <1>3, <1>5, AppendProperties
  <2>. HIDE DEF f
  <2>2. ASSUME NEW i \in 1..Len(f) PROVE f[i] = x[i]
    <3>1. i \in 1..Len(r) \/ i = Len(r) + 1
      BY <1>5, <2>1
    <3>. QED
      BY <1>2, <2>1, <3>1 DEF Begins
  <2>. QED
    BY <1>2, <2>1, <2>2, SeqEqual
<1>7. Mux!Picked(s) \in Vocabulary /\ Mux!Picked(s) = Best(x)
  <2>1. Best(x) \in Vocabulary
    BY <1>2, <1>5, BestIs
  <2>. QED
    BY <1>3, <1>6, <2>1
<1>. HIDE DEF f
<1>8. Begins(e, x) /\ Begins(x, x)
  <2>1. Begins(x, x)
    BY <1>2, BeginsItself
  <2>. QED
    BY <1>2, <1>5, <2>1 DEF Begins
<1>9. Mux!Appended(e, f) = x
  BY <1>2, <1>6, <1>8, AppendedIs
<1>. DEFINE y == Append(f, Mux!Picked(s))
            h == IF Mux!Stopped(s) THEN x ELSE y
            d == IF Mux!Finished(s) THEN Mux!Appended(e, f) ELSE e
            got == IF Mux!Stopped(s) THEN q ELSE [q EXCEPT !.emitted = @ + 1]
            say == Mux!Said(s)
<1>10. /\ y \in Seq(Vocabulary) /\ Len(y) = Len(x) + 1 /\ Begins(x, y) /\ Answered(y, answer[s])
  BY <1>2, <1>6, <1>7, AnsweredNext
<1>11. q.emitted \in Nat /\ q.maximum \in 0..MaxCtx
  BY <1>2 DEF Requests
<1>12. Len(x) + 1 <= MaxCtx
  BY <1>1, <1>2, <1>5, <1>11
<1>13. got \in Requests /\ got.active /\ got.maximum = q.maximum
       /\ (~Mux!Stopped(s) => got.emitted = q.emitted + 1)
  <2>1. q.emitted + 1 \in 0..MaxCtx
    BY <1>1, <1>2, <1>11
  <2>. QED
    BY <1>2, <2>1 DEF Requests
<1>. HIDE DEF got
<1>14. /\ say \in Requests /\ say.active = ~Mux!Finished(s)
       /\ (~Mux!Finished(s) => say = got)
  <2>1. CASE Mux!Finished(s)
    <3>1. say = Mux!Ended(got)
      BY <1>4, <2>1 DEF got
    <3>. QED
      BY <1>13, <2>1, <3>1 DEF Mux!Ended, Requests
  <2>2. CASE ~Mux!Finished(s)
    <3>1. say = got
      BY <1>4, <2>2 DEF got
    <3>. QED
      BY <1>13, <2>2, <3>1 DEF Requests
  <2>. QED
    BY <2>1, <2>2
<1>. HIDE DEF say, y
<1>15. /\ SlotTypes(h, f, d, say, answer[s]) /\ Begins(f, h) /\ Answered(h, answer[s])
       /\ Len(h) <= MaxCtx
  BY <1>2, <1>6, <1>8, <1>9, <1>10, <1>12, <1>14 DEF SlotTypes
<1>16. ASSUME say.active PROVE InFlight(h, f, d, say)
  <2>1. ~Mux!Finished(s) /\ ~Mux!Stopped(s) /\ ~(q.emitted + 1 >= q.maximum) /\ say = got
    BY <1>3, <1>14, <1>16
  <2>2. h = y /\ d = e /\ say.emitted = q.emitted + 1 /\ say.maximum = q.maximum
    BY <1>13, <2>1
  <2>3. Len(x) + q.maximum - (q.emitted + 1) < MaxCtx
    BY <1>1, <1>2, <1>5, <1>11
  <2>. HIDE DEF h, d
  <2>. QED
    BY <1>6, <1>8, <1>10, <1>11, <2>1, <2>2, <2>3 DEF InFlight
<1>17. ~say.active => d = f
  BY <1>6, <1>9, <1>14
<1>18. SlotInv(h, f, d, say, answer[s])
  <2>. HIDE DEF h, d
  <2>. QED
    BY <1>15, <1>16, <1>17 DEF SlotInv
<1>. QED
  BY <1>18 DEF h, d, say, f, x, e, y

LEMMA MuxInit == ASSUME Mux!ServeMuxAssumption, Mux!Init PROVE MuxInv
<1>1. /\ pc = "intr" /\ sent = 0 /\ bound \in Slots
      /\ hist = [s \in Slots |-> <<>>] /\ rows = hist /\ saved = hist
      /\ req = [s \in Slots |-> Mux!Idle] /\ answer = [s \in Slots |-> 0]
  BY DEF Mux!Init
<1>2. /\ <<>> \in Seq(Vocabulary) /\ Len(<<>>) = 0
      /\ Mux!Idle \in Requests /\ ~Mux!Idle.active /\ MaxCtx \in Nat /\ Frames \in Nat
  BY EmptySeq DEF Mux!Idle, Requests, Mux!ServeMuxAssumption
<1>3. MuxTypes
  BY <1>1, <1>2 DEF MuxTypes
<1>4. ASSUME NEW s \in Slots PROVE SlotInv(hist[s], rows[s], saved[s], req[s], answer[s])
  <2>1. /\ hist[s] = <<>> /\ rows[s] = <<>> /\ saved[s] = <<>> /\ req[s] = Mux!Idle
        /\ answer[s] = 0
    BY <1>1
  <2>. QED
    BY <1>2, <2>1 DEF SlotInv, SlotTypes, Begins, Answered
<1>5. Mux!OneById /\ Mux!NoneLeft
  BY <1>1, <1>2 DEF Mux!OneById, Mux!NoneLeft, Mux!Active
<1>. QED
  BY <1>3, <1>4, <1>5 DEF MuxInv

\* The loop leaves with nobody active.
LEMMA AfterIs ==
    ASSUME Mux!AfterFrame
    PROVE  pc' \in {"intr", "stdin", "decode", "exit"} /\ Mux!NoneLeft'
  BY DEF Mux!AfterFrame, Mux!NoneLeft

\* What only the loop and the frames see.
LEMMA MuxQuiet ==
    ASSUME MuxInv, UNCHANGED <<hist, rows, req, saved, answer>>, bound' \in Slots,
           sent' \in 0..Frames, pc' \in {"intr", "stdin", "decode", "exit"}, Mux!NoneLeft'
    PROVE  MuxInv'
<1>1. MuxTypes'
  BY DEF MuxInv, MuxTypes
<1>2. \A s \in Slots : SlotInv(hist'[s], rows'[s], saved'[s], req'[s], answer'[s])
  BY DEF MuxInv
<1>3. Mux!OneById'
  BY DEF MuxInv, Mux!OneById, Mux!Active
<1>. QED
  BY <1>1, <1>2, <1>3 DEF MuxInv

\* Requests that end take no id that another one has.
LEMMA FewerActive ==
    ASSUME MuxInv, \A s \in Slots : req'[s].active => req[s].active /\ req'[s].id = req[s].id
    PROVE  Mux!OneById'
  BY DEF MuxInv, Mux!OneById, Mux!Active

LEMMA SoftStopStep == ASSUME MuxInv, Mux!SoftStop PROVE MuxInv'
<1>1. /\ req' = [s \in Slots |-> Mux!Ended(req[s])]
      /\ saved' = [s \in Slots |-> IF s \in Mux!Active THEN Mux!Appended(saved[s], rows[s])
                                   ELSE saved[s]]
      /\ IF Mux!Active = {} THEN UNCHANGED bound ELSE bound' \in Mux!Active
      /\ pc' = "stdin" /\ UNCHANGED <<hist, rows, sent, answer>>
  BY DEF Mux!SoftStop
<1>2. bound' \in Slots
  BY <1>1 DEF Mux!Active, MuxInv, MuxTypes
<1>3. ASSUME NEW s \in Slots
      PROVE  /\ SlotInv(hist'[s], rows'[s], saved'[s], req'[s], answer'[s])
             /\ ~req'[s].active
  <2>1. /\ hist'[s] = hist[s] /\ rows'[s] = rows[s] /\ answer'[s] = answer[s]
        /\ req'[s] = Mux!Ended(req[s])
        /\ saved'[s] = IF req[s].active THEN Mux!Appended(saved[s], rows[s]) ELSE saved[s]
        /\ SlotInv(hist[s], rows[s], saved[s], req[s], answer[s])
    BY <1>1 DEF Mux!Active, MuxInv
  <2>2. req[s] \in Requests /\ ~Mux!Ended(req[s]).active
    BY <2>1 DEF SlotInv, SlotTypes, Requests, Mux!Ended
  <2>3. CASE req[s].active
    <3>1. SlotInv(hist[s], rows[s], Mux!Appended(saved[s], rows[s]), Mux!Ended(req[s]),
                  answer[s])
      BY <2>1, <2>3, SlotEnds
    <3>. QED
      BY <2>1, <2>2, <2>3, <3>1
  <2>4. CASE ~req[s].active
    <3>1. Mux!Ended(req[s]) = req[s]
      BY <2>2, <2>4 DEF Requests, Mux!Ended
    <3>. QED
      BY <2>1, <2>4, <3>1
  <2>. QED
    BY <2>3, <2>4
<1>4. MuxTypes'
  BY <1>1, <1>2, <1>3 DEF MuxInv, MuxTypes, SlotInv, SlotTypes
<1>5. Mux!OneById' /\ Mux!NoneLeft'
  BY <1>1, <1>3 DEF Mux!OneById, Mux!NoneLeft, Mux!Active
<1>. QED
  BY <1>3, <1>4, <1>5 DEF MuxInv

LEMMA CancelStep ==
    ASSUME Mux!ServeMuxAssumption, MuxInv, NEW id \in Ids, Mux!Cancel(id) PROVE MuxInv'
<1>1. /\ sent < Frames /\ sent' = sent + 1 /\ Mux!AfterFrame
      /\ UNCHANGED <<hist, rows, answer>>
  BY DEF Mux!Cancel, Mux!Frame
<1>2. sent' \in 0..Frames
  BY <1>1 DEF MuxInv, MuxTypes, Mux!ServeMuxAssumption
<1>3. CASE UNCHANGED <<req, bound, saved>>
  <2>1. bound' \in Slots
    BY <1>3 DEF MuxInv, MuxTypes
  <2>. QED
    BY <1>1, <1>2, <1>3, <2>1, AfterIs, MuxQuiet
<1>4. ASSUME NEW t \in Mux!Active, req' = [req EXCEPT ![t].active = FALSE],
             bound' = t, saved' = Mux!CancelSaves(bound')
      PROVE  MuxInv'
  <2>1. t \in Slots /\ req[t].active /\ saved' = [saved EXCEPT ![t] = Mux!Appended(@, rows[t])]
    BY <1>4 DEF Mux!Active, Mux!CancelSaves
  <2>2. ASSUME NEW s \in Slots
        PROVE  /\ SlotInv(hist'[s], rows'[s], saved'[s], req'[s], answer'[s])
               /\ req'[s].active => req[s].active /\ req'[s].id = req[s].id
    <3>1. /\ SlotInv(hist[s], rows[s], saved[s], req[s], answer[s])
          /\ hist'[s] = hist[s] /\ rows'[s] = rows[s] /\ answer'[s] = answer[s]
      BY <1>1 DEF MuxInv
    <3>2. CASE s = t
      <4>1. /\ req'[s] = [req[s] EXCEPT !.active = FALSE]
            /\ saved'[s] = Mux!Appended(saved[s], rows[s])
        BY <1>4, <2>1, <3>2 DEF MuxInv, MuxTypes
      <4>2. ~req'[s].active
        BY <3>1, <4>1 DEF SlotInv, SlotTypes, Requests
      <4>. QED
        BY <2>1, <3>1, <3>2, <4>1, <4>2, SlotEnds
    <3>3. CASE s # t
      <4>1. req'[s] = req[s] /\ saved'[s] = saved[s]
        BY <1>4, <2>1, <3>3 DEF MuxInv, MuxTypes
      <4>. QED
        BY <3>1, <4>1
    <3>. QED
      BY <3>2, <3>3
  <2>3. Mux!OneById'
    BY <2>2, FewerActive
  <2>4. MuxTypes' /\ Mux!NoneLeft'
    <3>1. pc' \in {"intr", "stdin", "decode", "exit"} /\ Mux!NoneLeft' /\ bound' \in Slots
      BY <1>1, <1>4, <2>1, AfterIs
    <3>2. /\ req' = [s \in Slots |-> req'[s]] /\ saved' = [s \in Slots |-> saved'[s]]
      BY <1>4, <2>1 DEF MuxInv, MuxTypes
    <3>3. \A s \in Slots : req'[s] \in Requests /\ saved'[s] \in Seq(Vocabulary)
      BY <2>2 DEF SlotInv, SlotTypes
    <3>4. req' \in [Slots -> Requests] /\ saved' \in [Slots -> Seq(Vocabulary)]
      BY <3>2, <3>3
    <3>. QED
      BY <1>1, <1>2, <3>1, <3>4 DEF MuxInv, MuxTypes
  <2>. QED
    BY <2>2, <2>3, <2>4 DEF MuxInv
<1>. QED
  BY <1>3, <1>4 DEF Mux!Cancel

LEMMA DecodeStep ==
    ASSUME Mux!ServeMuxAssumption, MuxInv, Mux!Decode PROVE MuxInv'
<1>. DEFINE done == {s \in Mux!Active : Mux!Finished(s)}
<1>1. /\ rows' = [s \in Slots |-> IF s \in Mux!Active THEN Mux!Forwarded(s) ELSE rows[s]]
      /\ hist' = [s \in Slots |-> IF s \in Mux!Active /\ ~Mux!Stopped(s)
                                  THEN Append(Mux!Forwarded(s), Mux!Picked(s)) ELSE hist[s]]
      /\ req' = [s \in Slots |-> IF s \in Mux!Active THEN Mux!Said(s) ELSE req[s]]
      /\ saved' = [s \in Slots |-> IF s \in done THEN Mux!Appended(saved[s], rows'[s])
                                   ELSE saved[s]]
      /\ IF done = {} THEN UNCHANGED bound ELSE bound' \in done
      /\ pc' = "intr" /\ UNCHANGED <<sent, answer>>
  BY DEF Mux!Decode
<1>2. bound' \in Slots
  <2>1. done \subseteq Slots
    BY DEF Mux!Active
  <2>. QED
    BY <1>1, <2>1 DEF MuxInv, MuxTypes
<1>3. ASSUME NEW s \in Slots
      PROVE  /\ SlotInv(hist'[s], rows'[s], saved'[s], req'[s], answer'[s])
             /\ req'[s].active => req[s].active /\ req'[s].id = req[s].id
  <2>1. CASE req[s].active
    <3>1. s \in Mux!Active /\ (s \in done <=> Mux!Finished(s))
      BY <2>1 DEF Mux!Active
    <3>2. /\ hist'[s] = IF Mux!Stopped(s) THEN hist[s]
                        ELSE Append(Mux!Forwarded(s), Mux!Picked(s))
          /\ rows'[s] = Mux!Forwarded(s)
          /\ saved'[s] = IF Mux!Finished(s) THEN Mux!Appended(saved[s], Mux!Forwarded(s))
                         ELSE saved[s]
          /\ req'[s] = Mux!Said(s) /\ answer'[s] = answer[s]
      BY <1>1, <3>1
    <3>3. SlotInv(hist'[s], rows'[s], saved'[s], req'[s], answer'[s])
      BY <2>1, <3>2, SlotDecoded
    <3>4. Mux!Said(s).id = req[s].id
      <4>1. req[s] \in Requests
        BY DEF MuxInv, MuxTypes
      <4>. QED
        BY <4>1 DEF Mux!Said, Mux!Ended, Requests
    <3>. QED
      BY <2>1, <3>2, <3>3, <3>4
  <2>2. CASE ~req[s].active
    <3>1. s \notin Mux!Active /\ s \notin done
      BY <2>2 DEF Mux!Active
    <3>2. /\ hist'[s] = hist[s] /\ rows'[s] = rows[s] /\ saved'[s] = saved[s]
          /\ req'[s] = req[s] /\ answer'[s] = answer[s]
      BY <1>1, <3>1
    <3>. QED
      BY <3>2 DEF MuxInv
  <2>. QED
    BY <2>1, <2>2
<1>4. MuxTypes'
  <2>1. /\ req' = [s \in Slots |-> req'[s]] /\ saved' = [s \in Slots |-> saved'[s]]
        /\ hist' = [s \in Slots |-> hist'[s]] /\ rows' = [s \in Slots |-> rows'[s]]
    <3>. HIDE DEF done
    <3>. QED
      BY <1>1
  <2>2. \A s \in Slots : /\ req'[s] \in Requests /\ saved'[s] \in Seq(Vocabulary)
                         /\ hist'[s] \in Seq(Vocabulary) /\ rows'[s] \in Seq(Vocabulary)
    BY <1>3 DEF SlotInv, SlotTypes
  <2>3. /\ req' \in [Slots -> Requests] /\ saved' \in [Slots -> Seq(Vocabulary)]
        /\ hist' \in [Slots -> Seq(Vocabulary)] /\ rows' \in [Slots -> Seq(Vocabulary)]
    BY <2>1, <2>2
  <2>. QED
    BY <1>1, <1>2, <2>3 DEF MuxInv, MuxTypes
<1>5. Mux!OneById'
  BY <1>3, FewerActive
<1>6. Mux!NoneLeft'
  BY <1>1 DEF Mux!NoneLeft
<1>. QED
  BY <1>3, <1>4, <1>5, <1>6 DEF MuxInv

LEMMA SubmitStep ==
    ASSUME Mux!ServeMuxAssumption, MuxInv, NEW id \in Ids, NEW t \in Slots,
           NEW c \in Prompts, NEW max \in Budgets, Mux!Submit(id, t, c, max)
    PROVE  MuxInv'
<1>. DEFINE n     == Mux!Reused(t, c)
            full  == SubSeq(rows[t], 1, n) \o SubSeq(c, n + 1, Len(c))
            next  == Best(full)
            room  == Mux!MinOf(max, MaxCtx - Len(c) - 1)
            over  == room <= 0 \/ next \in Stops
            disk  == IF n < Len(rows[t]) THEN Mux!Cut(saved[t], n) ELSE saved[t]
            ended == over \/ 1 >= room
            h     == IF over THEN c ELSE Append(c, next)
            d     == IF ended THEN Mux!Appended(disk, full) ELSE disk
            q     == [active |-> ~ended, id |-> id, maximum |-> room,
                      emitted |-> IF over THEN 0 ELSE 1]
<1>1. /\ sent < Frames /\ sent' = sent + 1 /\ Mux!AfterFrame /\ bound' = t /\ c # <<>>
      /\ ~req[t].active /\ \A s \in Mux!Active : req[s].id # id
  BY DEF Mux!Submit, Mux!Frame, Mux!BindTo, Mux!IdFree
<1>2. /\ rows' = [rows EXCEPT ![t] = full] /\ hist' = [hist EXCEPT ![t] = h]
      /\ req' = [req EXCEPT ![t] = q] /\ saved' = [saved EXCEPT ![t] = d]
      /\ answer' = [answer EXCEPT ![t] = Len(c)]
  BY <1>1 DEF Mux!Submit
<1>3. over \in BOOLEAN /\ ended \in BOOLEAN
  OBVIOUS
<1>4. SlotInv(h, full, d, q, Len(c))
  <2>. HIDE DEF n, full, next, room, over, disk, ended, q
  <2>1. Submission(id, t, c, max, n, full, next, room, over, disk, ended, q)
    BY <1>3, Zenon DEF n, full, next, room, over, disk, ended, q, Submission
  <2>2. SlotInv(IF over THEN c ELSE Append(c, next), full,
                IF ended THEN Mux!Appended(disk, full) ELSE disk, q, Len(c))
    BY <1>1, <2>1, SlotSubmitted
  <2>. QED
    BY <2>2
<1>5. q.id = id
  OBVIOUS
<1>. HIDE DEF n, full, next, room, over, disk, ended, h, d, q
<1>6. ASSUME NEW s \in Slots
      PROVE  /\ SlotInv(hist'[s], rows'[s], saved'[s], req'[s], answer'[s])
             /\ s # t => req'[s] = req[s]
  <2>1. CASE s = t
    BY <1>2, <1>4, <2>1 DEF MuxInv, MuxTypes
  <2>2. CASE s # t
    <3>1. /\ hist'[s] = hist[s] /\ rows'[s] = rows[s] /\ saved'[s] = saved[s]
          /\ req'[s] = req[s] /\ answer'[s] = answer[s]
      BY <1>2, <2>2 DEF MuxInv, MuxTypes
    <3>. QED
      BY <3>1 DEF MuxInv
  <2>. QED
    BY <2>1, <2>2
<1>7. MuxTypes'
  <2>1. /\ h \in Seq(Vocabulary) /\ full \in Seq(Vocabulary) /\ d \in Seq(Vocabulary)
        /\ q \in Requests /\ Len(c) \in Nat
    BY <1>4 DEF SlotInv, SlotTypes
  <2>2. /\ hist' \in [Slots -> Seq(Vocabulary)] /\ rows' \in [Slots -> Seq(Vocabulary)]
        /\ saved' \in [Slots -> Seq(Vocabulary)] /\ req' \in [Slots -> Requests]
        /\ answer' \in [Slots -> Nat]
    BY <1>2, <2>1 DEF MuxInv, MuxTypes
  <2>3. sent' \in 0..Frames
    BY <1>1 DEF MuxInv, MuxTypes, Mux!ServeMuxAssumption
  <2>. QED
    BY <1>1, <2>2, <2>3, AfterIs DEF MuxTypes
<1>8. Mux!OneById'
  <2>1. req'[t].id = id
    BY <1>2, <1>5 DEF MuxInv, MuxTypes
  <2>2. ASSUME NEW s \in Slots, NEW u \in Slots, req'[s].active, req'[u].active,
               req'[s].id = req'[u].id
        PROVE  s = u
    <3>1. CASE s # t /\ u # t
      BY <1>6, <2>2, <3>1 DEF MuxInv, Mux!OneById, Mux!Active
    <3>2. CASE s = t /\ u # t
      BY <1>1, <1>6, <2>1, <2>2, <3>2 DEF Mux!Active
    <3>3. CASE s # t /\ u = t
      BY <1>1, <1>6, <2>1, <2>2, <3>3 DEF Mux!Active
    <3>. QED
      BY <3>1, <3>2, <3>3
  <2>. QED
    BY <2>2 DEF Mux!OneById, Mux!Active
<1>. QED
  BY <1>1, <1>6, <1>7, <1>8, AfterIs DEF MuxInv

LEMMA MuxNext ==
    ASSUME Mux!ServeMuxAssumption, MuxInv, Mux!Next \/ UNCHANGED muxVars PROVE MuxInv'
<1>. DEFINE Same == UNCHANGED <<hist, rows, req, saved, answer>>
<1>1. /\ pc \in {"intr", "stdin", "decode", "exit"} /\ bound \in Slots /\ sent \in 0..Frames
      /\ Mux!NoneLeft /\ Frames \in Nat
  BY DEF MuxInv, MuxTypes, Mux!ServeMuxAssumption
<1>2. CASE Mux!NoSoftStop
  BY <1>1, <1>2, MuxQuiet DEF Mux!NoSoftStop, Mux!NoneLeft
<1>3. CASE Mux!NoFrame \/ Mux!Eof
  <2>1. Same /\ bound' = bound /\ sent' = sent /\ Mux!AfterFrame
    BY <1>3 DEF Mux!NoFrame, Mux!Eof
  <2>. QED
    BY <1>1, <2>1, AfterIs, MuxQuiet
<1>4. ASSUME NEW id \in Ids, NEW s \in Slots \cup {NoSlot}, NEW c \in Prompts,
             Mux!Refused(id, s, c)
      PROVE  MuxInv'
  <2>1. Same /\ Mux!AfterFrame /\ sent < Frames /\ sent' = sent + 1
    BY <1>4 DEF Mux!Refused, Mux!Frame
  <2>2. bound' \in Slots
    BY <1>1, <1>4 DEF Mux!Refused
  <2>3. sent' \in 0..Frames
    BY <1>1, <2>1
  <2>. QED
    BY <2>1, <2>2, <2>3, AfterIs, MuxQuiet
<1>5. CASE Mux!Signal
  <2>1. Same /\ sent < Frames /\ sent' = sent + 1 /\ pc' = pc /\ bound' = bound
    BY <1>5 DEF Mux!Signal
  <2>2. sent' \in 0..Frames /\ Mux!NoneLeft'
    BY <1>1, <2>1 DEF Mux!NoneLeft, Mux!Active
  <2>. QED
    BY <1>1, <2>1, <2>2, MuxQuiet
<1>6. CASE Mux!Terminated \/ UNCHANGED muxVars
  <2>1. Same /\ UNCHANGED <<pc, bound, sent>>
    BY <1>6 DEF Mux!Terminated, Mux!vars, muxVars
  <2>2. Mux!NoneLeft'
    BY <1>1, <2>1 DEF Mux!NoneLeft, Mux!Active
  <2>. QED
    BY <1>1, <2>1, <2>2, MuxQuiet
<1>7. CASE Mux!Loop
  BY <1>2, <1>3, <1>7, SoftStopStep, DecodeStep DEF Mux!Loop
<1>8. CASE Mux!Arrives
  BY <1>4, <1>8, CancelStep, SubmitStep DEF Mux!Arrives
<1>. QED
  BY <1>3, <1>5, <1>6, <1>7, <1>8 DEF Mux!Next

LEMMA MuxAlways == Spec => []MuxInv
<1>1. Mux!ServeMuxAssumption
  BY GlmServeAssumption
<1>2. Init => MuxInv
  BY <1>1, MuxInit DEF Init
<1>3. MuxInv /\ [Next]_vars => MuxInv'
  <2>1. [Next]_vars => Mux!Next \/ UNCHANGED muxVars
    BY DEF Next, OneAtATime, Batched, vars
  <2>. QED
    BY <1>1, <2>1, MuxNext
<1>. QED
  BY <1>2, <1>3, PTL DEF Spec

\* An answer of SERVE_BATCH is the one its prompt gets alone: the tokens after
\* the prompt are what the model predicts from the tokens of that slot, and its
\* rows are theirs, whatever is submitted, reused, cancelled or stopped in the
\* other slots meanwhile (run_serve_mux, step_decode_batch).
THEOREM AnswersAreOwn == Spec => []OwnAnswer
<1>1. ASSUME MuxInv PROVE OwnAnswer
  <2>1. ASSUME NEW s \in Slots
        PROVE  /\ rows[s] = SubSeq(hist[s], 1, Len(rows[s]))
               /\ \A i \in answer[s] + 1..Len(hist[s]) :
                     hist[s][i] = Best(SubSeq(hist[s], 1, i - 1))
    <3>. DEFINE h == hist[s]
                r == rows[s]
                n == Len(r)
                p == SubSeq(h, 1, n)
    <3>1. /\ h \in Seq(Vocabulary) /\ r \in Seq(Vocabulary) /\ Begins(r, h)
          /\ Answered(h, answer[s])
      BY <1>1 DEF MuxInv, SlotInv, SlotTypes
    <3>2. n \in 0..Len(h) /\ \A i \in 1..n : r[i] = h[i]
      BY <3>1 DEF Begins
    <3>3. p \in Seq(Vocabulary) /\ Len(p) = n /\ \A i \in 1..n : p[i] = h[i]
      <4>. HIDE DEF n, h
      <4>. QED
        BY <3>1, <3>2, HeadOf
    <3>4. \A i \in 1..Len(r) : r[i] = p[i]
      BY <3>2, <3>3
    <3>5. r = p
      <4>. HIDE DEF p, r
      <4>. QED
        BY <3>1, <3>3, <3>4, SeqEqual DEF n
    <3>. QED
      BY <3>1, <3>5 DEF Answered
  <2>. QED
    BY <2>1 DEF OwnAnswer, Mux!OwnAnswer
<1>. QED
  BY <1>1, MuxAlways, PTL

\* Nothing of this needs the other mode: an id names one request, the budget
\* of a request and the context hold for its rows, and the loop leaves nobody.
LEMMA MuxConsistent ==
    ASSUME MuxInv, Mux!ServeMuxAssumption
    PROVE  Mux!TypeOK /\ Mux!OneById /\ Mux!WithinBudget /\ Mux!Saved /\ Mux!NoneLeft
<1>1. ASSUME NEW s \in Slots
      PROVE  /\ Len(rows[s]) <= Len(hist[s]) /\ Len(hist[s]) <= MaxCtx
             /\ req[s].id \in Ids \cup {0} /\ req[s].emitted \in 0..MaxCtx
             /\ req[s].active => req[s].emitted < req[s].maximum /\ Len(rows[s]) < MaxCtx
             /\ ~req[s].active => saved[s] = rows[s]
  <2>1. SlotInv(hist[s], rows[s], saved[s], req[s], answer[s])
    BY DEF MuxInv
  <2>2. MaxCtx \in Nat /\ Len(rows[s]) \in Nat /\ req[s] \in Requests
    BY <2>1 DEF SlotInv, SlotTypes, Mux!ServeMuxAssumption
  <2>3. req[s].emitted \in 0..MaxCtx /\ req[s].maximum \in 0..MaxCtx /\ req[s].id \in Ids \cup {0}
    BY <2>2 DEF Requests
  <2>. QED
    BY <2>1, <2>2, <2>3 DEF SlotInv, InFlight, Begins
<1>. QED
  BY <1>1 DEF MuxInv, MuxTypes, Mux!TypeOK, Mux!WithinBudget, Mux!Saved, Mux!Active

-----------------------------------------------------------------------------
(* The conversation file of SERVE, when the file and the staging buffer are  *)
(* to be had.  Plain is the case the reader has in mind: no fault at all and *)
(* one set of dimensions.                                                    *)

SameDims == \A d, e \in Dims : d = e
SameLimit == \A m, n \in Limits : m = n
Plain == Faults = {} /\ SameDims
Opens == {"open", "oom"} \cap Faults = {}
Top == Disk!MaxOf(Limits) + Slack

DiskTypes ==
  /\ file \in [state : {"none", "empty", "ok"}, dims : Dims, nrec : 0..Top,
               recs : Seq(Disk!Rows)]
  /\ kv \in Seq(Disk!Rows) /\ Len(kv) <= Top
  /\ run \in [limit : Limits, dims : Dims]
  /\ step \in {"down", "idle", "truncate", "append", "create", "records"}
  /\ diskNrec \in 0..Top /\ at \in 0..Top /\ cut \in Nat

\* The first n rows have their records, and where records are read as they
\* were written, these are the rows.
Written(n) == /\ n <= Len(file.recs)
              /\ Plain => \A p \in 1..n : file.recs[p] = kv[p]

\* disk_nrec is what the header says, but for a file that was refused.
Filed == /\ Written(diskNrec)
         /\ Plain => file.nrec = diskNrec \/ (diskNrec = 0 /\ file.nrec >= run.limit)

Places ==
  /\ file.state = "none" => file.nrec = 0 /\ file.recs = <<>>
  /\ step = "create" => file.state = "empty" /\ file.nrec = 0 /\ file.recs = <<>>
  /\ Plain /\ file.state = "empty" => step = "create"
  /\ step = "down" => kv = <<>>
  /\ step = "idle" => diskNrec = Len(kv) /\ Filed
  /\ step = "truncate" => cut <= Len(kv) /\ Written(cut)
  /\ step \in {"append", "create", "records"} => diskNrec <= Len(kv) /\ Filed
  /\ step = "records" => /\ diskNrec <= at /\ at <= Len(kv) /\ Written(at)
                         /\ file.state # "none"

\* Every record was written, from a row with its KV: the rows that a start with
\* other dimensions could not read are never written again.
Have == IF step = "truncate" THEN cut ELSE diskNrec

Backed ==
  /\ file.nrec <= Len(file.recs)
  /\ \A p \in 1..Len(file.recs) : file.recs[p].of # <<>>
  /\ \A p \in 1..Len(kv) : kv[p].of = <<>> => p <= Have

\* The KV of a row was computed from the tokens of the rows up to it.
TrueRows(rs, n) == \A p \in 1..n : rs[p].of = [q \in 1..p |-> rs[q].tok]

Truth ==
  Plain /\ SameLimit => /\ file.nrec < run.limit => TrueRows(file.recs, file.nrec)
                        /\ TrueRows(kv, Len(kv))

DiskInv == DiskTypes /\ Places /\ Backed /\ Truth

LEMMA TopIs ==
    ASSUME Disk!KvDiskAssumption
    PROVE  /\ Disk!MaxOf(Limits) \in Limits /\ Top \in Nat
           /\ \A m \in Limits : m \in Nat /\ m + Slack <= Top
<1>1. PICK n \in Limits : \A m \in Limits : n >= m
  BY DEF Disk!KvDiskAssumption
<1>2. Disk!MaxOf(Limits) \in Limits /\ \A m \in Limits : Disk!MaxOf(Limits) >= m
  BY <1>1 DEF Disk!MaxOf
<1>3. Slack \in Nat /\ \A m \in Limits : m \in Nat
  BY DEF Disk!KvDiskAssumption
<1>. QED
  BY <1>2, <1>3 DEF Top

\* A set of numbers with a bound has a maximum.
LEMMA MaxIs ==
    ASSUME NEW m \in Nat, NEW S \in SUBSET 0..m, S # {}
    PROVE  Disk!MaxOf(S) \in S /\ \A y \in S : Disk!MaxOf(S) >= y
<1>. DEFINE T == {m - n : n \in S}
<1>1. T \in SUBSET Nat /\ T # {}
  <2>1. \A n \in S : m - n \in Nat
    OBVIOUS
  <2>. QED
    BY <2>1
<1>2. PICK x \in T : \A y \in T : x <= y
  <2>. HIDE DEF T
  <2>. QED
    BY <1>1, LeastOf
<1>3. PICK n \in S : x = m - n
  OBVIOUS
<1>4. \A y \in S : n >= y
  <2>1. ASSUME NEW y \in S PROVE n >= y
    <3>1. m - y \in T
      OBVIOUS
    <3>2. m - n <= m - y
      BY <1>2, <1>3, <3>1
    <3>. QED
      BY <3>2
  <2>. QED
    BY <2>1
<1>. QED
  BY <1>4 DEF Disk!MaxOf

\* What a conversation shares with the one in memory (its longest common head).
LEMMA SharedIs ==
    ASSUME NEW c, Len(c) \in Nat, Len(kv) \in Nat
    PROVE  /\ Disk!Shared(c) \in Nat /\ Disk!Shared(c) <= Len(c) /\ Disk!Shared(c) <= Len(kv)
           /\ \A p \in 1..Disk!Shared(c) : c[p] = kv[p].tok
<1>. DEFINE m == Disk!MinOf(Len(c), Len(kv))
            S == {n \in 0..m : \A p \in 1..n : c[p] = kv[p].tok}
<1>1. m \in Nat /\ m <= Len(c) /\ m <= Len(kv)
  BY DEF Disk!MinOf
<1>2. Disk!Shared(c) = Disk!MaxOf(S)
  BY DEF Disk!Shared
<1>. HIDE DEF m
<1>3. S \in SUBSET 0..m /\ 0 \in S
  BY <1>1
<1>4. Disk!MaxOf(S) \in S
  <2>. HIDE DEF S
  <2>. QED
    BY <1>1, <1>3, MaxIs
<1>. QED
  BY <1>1, <1>2, <1>4

\* The head of a sequence as the function it is.
LEMMA HeadFunction ==
    ASSUME NEW V, NEW x \in Seq(V), NEW n \in 0..Len(x)
    PROVE  SubSeq(x, 1, n) = [q \in 1..n |-> x[q]] /\ SubSeq(x, 1, n) \in [1..n -> V]
<1>. DEFINE y == SubSeq(x, 1, n)
            z == [q \in 1..n |-> x[q]]
<1>1. y \in Seq(V) /\ Len(y) = n /\ \A i \in 1..n : y[i] = x[i]
  BY HeadOf
<1>2. z \in [1..n -> V]
  BY LenProperties
<1>3. n \in Nat
  BY LenProperties
<1>. HIDE DEF y
<1>4. y \in [1..n -> V]
  BY <1>1, LenProperties
<1>5. \A i \in 1..n : y[i] = z[i]
  BY <1>1
<1>6. y = z
  <2>. HIDE DEF z
  <2>. QED
    BY <1>2, <1>4, <1>5
<1>. QED
  BY <1>4, <1>6 DEF y, z

\* The row of position p.
LEMMA RowIs ==
    ASSUME Disk!KvDiskAssumption, NEW c \in Seq(Tokens), Len(c) <= Top,
           NEW p \in 1..Len(c), run.dims \in Dims
    PROVE  /\ Disk!Row(c, p) \in Disk!Rows /\ Disk!Row(c, p).tok = c[p]
           /\ Disk!Row(c, p).of = [q \in 1..p |-> c[q]] /\ Disk!Row(c, p).of # <<>>
<1>1. p \in 0..Len(c) /\ p \in 1..Top /\ c[p] \in Tokens /\ Top \in Nat
  BY TopIs
<1>. DEFINE o == SubSeq(c, 1, p)
<1>2. o = [q \in 1..p |-> c[q]] /\ o \in [1..p -> Tokens]
  BY <1>1, HeadFunction
<1>3. o # <<>>
  <2>1. o \in Seq(Tokens) /\ Len(o) = p
    BY <1>1, HeadOf
  <2>. HIDE DEF o
  <2>. QED
    BY <1>1, <2>1, EmptySeq
<1>4. o \in Disk!Conversations(Top)
  <2>1. p \in 0..Top
    BY <1>1
  <2>. HIDE DEF o
  <2>. QED
    BY <1>2, <2>1 DEF Disk!Conversations
<1>5. Disk!Row(c, p) = [tok |-> c[p], of |-> o, dims |-> run.dims]
  BY DEF Disk!Row
<1>. HIDE DEF o
<1>6. Disk!Row(c, p) \in Disk!Rows
  BY <1>1, <1>4, <1>5 DEF Disk!Rows, Top
<1>7. o # <<>> /\ o = [q \in 1..p |-> c[q]]
  BY <1>2, <1>3 DEF o
<1>8. Disk!Row(c, p).tok = c[p] /\ Disk!Row(c, p).of = o
  BY <1>5
<1>. QED
  BY <1>6, <1>7, <1>8

LEMMA DiskInit == ASSUME Disk!KvDiskAssumption, Disk!Init PROVE DiskInv
<1>1. (CHOOSE d \in Dims : TRUE) \in Dims /\ (CHOOSE n \in Limits : TRUE) \in Limits
  BY DEF Disk!KvDiskAssumption
<1>2. /\ file = [state |-> "none", dims |-> CHOOSE d \in Dims : TRUE, nrec |-> 0, recs |-> <<>>]
      /\ kv = <<>> /\ step = "down" /\ cut = 0 /\ at = 0 /\ diskNrec = 0
      /\ run = [limit |-> CHOOSE n \in Limits : TRUE, dims |-> CHOOSE d \in Dims : TRUE]
  BY DEF Disk!Init, Disk!NoFile
<1>3. Top \in Nat /\ <<>> \in Seq(Disk!Rows) /\ Len(<<>>) = 0
  BY TopIs, EmptySeq
<1>4. DiskTypes
  BY <1>1, <1>2, <1>3 DEF DiskTypes
<1>5. Places /\ Backed /\ Truth
  BY <1>2, <1>3 DEF Places, Backed, Truth, TrueRows
<1>. QED
  BY <1>4, <1>5 DEF DiskInv

\* What is in DiskTypes, field by field.
LEMMA FileIs ==
    ASSUME DiskTypes
    PROVE  /\ file.state \in {"none", "empty", "ok"} /\ file.dims \in Dims
           /\ file.nrec \in 0..Top /\ file.recs \in Seq(Disk!Rows) /\ Len(file.recs) \in Nat
           /\ run.limit \in Limits /\ run.dims \in Dims /\ Len(kv) \in Nat
           /\ \A p \in 1..Len(file.recs) : file.recs[p] \in Disk!Rows
           /\ \A p \in 1..Len(kv) : kv[p] \in Disk!Rows
<1>1. file.recs \in Seq(Disk!Rows) /\ kv \in Seq(Disk!Rows)
  BY DEF DiskTypes
<1>2. /\ Len(file.recs) \in Nat /\ Len(kv) \in Nat
      /\ \A p \in 1..Len(file.recs) : file.recs[p] \in Disk!Rows
      /\ \A p \in 1..Len(kv) : kv[p] \in Disk!Rows
  BY <1>1
<1>. QED
  BY <1>1, <1>2 DEF DiskTypes

\* A record is read back as a row; with one set of dimensions, as it was.
LEMMA ReadIs ==
    ASSUME NEW r \in Disk!Rows, NEW d \in Dims, Top \in Nat
    PROVE  Disk!ReadAs(r, d) \in Disk!Rows /\ (SameDims => Disk!ReadAs(r, d) = r)
<1>1. r \in [tok : Tokens, of : Disk!Conversations(Top), dims : Dims]
  BY DEF Disk!Rows, Top
<1>2. <<>> \in Disk!Conversations(Top)
  <2>1. <<>> \in [1..0 -> Tokens] /\ 0 \in 0..Top
    OBVIOUS
  <2>. QED
    BY <2>1 DEF Disk!Conversations
<1>3. Disk!ReadAs(r, d) \in [tok : Tokens, of : Disk!Conversations(Top), dims : Dims]
  BY <1>1, <1>2 DEF Disk!ReadAs
<1>4. SameDims => r.dims = d
  BY <1>1 DEF SameDims
<1>. QED
  BY <1>3, <1>4 DEF Disk!Rows, Top, Disk!ReadAs

\* kv_disk_load.
LEMMA StartStep ==
    ASSUME Disk!KvDiskAssumption, DiskInv, NEW limit \in Limits, NEW d \in Dims,
           Disk!Start(limit, d)
    PROVE  DiskInv'
<1>. DEFINE n == IF Disk!Resumable(limit, d) THEN file.nrec ELSE 0
<1>1. /\ step = "down" /\ run' = [limit |-> limit, dims |-> d] /\ step' = "idle"
      /\ kv' = IF Disk!Resumable(limit, d) THEN Disk!Promised(d) ELSE <<>>
      /\ diskNrec' = Len(kv') /\ UNCHANGED <<file, cut, at>>
  BY DEF Disk!Start
<1>2. /\ file.nrec \in 0..Top /\ file.recs \in Seq(Disk!Rows) /\ Len(file.recs) \in Nat
      /\ file.nrec <= Len(file.recs) /\ Top \in Nat
      /\ \A p \in 1..Len(file.recs) : file.recs[p] \in Disk!Rows
  BY FileIs, TopIs DEF DiskInv, Backed
<1>3. n \in 0..Top /\ n <= file.nrec
  BY <1>2
<1>4. /\ kv' \in Seq(Disk!Rows) /\ Len(kv') = n
      /\ \A p \in 1..n : kv'[p] = Disk!ReadAs(file.recs[p], d)
  <2>1. CASE ~Disk!Resumable(limit, d)
    BY <1>1, <2>1, EmptySeq
  <2>2. CASE Disk!Resumable(limit, d)
    <3>1. Disk!MinOf(file.nrec, Len(file.recs)) = n
      BY <1>2, <2>2 DEF Disk!MinOf
    <3>2. kv' = [p \in 1..n |-> Disk!ReadAs(file.recs[p], d)]
      BY <1>1, <2>2, <3>1 DEF Disk!Promised
    <3>. HIDE DEF n
    <3>3. \A p \in 1..n : Disk!ReadAs(file.recs[p], d) \in Disk!Rows
      BY <1>2, <1>3, ReadIs
    <3>4. kv' \in Seq(Disk!Rows)
      BY <1>2, <1>3, <3>2, <3>3
    <3>. QED
      BY <1>2, <1>3, <3>2, <3>4
  <2>. QED
    BY <2>1, <2>2
<1>5. Plain => \A p \in 1..n : kv'[p] = file.recs[p]
  <2>. HIDE DEF n
  <2>. QED
    BY <1>2, <1>3, <1>4, ReadIs DEF Plain
<1>6. Plain /\ ~Disk!Resumable(limit, d) => file.nrec = 0 \/ file.nrec >= limit
  BY <1>1, <1>2, FileIs, TopIs
     DEF DiskInv, Places, Plain, SameDims, Disk!Resumable
<1>7. Disk!Resumable(limit, d) => file.nrec < limit
  BY DEF Disk!Resumable
<1>. DEFINE k == kv'
<1>8. k = kv'
  OBVIOUS
<1>9. Plain => n = file.nrec \/ (n = 0 /\ file.nrec >= limit)
  BY <1>2, <1>6
<1>10. n > 0 => file.nrec < limit /\ n = file.nrec
  BY <1>7
<1>11. run'.limit = limit
  BY <1>1
<1>. HIDE DEF n
<1>12. DiskTypes'
  BY <1>1, <1>2, <1>3, <1>4 DEF DiskInv, DiskTypes
<1>13. diskNrec' = n /\ file' = file
  BY <1>1, <1>4
<1>14. Filed'
  <2>1. n <= Len(file.recs)
    BY <1>2, <1>3
  <2>2. Written(diskNrec)'
    BY <1>5, <1>13, <2>1 DEF Written
  <2>. QED
    BY <1>9, <1>11, <1>13, <2>2 DEF Filed
<1>15. Places'
  BY <1>1, <1>14 DEF DiskInv, Places
<1>16. Backed'
  BY <1>1, <1>4 DEF DiskInv, Backed, Have
<1>17. Truth'
  <2>1. ASSUME Plain, SameLimit
        PROVE  /\ file.nrec < limit => TrueRows(file.recs, file.nrec)
               /\ TrueRows(kv', n)
    <3>1. limit = run.limit
      BY <2>1, FileIs DEF DiskInv, SameLimit
    <3>2. file.nrec < limit => TrueRows(file.recs, file.nrec)
      BY <2>1, <3>1 DEF DiskInv, Truth
    <3>3. n > 0 => TrueRows(file.recs, n)
      BY <1>10, <3>2
    <3>4. TrueRows(kv', n)
      <4>1. ASSUME NEW p \in 1..n PROVE kv'[p].of = [q \in 1..p |-> kv'[q].tok]
        <5>1. n > 0 /\ p \in 1..n /\ \A q \in 1..p : q \in 1..n
          BY <1>3
        <5>2. file.recs[p].of = [q \in 1..p |-> file.recs[q].tok]
          BY <3>3, <5>1 DEF TrueRows
        <5>3. kv'[p] = file.recs[p] /\ \A q \in 1..p : kv'[q] = file.recs[q]
          BY <1>5, <2>1, <5>1
        <5>. QED
          BY <5>2, <5>3
      <4>. QED
        BY <4>1 DEF TrueRows
    <3>. QED
      BY <3>2, <3>4
  <2>. QED
    BY <1>1, <1>4, <1>11, <2>1 DEF Truth
<1>. QED
  BY <1>12, <1>15, <1>16, <1>17 DEF DiskInv

\* The end of a turn.
LEMMA ConverseStep ==
    ASSUME Disk!KvDiskAssumption, DiskInv, NEW c \in Disk!Conversations(Top), Disk!Converse(c)
    PROVE  DiskInv'
<1>. DEFINE s == Disk!Shared(c)
<1>1. /\ step = "idle" /\ Len(c) >= 1 /\ Len(c) <= run.limit + Slack
      /\ kv' = [p \in 1..Len(c) |-> IF p <= s THEN kv[p] ELSE Disk!Row(c, p)]
      /\ cut' = s /\ step' = IF s < Len(kv) THEN "truncate" ELSE "append"
      /\ UNCHANGED <<file, run, at, diskNrec>>
  BY DEF Disk!Converse
<1>2. c \in Seq(Tokens) /\ Len(c) \in Nat /\ Len(c) <= Top /\ Len(c) \in 0..Top
  <2>1. PICK k \in 0..Top : c \in [1..k -> Tokens]
    BY DEF Disk!Conversations
  <2>2. Top \in Nat
    BY TopIs
  <2>3. c \in Seq(Tokens) /\ Len(c) = k
    BY <2>1, <2>2
  <2>. QED
    BY <2>2, <2>3
<1>3. /\ Len(kv) \in Nat /\ run.dims \in Dims /\ \A p \in 1..Len(kv) : kv[p] \in Disk!Rows
      /\ diskNrec = Len(kv) /\ Filed
  BY <1>1, FileIs DEF DiskInv, Places
<1>4. s \in Nat /\ s <= Len(c) /\ s <= Len(kv) /\ \A p \in 1..s : c[p] = kv[p].tok
  BY <1>2, <1>3, SharedIs
<1>. HIDE DEF s
<1>5. ASSUME NEW p \in 1..Len(c)
      PROVE  /\ kv'[p] \in Disk!Rows /\ kv'[p].tok = c[p]
             /\ kv'[p] = IF p <= s THEN kv[p] ELSE Disk!Row(c, p)
             /\ p > s => kv'[p].of = [q \in 1..p |-> c[q]] /\ kv'[p].of # <<>>
  <2>1. kv'[p] = IF p <= s THEN kv[p] ELSE Disk!Row(c, p)
    BY <1>1
  <2>2. CASE p <= s
    <3>1. p \in 1..s /\ p \in 1..Len(kv)
      BY <1>4, <2>2
    <3>. QED
      BY <1>3, <1>4, <2>1, <2>2, <3>1
  <2>3. CASE p > s
    <3>1. kv'[p] = Disk!Row(c, p)
      BY <1>2, <1>4, <2>1, <2>3
    <3>2. /\ Disk!Row(c, p) \in Disk!Rows /\ Disk!Row(c, p).tok = c[p]
          /\ Disk!Row(c, p).of = [q \in 1..p |-> c[q]] /\ Disk!Row(c, p).of # <<>>
      BY <1>2, <1>3, RowIs
    <3>. QED
      BY <2>1, <3>1, <3>2
  <2>. QED
    BY <1>2, <1>4, <2>2, <2>3
<1>6. kv' \in Seq(Disk!Rows) /\ Len(kv') = Len(c) /\ Len(kv') <= Top
  <2>1. kv' = [p \in 1..Len(c) |-> kv'[p]] /\ DOMAIN kv' = 1..Len(c)
    BY <1>1
  <2>2. kv' \in [1..Len(c) -> Disk!Rows]
    BY <1>5, <2>1
  <2>. QED
    BY <1>2, <2>2
<1>7. \A p \in 1..s : p \in 1..Len(c) /\ p \in 1..Len(kv) /\ kv'[p] = kv[p]
  <2>1. ASSUME NEW p \in 1..s PROVE p \in 1..Len(c) /\ p \in 1..Len(kv) /\ kv'[p] = kv[p]
    <3>1. p \in 1..Len(c) /\ p \in 1..Len(kv) /\ p <= s
      BY <1>2, <1>3, <1>4
    <3>2. kv'[p] = IF p <= s THEN kv[p] ELSE Disk!Row(c, p)
      BY <1>5, <3>1
    <3>. QED
      BY <3>1, <3>2
  <2>. QED
    BY <2>1
<1>8. DiskTypes'
  BY <1>1, <1>4, <1>6 DEF DiskInv, DiskTypes
<1>9. /\ s <= Len(file.recs)
      /\ Plain => \A p \in 1..s : file.recs[p] = kv'[p]
  <2>1. Len(file.recs) \in Nat /\ Len(kv) <= Len(file.recs)
    BY <1>3, FileIs DEF DiskInv, Filed, Written
  <2>. QED
    BY <1>3, <1>4, <1>7, <2>1 DEF Filed, Written
<1>10. Places'
  <2>1. CASE s < Len(kv)
    <3>1. step' = "truncate" /\ cut' = s /\ file' = file
      BY <1>1, <2>1
    <3>2. Written(cut)'
      BY <1>4, <1>9, <3>1, FileIs DEF DiskInv, Written
    <3>. QED
      BY <1>1, <1>4, <1>6, <3>1, <3>2 DEF DiskInv, Places
  <2>2. CASE ~(s < Len(kv))
    <3>1. step' = "append" /\ s = diskNrec /\ diskNrec' = s /\ file' = file /\ run' = run
      BY <1>1, <1>3, <1>4, <2>2
    <3>2. Written(diskNrec)'
      BY <1>3, <1>9, <3>1 DEF Written, Filed
    <3>3. Filed'
      BY <1>3, <3>1, <3>2 DEF Filed
    <3>. QED
      BY <1>1, <1>4, <1>6, <3>1, <3>3 DEF DiskInv, Places
  <2>. QED
    BY <2>1, <2>2
<1>11. Backed'
  <2>1. Have' = s
    BY <1>1, <1>3, <1>4 DEF Have
  <2>2. ASSUME NEW p \in 1..Len(kv'), kv'[p].of = <<>> PROVE p <= s
    <3>1. p \in 1..Len(c) /\ p \in Int /\ s \in Int
      BY <1>2, <1>4, <1>6
    <3>2. ~(p > s)
      BY <1>5, <2>2, <3>1
    <3>. QED
      BY <3>1, <3>2
  <2>. QED
    BY <1>1, <2>1, <2>2 DEF DiskInv, Backed
<1>12. Truth'
  <2>1. ASSUME Plain, SameLimit, NEW p \in 1..Len(c)
        PROVE  kv'[p].of = [q \in 1..p |-> kv'[q].tok]
    <3>1. \A q \in 1..p : q \in 1..Len(c) /\ kv'[q].tok = c[q]
      <4>1. \A q \in 1..p : q \in 1..Len(c)
        BY <1>2
      <4>. QED
        BY <1>5, <4>1
    <3>2. CASE p > s
      BY <1>5, <3>1, <3>2
    <3>3. CASE p <= s
      <4>1. p \in 1..s /\ p \in 1..Len(kv) /\ kv'[p] = kv[p]
        BY <1>4, <1>7, <3>3
      <4>2. kv[p].of = [q \in 1..p |-> kv[q].tok]
        BY <2>1, <4>1 DEF DiskInv, Truth, TrueRows
      <4>3. \A q \in 1..p : q \in 1..s
        BY <1>4, <4>1
      <4>4. \A q \in 1..p : kv'[q] = kv[q]
        BY <1>7, <4>3
      <4>. QED
        BY <4>1, <4>2, <4>4
    <3>. QED
      BY <1>2, <1>4, <3>2, <3>3
  <2>2. Plain /\ SameLimit => TrueRows(kv', Len(c))
    BY <2>1 DEF TrueRows
  <2>. QED
    BY <1>1, <1>6, <2>2 DEF DiskInv, Truth
<1>. QED
  BY <1>8, <1>10, <1>11, <1>12 DEF DiskInv

\* kv_disk_truncate.
LEMMA TruncateStep ==
    ASSUME Disk!KvDiskAssumption, DiskInv, Opens, Disk!Truncate PROVE DiskInv'
<1>1. /\ step = "truncate" /\ step' = "append" /\ UNCHANGED <<kv, run, cut, at>>
      /\ cut <= Len(kv) /\ Written(cut)
  BY DEF Disk!Truncate, DiskInv, Places
<1>2. /\ file.nrec \in 0..Top /\ Len(file.recs) \in Nat /\ Len(kv) \in Nat /\ Len(kv) <= Top
      /\ cut \in Nat /\ Top \in Nat
      /\ file \in [state : {"none", "empty", "ok"}, dims : Dims, nrec : 0..Top,
                   recs : Seq(Disk!Rows)]
  BY FileIs, TopIs DEF DiskInv, DiskTypes
<1>3. "open" \notin Faults
  BY DEF Opens
<1>4. CASE file.state # "none" /\ Disk!TruncateTo(cut)
  <2>1. file' = [file EXCEPT !.nrec = cut] /\ diskNrec' = cut
    BY <1>4 DEF Disk!TruncateTo
  <2>2. /\ file'.nrec = cut /\ file'.recs = file.recs /\ file'.state = file.state
    BY <1>2, <2>1
  <2>3. DiskTypes'
    <3>1. cut \in 0..Top
      BY <1>1, <1>2
    <3>2. file' \in [state : {"none", "empty", "ok"}, dims : Dims, nrec : 0..Top,
                     recs : Seq(Disk!Rows)]
      BY <1>2, <2>1, <3>1
    <3>. QED
      BY <1>1, <2>1, <3>1, <3>2 DEF DiskInv, DiskTypes
  <2>4. Written(diskNrec)' /\ Filed'
    BY <1>1, <2>1, <2>2 DEF Written, Filed
  <2>5. Places'
    BY <1>1, <1>4, <2>1, <2>2, <2>4 DEF DiskInv, Places
  <2>6. Backed'
    BY <1>1, <2>1, <2>2 DEF DiskInv, Backed, Have, Written
  <2>7. Truth'
    <3>1. ASSUME Plain, SameLimit PROVE TrueRows(file.recs, cut)
      <4>1. ASSUME NEW p \in 1..cut PROVE file.recs[p].of = [q \in 1..p |-> file.recs[q].tok]
        <5>1. p \in 1..Len(kv) /\ \A q \in 1..p : q \in 1..cut
          BY <1>1, <1>2
        <5>2. kv[p].of = [q \in 1..p |-> kv[q].tok]
          BY <3>1, <5>1 DEF DiskInv, Truth, TrueRows
        <5>3. file.recs[p] = kv[p] /\ \A q \in 1..p : file.recs[q] = kv[q]
          BY <1>1, <3>1, <5>1 DEF Written
        <5>. QED
          BY <5>2, <5>3
      <4>. QED
        BY <4>1 DEF TrueRows
    <3>. QED
      BY <1>1, <2>2, <3>1 DEF DiskInv, Truth
  <2>. QED
    BY <2>3, <2>5, <2>6, <2>7 DEF DiskInv
<1>5. CASE file.state = "none" /\ diskNrec' = 0 /\ UNCHANGED file
  <2>1. file.nrec = 0 /\ file.recs = <<>> /\ Len(file.recs) = 0 /\ cut = 0
    BY <1>1, <1>2, <1>5 DEF DiskInv, Places, Written
  <2>2. DiskTypes'
    BY <1>1, <1>2, <1>5 DEF DiskInv, DiskTypes
  <2>3. Written(diskNrec)' /\ Filed'
    BY <1>1, <1>5, <2>1 DEF Written, Filed
  <2>4. Places'
    BY <1>1, <1>2, <1>5, <2>3 DEF DiskInv, Places
  <2>5. Backed'
    BY <1>1, <1>5, <2>1 DEF DiskInv, Backed, Have
  <2>6. Truth'
    BY <1>1, <1>5 DEF DiskInv, Truth
  <2>. QED
    BY <2>2, <2>4, <2>5, <2>6 DEF DiskInv
<1>. QED
  BY <1>3, <1>4, <1>5 DEF Disk!Truncate

\* One record more in the file, at the end of those that hold the rows or over
\* an old one: no hole.
LEMMA StoredIs ==
    ASSUME DiskTypes, NEW n \in Nat, n < Len(kv), n <= Len(file.recs)
    PROVE  /\ Disk!Stored(n) \in Seq(Disk!Rows) /\ Len(file.recs) <= Len(Disk!Stored(n))
           /\ n + 1 <= Len(Disk!Stored(n)) /\ n + 1 <= Len(kv)
           /\ \A p \in 1..Len(Disk!Stored(n)) :
                 IF p = n + 1 THEN Disk!Stored(n)[p] = kv[n + 1]
                 ELSE p \in 1..Len(file.recs) /\ Disk!Stored(n)[p] = file.recs[p]
<1>. DEFINE l == Len(file.recs)
            k == n + 1
            m == Disk!MaxOf({l, k})
            f == Disk!Stored(n)
<1>1. /\ l \in Nat /\ k \in Nat /\ k >= 1 /\ n <= l /\ k <= Len(kv) /\ Len(kv) \in Nat
      /\ \A p \in 1..l : file.recs[p] \in Disk!Rows
      /\ \A p \in 1..Len(kv) : kv[p] \in Disk!Rows
  BY FileIs
<1>2. f = [p \in 1..m |-> IF p = k THEN kv[p]
                          ELSE IF p <= l THEN file.recs[p] ELSE Disk!Hole]
  BY DEF Disk!Stored
<1>3. k <= l + 1
  BY <1>1
<1>4. m \in {l, k} /\ l <= m /\ k <= m
  <2>. HIDE DEF l, k, m
  <2>1. \E x \in {l, k} : \A y \in {l, k} : x >= y
    BY <1>1
  <2>2. m = CHOOSE x \in {l, k} : \A y \in {l, k} : x >= y
    BY DEF m, Disk!MaxOf
  <2>3. m \in {l, k} /\ \A y \in {l, k} : m >= y
    BY <2>1, <2>2
  <2>. QED
    BY <1>1, <2>3
<1>. HIDE DEF l, k, m, f
<1>5. ASSUME NEW p \in 1..m
      PROVE  /\ f[p] \in Disk!Rows
             /\ IF p = k THEN f[p] = kv[k] ELSE p \in 1..l /\ f[p] = file.recs[p]
  <2>1. CASE p = k
    <3>1. f[p] = kv[k] /\ k \in 1..Len(kv)
      BY <1>1, <1>2, <2>1
    <3>. QED
      BY <1>1, <2>1, <3>1
  <2>2. CASE p # k
    <3>1. p \in 1..l
      BY <1>1, <1>3, <1>4, <2>2
    <3>2. f[p] = file.recs[p]
      BY <1>1, <1>2, <2>2, <3>1
    <3>. QED
      BY <1>1, <2>2, <3>1, <3>2
  <2>. QED
    BY <2>1, <2>2
<1>6. f \in Seq(Disk!Rows) /\ Len(f) = m
  <2>1. m \in Nat
    BY <1>1, <1>4
  <2>2. f \in [1..m -> Disk!Rows]
    BY <1>2, <1>5
  <2>. QED
    BY <2>1, <2>2
<1>. QED
  BY <1>1, <1>4, <1>5, <1>6 DEF l, k, f

\* kv_disk_append, one record.
LEMMA RecordStep ==
    ASSUME Disk!KvDiskAssumption, DiskInv, Disk!WriteRecord PROVE DiskInv'
<1>. DEFINE f == Disk!Stored(at)
<1>1. /\ step = "records" /\ at < Len(kv) /\ file' = [file EXCEPT !.recs = f]
      /\ at' = at + 1 /\ UNCHANGED <<kv, run, step, cut, diskNrec>>
      /\ diskNrec <= at /\ Written(at) /\ Filed /\ file.state # "none" /\ DiskTypes
  BY DEF Disk!WriteRecord, DiskInv, Places
<1>2. /\ at \in Nat /\ at <= Len(file.recs) /\ Len(file.recs) \in Nat /\ Len(kv) \in Nat
      /\ Len(kv) <= Top /\ diskNrec \in Nat /\ Top \in Nat /\ file.nrec \in Nat
      /\ file \in [state : {"none", "empty", "ok"}, dims : Dims, nrec : 0..Top,
                   recs : Seq(Disk!Rows)]
  BY <1>1, FileIs, TopIs DEF DiskTypes, Written
<1>3. /\ f \in Seq(Disk!Rows) /\ Len(file.recs) <= Len(f) /\ at + 1 <= Len(f)
      /\ at + 1 <= Len(kv) /\ Len(f) \in Nat
      /\ \A p \in 1..Len(f) : IF p = at + 1 THEN f[p] = kv[at + 1]
                              ELSE p \in 1..Len(file.recs) /\ f[p] = file.recs[p]
  BY <1>1, <1>2, StoredIs
<1>. HIDE DEF f
<1>4. /\ file'.recs = f /\ file'.nrec = file.nrec /\ file'.state = file.state
      /\ file' \in [state : {"none", "empty", "ok"}, dims : Dims, nrec : 0..Top,
                    recs : Seq(Disk!Rows)]
  BY <1>1, <1>2, <1>3
<1>5. \A p \in 1..at : p \in 1..Len(f) /\ f[p] = file.recs[p]
  BY <1>2, <1>3
<1>6. DiskTypes'
  BY <1>1, <1>2, <1>3, <1>4 DEF DiskTypes
<1>7. Written(diskNrec)' /\ Written(at)'
  <2>1. ASSUME Plain, NEW p \in 1..at + 1 PROVE f[p] = kv[p]
    <3>1. CASE p = at + 1
      BY <1>2, <1>3, <3>1
    <3>2. CASE p # at + 1
      BY <1>1, <1>2, <1>5, <2>1, <3>2 DEF Written
    <3>. QED
      BY <3>1, <3>2
  <2>2. diskNrec <= at + 1 /\ at + 1 <= Len(f) /\ \A p \in 1..diskNrec : p \in 1..at + 1
    BY <1>1, <1>2, <1>3
  <2>3. diskNrec <= Len(f)
    BY <1>2, <1>3, <2>2
  <2>. QED
    BY <1>1, <1>4, <2>1, <2>2, <2>3 DEF Written
<1>8. Filed'
  BY <1>1, <1>4, <1>7 DEF Filed
<1>9. Places'
  BY <1>1, <1>2, <1>3, <1>4, <1>7, <1>8 DEF DiskInv, Places
<1>10. Backed'
  <2>1. \A p \in 1..Len(file.recs) : file.recs[p].of # <<>>
    BY DEF DiskInv, Backed
  <2>2. kv[at + 1].of # <<>>
    <3>1. at + 1 \in 1..Len(kv) /\ ~(at + 1 <= diskNrec)
      BY <1>1, <1>2, <1>3
    <3>2. Have = diskNrec
      BY <1>1 DEF Have
    <3>. QED
      BY <3>1, <3>2 DEF DiskInv, Backed
  <2>3. \A p \in 1..Len(f) : f[p].of # <<>>
    BY <1>3, <2>1, <2>2
  <2>4. file.nrec <= Len(file.recs)
    BY DEF DiskInv, Backed
  <2>5. file.nrec <= Len(f)
    BY <1>2, <1>3, <2>4
  <2>6. Have' = Have /\ \A p \in 1..Len(kv) : kv[p].of = <<>> => p <= Have
    BY <1>1 DEF DiskInv, Backed, Have
  <2>. QED
    BY <1>1, <1>4, <2>3, <2>5, <2>6 DEF Backed
<1>11. Truth'
  <2>1. ASSUME Plain, SameLimit, file.nrec < run.limit PROVE TrueRows(f, file.nrec)
    <3>1. TrueRows(file.recs, file.nrec)
      BY <2>1 DEF DiskInv, Truth
    <3>2. run.limit \in Nat
      BY <1>1, FileIs, TopIs
    <3>3. file.nrec <= at
      BY <1>1, <1>2, <2>1, <3>2 DEF Filed
    <3>4. ASSUME NEW p \in 1..file.nrec PROVE f[p].of = [q \in 1..p |-> f[q].tok]
      <4>1. p \in 1..at /\ \A q \in 1..p : q \in 1..at
        BY <1>2, <3>3
      <4>2. file.recs[p].of = [q \in 1..p |-> file.recs[q].tok]
        BY <3>1 DEF TrueRows
      <4>3. f[p] = file.recs[p] /\ \A q \in 1..p : f[q] = file.recs[q]
        BY <1>5, <4>1
      <4>. QED
        BY <4>2, <4>3
    <3>. QED
      BY <3>4 DEF TrueRows
  <2>. QED
    BY <1>1, <1>4, <2>1 DEF DiskInv, Truth
<1>. QED
  BY <1>6, <1>9, <1>10, <1>11 DEF DiskInv

\* kv_disk_append, the counter.
LEMMA CounterStep ==
    ASSUME Disk!KvDiskAssumption, DiskInv, Disk!WriteCounter PROVE DiskInv'
<1>. DEFINE n == Len(kv)
<1>1. /\ step = "records" /\ at >= n /\ at <= n /\ file' = [file EXCEPT !.nrec = n]
      /\ diskNrec' = n /\ step' = "idle" /\ UNCHANGED <<kv, run, cut, at>>
      /\ diskNrec <= n /\ Written(at) /\ file.state # "none" /\ DiskTypes
  BY DEF Disk!WriteCounter, DiskInv, Places
<1>2. /\ n \in 0..Top /\ n \in Nat /\ at \in Nat
      /\ file \in [state : {"none", "empty", "ok"}, dims : Dims, nrec : 0..Top,
                   recs : Seq(Disk!Rows)]
  BY <1>1, FileIs, TopIs DEF DiskTypes
<1>3. at = n
  BY <1>1, <1>2
<1>4. /\ file'.nrec = n /\ file'.recs = file.recs /\ file'.state = file.state
      /\ file' \in [state : {"none", "empty", "ok"}, dims : Dims, nrec : 0..Top,
                   recs : Seq(Disk!Rows)]
  BY <1>1, <1>2
<1>5. Written(n)
  BY <1>1, <1>3
<1>6. DiskTypes'
  BY <1>1, <1>2, <1>4 DEF DiskTypes
<1>7. Written(diskNrec)' /\ Filed'
  BY <1>1, <1>4, <1>5 DEF Written, Filed
<1>8. Places'
  BY <1>1, <1>4, <1>7 DEF DiskInv, Places
<1>9. Backed'
  <2>1. n <= Len(file.recs)
    BY <1>5 DEF Written
  <2>2. \A p \in 1..n : p <= n
    BY <1>2
  <2>. QED
    BY <1>1, <1>4, <2>1, <2>2 DEF DiskInv, Backed, Have
<1>10. Truth'
  <2>1. ASSUME Plain, SameLimit PROVE TrueRows(file.recs, n) /\ TrueRows(kv, n)
    <3>1. TrueRows(kv, n)
      BY <2>1 DEF DiskInv, Truth
    <3>2. ASSUME NEW p \in 1..n PROVE file.recs[p].of = [q \in 1..p |-> file.recs[q].tok]
      <4>1. \A q \in 1..p : q \in 1..n
        BY <1>2
      <4>2. file.recs[p] = kv[p] /\ \A q \in 1..p : file.recs[q] = kv[q]
        BY <1>5, <2>1, <4>1 DEF Written
      <4>. QED
        BY <3>1, <4>2 DEF TrueRows
    <3>. QED
      BY <3>1, <3>2 DEF TrueRows
  <2>. QED
    BY <1>1, <1>4, <2>1 DEF Truth
<1>. QED
  BY <1>6, <1>8, <1>9, <1>10 DEF DiskInv

\* RESET, the parts of an append that write no record, and the end of the process.
LEMMA DiskQuiet ==
    ASSUME Disk!KvDiskAssumption, DiskInv, Opens,
           \/ Disk!Reset \/ Disk!AppendSkipped \/ Disk!Create \/ Disk!Header
           \/ Disk!AppendBegins \/ Disk!Stop \/ UNCHANGED diskVars
    PROVE  DiskInv'
<1>1. /\ DiskTypes /\ Places /\ Backed /\ Truth
      /\ file.nrec \in 0..Top /\ Len(file.recs) \in Nat /\ Len(kv) \in Nat /\ Top \in Nat
      /\ diskNrec \in 0..Top /\ run.dims \in Dims
      /\ file \in [state : {"none", "empty", "ok"}, dims : Dims, nrec : 0..Top,
                   recs : Seq(Disk!Rows)]
  BY FileIs, TopIs DEF DiskInv, DiskTypes
<1>2. <<>> \in Seq(Disk!Rows) /\ Len(<<>>) = 0
  BY EmptySeq
<1>3. CASE Disk!Reset
  <2>1. /\ kv' = <<>> /\ cut' = 0 /\ step' = "truncate" /\ step = "idle"
        /\ UNCHANGED <<file, run, at, diskNrec>>
    BY <1>3 DEF Disk!Reset
  <2>2. Written(cut)'
    BY <1>1, <1>2, <2>1 DEF Written
  <2>3. DiskTypes' /\ Places'
    BY <1>1, <1>2, <2>1, <2>2 DEF DiskTypes, Places
  <2>4. Backed' /\ Truth'
    BY <1>1, <1>2, <2>1 DEF Backed, Truth, TrueRows
  <2>. QED
    BY <2>3, <2>4 DEF DiskInv
<1>4. CASE Disk!AppendSkipped
  <2>1. /\ step = "append" /\ step' = "idle" /\ UNCHANGED <<file, kv, run, cut, at, diskNrec>>
        /\ Len(kv) <= diskNrec
    BY <1>4 DEF Disk!AppendSkipped, Opens
  <2>2. Filed' /\ diskNrec' = Len(kv')
    BY <1>1, <2>1 DEF Places, Filed, Written
  <2>3. DiskTypes' /\ Places'
    BY <1>1, <2>1, <2>2 DEF DiskTypes, Places
  <2>4. Backed' /\ Truth'
    BY <1>1, <2>1 DEF Backed, Have, Truth, TrueRows
  <2>. QED
    BY <2>3, <2>4 DEF DiskInv
<1>5. CASE Disk!Create
  <2>1. /\ step = "append" /\ step' = "create" /\ UNCHANGED <<kv, run, cut, at, diskNrec>>
        /\ file' = [file EXCEPT !.state = "empty", !.nrec = 0, !.recs = <<>>]
        /\ file.state = "none"
    BY <1>5 DEF Disk!Create
  <2>2. file.nrec = 0 /\ file.recs = <<>>
    BY <1>1, <2>1 DEF Places
  <2>3. /\ file'.state = "empty" /\ file'.nrec = 0 /\ file'.recs = <<>>
        /\ file' \in [state : {"none", "empty", "ok"}, dims : Dims, nrec : 0..Top,
                      recs : Seq(Disk!Rows)]
    BY <1>1, <2>1, <2>2
  <2>4. Filed'
    BY <1>1, <2>1, <2>2, <2>3 DEF Places, Filed, Written
  <2>5. DiskTypes' /\ Places'
    BY <1>1, <2>1, <2>3, <2>4 DEF DiskTypes, Places
  <2>6. Backed' /\ Truth'
    BY <1>1, <2>1, <2>2, <2>3 DEF Backed, Have, Truth, TrueRows
  <2>. QED
    BY <2>5, <2>6 DEF DiskInv
<1>6. CASE Disk!Header
  <2>1. /\ step = "create" /\ step' = "append" /\ UNCHANGED <<kv, run, cut, at, diskNrec>>
        /\ file' = [file EXCEPT !.state = "ok", !.dims = run.dims, !.nrec = 0]
    BY <1>6 DEF Disk!Header
  <2>2. file.nrec = 0 /\ file.recs = <<>>
    BY <1>1, <2>1 DEF Places
  <2>3. /\ file'.state = "ok" /\ file'.nrec = 0 /\ file'.recs = <<>>
        /\ file' \in [state : {"none", "empty", "ok"}, dims : Dims, nrec : 0..Top,
                      recs : Seq(Disk!Rows)]
    BY <1>1, <2>1, <2>2
  <2>4. Filed'
    BY <1>1, <2>1, <2>2, <2>3 DEF Places, Filed, Written
  <2>5. DiskTypes' /\ Places'
    BY <1>1, <2>1, <2>3, <2>4 DEF DiskTypes, Places
  <2>6. Backed' /\ Truth'
    BY <1>1, <2>1, <2>2, <2>3 DEF Backed, Have, Truth, TrueRows
  <2>. QED
    BY <2>5, <2>6 DEF DiskInv
<1>7. CASE Disk!AppendBegins
  <2>1. /\ step = "append" /\ step' = "records" /\ at' = diskNrec /\ file.state # "none"
        /\ UNCHANGED <<file, kv, run, cut, diskNrec>>
    BY <1>7 DEF Disk!AppendBegins, Disk!FirstNew
  <2>2. Filed' /\ Written(at)'
    BY <1>1, <2>1 DEF Places, Filed, Written
  <2>3. DiskTypes' /\ Places'
    BY <1>1, <2>1, <2>2 DEF DiskTypes, Places
  <2>4. Backed' /\ Truth'
    BY <1>1, <2>1 DEF Backed, Have, Truth, TrueRows
  <2>. QED
    BY <2>3, <2>4 DEF DiskInv
<1>8. CASE Disk!Stop
  <2>1. /\ step # "down" /\ step' = "down" /\ kv' = <<>> /\ diskNrec' = 0
        /\ cut' = 0 /\ at' = 0 /\ UNCHANGED <<file, run>>
        /\ Plain => step # "create"
    BY <1>8 DEF Disk!Stop, Plain
  <2>2. DiskTypes' /\ Places'
    BY <1>1, <1>2, <2>1 DEF DiskTypes, Places
  <2>3. Backed'
    BY <1>1, <1>2, <2>1 DEF Backed
  <2>4. Truth'
    <3>1. TrueRows(kv, Len(kv))'
      BY <1>2, <2>1 DEF TrueRows
    <3>2. TrueRows(file.recs, file.nrec)' <=> TrueRows(file.recs, file.nrec)
      BY <2>1 DEF TrueRows
    <3>. QED
      BY <1>1, <2>1, <3>1, <3>2 DEF Truth
  <2>. QED
    BY <2>2, <2>3, <2>4 DEF DiskInv
<1>9. CASE UNCHANGED diskVars
  BY <1>1, <1>9 DEF diskVars, DiskInv, DiskTypes, Places, Backed, Truth, TrueRows, Filed,
                    Written, Have
<1>. QED
  BY <1>3, <1>4, <1>5, <1>6, <1>7, <1>8, <1>9

LEMMA DiskAlways == ASSUME Opens PROVE Spec => []DiskInv
<1>1. Disk!KvDiskAssumption
  BY GlmServeAssumption
<1>2. Init => DiskInv
  BY <1>1, DiskInit DEF Init
<1>3. DiskInv /\ [Next]_vars => DiskInv'
  <2>1. ASSUME DiskInv, Disk!Next \/ UNCHANGED diskVars PROVE DiskInv'
    BY <1>1, <2>1, StartStep, ConverseStep, TruncateStep, RecordStep, CounterStep, DiskQuiet
       DEF Disk!Next, Top
  <2>2. [Next]_vars => Disk!Next \/ UNCHANGED diskVars
    BY DEF Next, OneAtATime, Batched, vars
  <2>. QED
    BY <2>1, <2>2
<1>. QED
  BY <1>2, <1>3, PTL DEF Spec

-----------------------------------------------------------------------------
(* What the modes keep.                                                      *)

\* Whatever the starts have for dimensions and room, and wherever the process
\* dies, its header being written or not, the counter never outruns the records
\* (kv_disk_append: "dati prima, contatore poi"); in the other mode an id names
\* one request, budget and context suffice, a slot at rest is on disk, and the
\* loop ends with nobody waiting (run_serve_mux).  Only a kv_disk_append that
\* could not open the file or get its buffer breaks the first.
THEOREM ServesConsistently == ASSUME Opens PROVE Spec => []Consistent
<1>1. Mux!ServeMuxAssumption
  BY GlmServeAssumption
<1>2. ASSUME DiskInv PROVE Disk!TypeOK /\ Disk!DataFirst
  <2>1. /\ file.state \in {"none", "empty", "ok"} /\ file.dims \in Dims
        /\ file.nrec \in 0..Top /\ file.recs \in Seq(Disk!Rows) /\ Len(file.recs) \in Nat
        /\ \A p \in 1..Len(file.recs) : file.recs[p] \in Disk!Rows
        /\ \A p \in 1..Len(kv) : kv[p] \in Disk!Rows
    BY <1>2, FileIs DEF DiskInv
  <2>2. DOMAIN file.recs = 1..Len(file.recs) /\ DOMAIN kv = 1..Len(kv)
    BY <1>2, <2>1 DEF DiskInv, DiskTypes
  <2>3. Disk!TypeOK
    BY <1>2, <2>1, <2>2 DEF DiskInv, DiskTypes, Disk!TypeOK, Top
  <2>4. Disk!DataFirst
    BY <1>2, <2>1 DEF DiskInv, Backed, Disk!DataFirst
  <2>. QED
    BY <2>3, <2>4
<1>3. Spec => [](mode \in Modes)
  <2>1. Init => mode \in Modes
    BY DEF Init
  <2>2. mode \in Modes /\ [Next]_vars => (mode \in Modes)'
    BY DEF Next, OneAtATime, Batched, vars
  <2>. QED
    BY <2>1, <2>2, PTL DEF Spec
<1>4. ASSUME DiskInv, MuxInv, mode \in Modes PROVE Consistent
  BY <1>1, <1>2, <1>4, MuxConsistent DEF Consistent, TypeOK
<1>. QED
  BY <1>3, <1>4, DiskAlways, MuxAlways, PTL

\* With one set of dimensions and one limit, no fault, and a process that may die
\* between any two writes: the rows the engine resumes belong to the tokens of
\* one conversation, and between turns the file holds that conversation whole
\* (kv_disk_load, kv_disk_append, kv_disk_truncate).  With two limits the first
\* is false: the run kvdisk_resize has the counterexample.
THEOREM KeepsTheConversation ==
    ASSUME Faults = {}, SameDims, SameLimit PROVE Spec => []Durable
<1>1. Opens /\ Plain
  BY DEF Opens, Plain
<1>2. ASSUME DiskInv PROVE Disk!KvTrue
  <2>1. kv \in Seq(Disk!Rows) /\ Len(kv) \in Nat /\ DOMAIN kv = 1..Len(kv)
    BY <1>2 DEF DiskInv, DiskTypes
  <2>. DEFINE h == Disk!Hist
  <2>2. h = [p \in 1..Len(kv) |-> kv[p].tok]
    BY <2>1 DEF Disk!Hist
  <2>3. h \in Seq(Tokens) /\ Len(h) = Len(kv)
    <3>1. ASSUME NEW p \in 1..Len(kv) PROVE kv[p].tok \in Tokens
      <4>1. kv[p] \in Disk!Rows
        BY <2>1
      <4>. QED
        BY <4>1 DEF Disk!Rows
    <3>2. h \in [1..Len(kv) -> Tokens]
      BY <2>2, <3>1
    <3>. HIDE DEF h
    <3>. QED
      BY <2>1, <3>2
  <2>. HIDE DEF h
  <2>4. ASSUME NEW p \in 1..Len(kv) PROVE kv[p].of = SubSeq(h, 1, p)
    <3>1. p \in 0..Len(h) /\ \A q \in 1..p : q \in 1..Len(kv)
      BY <2>1, <2>3
    <3>2. SubSeq(h, 1, p) = [q \in 1..p |-> h[q]]
      BY <2>3, <3>1, HeadFunction
    <3>3. \A q \in 1..p : h[q] = kv[q].tok
      BY <2>2, <3>1
    <3>4. kv[p].of = [q \in 1..p |-> kv[q].tok]
      BY <1>1, <1>2 DEF DiskInv, Truth, TrueRows
    <3>. QED
      BY <3>2, <3>3, <3>4
  <2>. QED
    BY <2>1, <2>4 DEF Disk!KvTrue, h
<1>3. ASSUME DiskInv PROVE Disk!Durable
  <2>. SUFFICES ASSUME step = "idle", kv # <<>>
                PROVE  /\ file.state = "ok" /\ file.dims = run.dims
                       /\ Disk!Promised(run.dims) = kv
    BY DEF Disk!Durable
  <2>1. /\ kv \in Seq(Disk!Rows) /\ Len(kv) \in Nat /\ Len(kv) > 0 /\ Top \in Nat
        /\ file.state \in {"none", "empty", "ok"} /\ file.dims \in Dims /\ run.dims \in Dims
        /\ file.nrec \in Nat /\ Len(file.recs) \in Nat
        /\ \A p \in 1..Len(file.recs) : file.recs[p] \in Disk!Rows
    <3>1. kv \in Seq(Disk!Rows)
      BY <1>3 DEF DiskInv, DiskTypes
    <3>2. Len(kv) \in Nat /\ Len(kv) > 0
      BY <3>1, EmptySeq
    <3>3. Top \in Nat
      BY GlmServeAssumption, TopIs
    <3>. QED
      BY <1>3, <3>1, <3>2, <3>3, FileIs DEF DiskInv
  <2>2. /\ diskNrec = Len(kv) /\ Len(kv) <= Len(file.recs) /\ file.nrec = Len(kv)
        /\ \A p \in 1..Len(kv) : file.recs[p] = kv[p]
    BY <1>1, <1>3, <2>1 DEF DiskInv, Places, Filed, Written
  <2>3. file.state = "ok"
    <3>1. file.state # "none"
      BY <1>3, <2>1, <2>2 DEF DiskInv, Places
    <3>2. file.state # "empty"
      BY <1>1, <1>3 DEF DiskInv, Places
    <3>. QED
      BY <2>1, <3>1, <3>2
  <2>4. file.dims = run.dims
    BY <2>1 DEF SameDims
  <2>5. Disk!Promised(run.dims) = kv
    <3>1. Disk!MinOf(file.nrec, Len(file.recs)) = Len(kv)
      BY <2>1, <2>2 DEF Disk!MinOf
    <3>2. Disk!Promised(run.dims) = [p \in 1..Len(kv) |-> Disk!ReadAs(file.recs[p], run.dims)]
      BY <3>1 DEF Disk!Promised
    <3>3. \A p \in 1..Len(kv) : Disk!ReadAs(file.recs[p], run.dims) = kv[p]
      BY <2>1, <2>2, ReadIs
    <3>4. kv = [p \in 1..Len(kv) |-> kv[p]]
      BY <2>1
    <3>. QED
      BY <3>2, <3>3, <3>4
  <2>. QED
    BY <2>3, <2>4, <2>5
<1>4. DiskInv => Durable
  BY <1>2, <1>3 DEF Durable
<1>. QED
  BY <1>1, <1>4, DiskAlways, PTL
=============================================================================
