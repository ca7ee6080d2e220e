---------------------------- MODULE Turns_proofs ----------------------------
(* Proofs about Turns: the speculative decoding of glm and that of qwenmoe   *)
(* say what greedy decoding says, for any model, drafts, budgets, prompts    *)
(* and interrupts, and the chats keep the rows of a turn in place.           *)
EXTENDS Turns, SequenceTheorems, WellFoundedInduction, TLAPS

-----------------------------------------------------------------------------
(* Sequences and their heads.                                                *)

Less == {ss \in Nat \X Nat : ss[1] < ss[2]}

LEMMA LeastOf ==
    ASSUME NEW S \in SUBSET Nat, S # {}
    PROVE  \E x \in S : \A y \in S : x <= y
<1>1. OpToRel(<, Nat) = Less
  BY Zenon DEF OpToRel, Less
<1>2. IsWellFoundedOn(Less, Nat)
  BY NatLessThanWellFounded, <1>1, Zenon
<1>3. PICK x \in S : \A y \in S : ~(<<y, x>> \in Less)
  BY <1>2, WFMin
<1>4. ASSUME NEW y \in S PROVE x <= y
  <2>1. x \in Nat /\ y \in Nat
    OBVIOUS
  <2>2. ~(y < x)
    BY <1>3, <2>1 DEF Less
  <2>. QED
    BY <2>1, <2>2
<1>. QED
  BY <1>4

LEMMA HeadOf ==
    ASSUME NEW V, NEW x \in Seq(V), NEW n \in 0..Len(x)
    PROVE  /\ SubSeq(x, 1, n) \in Seq(V) /\ Len(SubSeq(x, 1, n)) = n
           /\ \A i \in 1..n : SubSeq(x, 1, n)[i] = x[i]
<1>. DEFINE m == 1
            y == SubSeq(x, m, n)
<1>1. m \in Int /\ n \in Int /\ \A i \in m..n : x[i] \in V
  OBVIOUS
<1>. HIDE DEF m, y
<1>2. /\ y \in Seq(V)
      /\ Len(y) = IF m <= n THEN n - m + 1 ELSE 0
      /\ \A i \in 1..n - m + 1 : y[i] = x[m + i - 1]
  BY <1>1, SubSeqProperties DEF y
<1>3. Len(y) = n
  BY <1>2 DEF m
<1>4. \A i \in 1..n : y[i] = x[i]
  <2>1. ASSUME NEW i \in 1..n PROVE y[i] = x[i]
    <3>1. i \in 1..n - m + 1 /\ m + i - 1 = i
      BY DEF m
    <3>. QED
      BY <1>2, <3>1
  <2>. QED
    BY <2>1
<1>. QED
  BY <1>2, <1>3, <1>4 DEF y, m

LEMMA TailOf ==
    ASSUME NEW V, NEW x \in Seq(V), NEW n \in 0..Len(x)
    PROVE  /\ SubSeq(x, n + 1, Len(x)) \in Seq(V)
           /\ Len(SubSeq(x, n + 1, Len(x))) = Len(x) - n
           /\ \A i \in 1..Len(x) - n : SubSeq(x, n + 1, Len(x))[i] = x[n + i]
<1>. DEFINE m == n + 1
            l == Len(x)
            y == SubSeq(x, m, l)
<1>1. m \in Int /\ l \in Nat /\ n \in 0..l /\ \A i \in m..l : x[i] \in V
  OBVIOUS
<1>. HIDE DEF m, l, y
<1>2. /\ y \in Seq(V)
      /\ Len(y) = IF m <= l THEN l - m + 1 ELSE 0
      /\ \A i \in 1..l - m + 1 : y[i] = x[m + i - 1]
  BY <1>1, SubSeqProperties DEF y
<1>3. Len(y) = l - n
  BY <1>1, <1>2 DEF m
<1>4. \A i \in 1..l - n : y[i] = x[n + i]
  <2>1. ASSUME NEW i \in 1..l - n PROVE y[i] = x[n + i]
    <3>1. i \in 1..l - m + 1 /\ m + i - 1 = n + i
      BY <1>1 DEF m
    <3>. QED
      BY <1>2, <3>1
  <2>. QED
    BY <2>1
<1>. QED
  BY <1>2, <1>3, <1>4 DEF y, m, l

\* x begins y.
Begins(x, y) == Len(x) <= Len(y) /\ \A i \in 1..Len(x) : x[i] = y[i]

\* Two heads are the same when their tokens are.
LEMMA SameHeads ==
    ASSUME NEW V, NEW x \in Seq(V), NEW y \in Seq(V), NEW n \in 0..Len(x), n <= Len(y),
           \A i \in 1..n : x[i] = y[i]
    PROVE  SubSeq(x, 1, n) = SubSeq(y, 1, n)
<1>. DEFINE a == SubSeq(x, 1, n)
            b == SubSeq(y, 1, n)
<1>1. a \in Seq(V) /\ Len(a) = n /\ \A i \in 1..n : a[i] = x[i]
  BY HeadOf
<1>2. b \in Seq(V) /\ Len(b) = n /\ \A i \in 1..n : b[i] = y[i]
  BY HeadOf
<1>. HIDE DEF a, b
<1>3. a = b
  BY <1>1, <1>2, SeqEqual
<1>. QED
  BY <1>3 DEF a, b

\* r is x up to place p, and then ids.
Laid(r, V, x, p, ids) ==
  /\ r \in Seq(V) /\ Len(r) = p + Len(ids)
  /\ \A i \in 1..p : r[i] = x[i]
  /\ \A i \in 1..Len(ids) : r[p + i] = ids[i]

LEMMA LaidIs ==
    ASSUME NEW V, NEW x \in Seq(V), NEW p \in 0..Len(x), NEW ids \in Seq(V)
    PROVE  Laid(SubSeq(x, 1, p) \o ids, V, x, p, ids)
<1>. DEFINE a == SubSeq(x, 1, p)
            r == a \o ids
<1>1. a \in Seq(V) /\ Len(a) = p /\ \A i \in 1..p : a[i] = x[i]
  BY HeadOf
<1>. HIDE DEF a
<1>2. /\ r \in Seq(V) /\ Len(r) = Len(a) + Len(ids)
      /\ \A i \in 1..Len(a) : r[i] = a[i]
      /\ \A i \in 1..Len(ids) : r[Len(a) + i] = ids[i]
  <2>1. a \in Seq(V)
    BY <1>1
  <2>. QED
    BY <2>1, ConcatProperties
<1>. HIDE DEF r
<1>3. Laid(r, V, x, p, ids)
  BY <1>1, <1>2 DEF Laid
<1>. QED
  BY <1>3 DEF r, a

\* A token behind a head.
LEMMA Said ==
    ASSUME NEW V, NEW x \in Seq(V), NEW p \in 0..Len(x), NEW t \in V
    PROVE  /\ Append(SubSeq(x, 1, p), t) \in Seq(V)
           /\ Len(Append(SubSeq(x, 1, p), t)) = p + 1
           /\ \A i \in 1..p : Append(SubSeq(x, 1, p), t)[i] = x[i]
           /\ Append(SubSeq(x, 1, p), t)[p + 1] = t
<1>. DEFINE a == SubSeq(x, 1, p)
            r == Append(a, t)
<1>1. a \in Seq(V) /\ Len(a) = p /\ \A i \in 1..p : a[i] = x[i]
  BY HeadOf
<1>. HIDE DEF a
<1>2. /\ r \in Seq(V) /\ Len(r) = Len(a) + 1
      /\ \A i \in 1..Len(a) : r[i] = a[i] /\ r[Len(a) + 1] = t
  BY <1>1, AppendProperties
<1>3. r[Len(a) + 1] = t
  BY <1>1
<1>. HIDE DEF r
<1>4. r \in Seq(V) /\ Len(r) = p + 1 /\ (\A i \in 1..p : r[i] = x[i]) /\ r[p + 1] = t
  BY <1>1, <1>2, <1>3
<1>. QED
  BY <1>4 DEF r, a

\* A head that is one longer ends with the next token.
LEMMA HeadGrows ==
    ASSUME NEW V, NEW x \in Seq(V), NEW n \in 0..Len(x), n < Len(x)
    PROVE  SubSeq(x, 1, n + 1) = Append(SubSeq(x, 1, n), x[n + 1])
<1>. DEFINE a == SubSeq(x, 1, n + 1)
            b == Append(SubSeq(x, 1, n), x[n + 1])
<1>1. n + 1 \in 0..Len(x) /\ x[n + 1] \in V
  OBVIOUS
<1>2. a \in Seq(V) /\ Len(a) = n + 1 /\ \A i \in 1..n + 1 : a[i] = x[i]
  BY <1>1, HeadOf
<1>3. b \in Seq(V) /\ Len(b) = n + 1 /\ (\A i \in 1..n : b[i] = x[i]) /\ b[n + 1] = x[n + 1]
  BY <1>1, Said
<1>. HIDE DEF a, b
<1>4. ASSUME NEW i \in 1..n + 1 PROVE a[i] = b[i]
  <2>1. CASE i = n + 1
    BY <1>2, <1>3, <2>1
  <2>2. CASE i \in 1..n
    BY <1>2, <1>3, <2>2
  <2>. QED
    BY <1>1, <2>1, <2>2
<1>5. a = b
  BY <1>2, <1>3, <1>4, SeqEqual
<1>. QED
  BY <1>5 DEF a, b

\* The head of the whole length is the sequence.
LEMMA WholeHead ==
    ASSUME NEW V, NEW x \in Seq(V)
    PROVE  SubSeq(x, 1, Len(x)) = x
<1>. DEFINE n == Len(x)
            a == SubSeq(x, 1, n)
<1>1. n \in 0..Len(x)
  OBVIOUS
<1>2. a \in Seq(V) /\ Len(a) = n /\ \A i \in 1..n : a[i] = x[i]
  <2>. HIDE DEF n
  <2>. QED
    BY <1>1, HeadOf
<1>. HIDE DEF a
<1>3. a = x
  BY <1>2, SeqEqual
<1>. QED
  BY <1>3 DEF a

\* A head and the tail after it.
LEMMA HeadAndTail ==
    ASSUME NEW V, NEW x \in Seq(V), NEW y \in Seq(V), Begins(x, y)
    PROVE  x \o SubSeq(y, Len(x) + 1, Len(y)) = y
<1>. DEFINE n == Len(x)
            z == SubSeq(y, n + 1, Len(y))
            w == x \o z
<1>1. n \in 0..Len(y) /\ Len(y) \in Nat /\ \A i \in 1..n : x[i] = y[i]
  BY DEF Begins
<1>2. z \in Seq(V) /\ Len(z) = Len(y) - n /\ \A i \in 1..Len(y) - n : z[i] = y[n + i]
  <2>. HIDE DEF n
  <2>. QED
    BY <1>1, TailOf
<1>. HIDE DEF z
<1>3. /\ w \in Seq(V) /\ Len(w) = Len(x) + Len(z)
      /\ \A i \in 1..Len(x) : w[i] = x[i]
      /\ \A i \in 1..Len(z) : w[Len(x) + i] = z[i]
  BY <1>2, ConcatProperties
<1>4. n = Len(x)
  OBVIOUS
<1>. HIDE DEF n, w
<1>5. Len(w) = Len(y)
  BY <1>1, <1>2, <1>3, <1>4
<1>6. ASSUME NEW i \in 1..Len(y) PROVE w[i] = y[i]
  <2>1. CASE i <= n
    BY <1>1, <1>3, <1>4, <2>1
  <2>2. CASE i > n
    <3>1. i - n \in 1..Len(y) - n /\ n + (i - n) = i
      BY <1>1, <2>2
    <3>. QED
      BY <1>2, <1>3, <1>4, <3>1
  <2>. QED
    BY <1>1, <2>1, <2>2
<1>7. w = y
  BY <1>3, <1>5, <1>6, SeqEqual
<1>. QED
  BY <1>7 DEF w, z, n

-----------------------------------------------------------------------------
(* The decoder of glm.                                                       *)

\* What was said is c, unless \x02MORE is used, which drops tokens.
Follows(c) == ~more => said = c

\* A forward holds the next token and the draft behind it; what is accepted of
\* the draft is history already, with room for the rest of the budget.
Verifying ==
  /\ Len(rows) = len + 1 + Len(draft)
  /\ \A i \in 1..Len(draft) : rows[len + 1 + i] = draft[i]
  /\ Len(hist) = len + 1 + k
  /\ \A i \in 1..len + 1 + k : hist[i] = rows[i]
  /\ len + 1 + k + left + DraftK + 2 <= MaxT
  /\ Follows(SubSeq(rows, 1, len + 1 + k))

\* The types, without those of the flags.
GlmTypes ==
  /\ hist \in Seq(Vocab) /\ rows \in Seq(Vocab) /\ logit \in Seq(Vocab) /\ said \in Seq(Vocab)
  /\ len \in 0..Len(rows) /\ draft \in Seq(Vocab) /\ k \in 0..Len(draft)
  /\ left \in 0..MaxT /\ pc \in {"idle", "pick", "verify"}

Flags == more \in {TRUE, FALSE} /\ intr \in {TRUE, FALSE}

GlmInv ==
  /\ GlmTypes /\ Flags
  /\ Glm!RowsTrue /\ Glm!InRoom
  /\ len + left + DraftK + 2 <= MaxT
  /\ pc = "pick" /\ left > 0 => Follows(SubSeq(rows, 1, len))
  /\ pc = "verify" => Verifying

LEMMA BestIs ==
    ASSUME Glm!SpecAssumption, NEW c \in Seq(Vocab), Len(c) <= MaxT
    PROVE  Best(c) \in Vocab
<1>1. Len(c) \in 0..MaxT /\ c \in [1..Len(c) -> Vocab]
  BY DEF Glm!SpecAssumption
<1>. QED
  BY <1>1 DEF Glm!SpecAssumption

LEMMA GlmBounds ==
    ASSUME Glm!SpecAssumption
    PROVE  /\ MaxT \in Nat /\ Margin \in Nat /\ DraftK \in Nat
           /\ MaxT > DraftK + Margin /\ Margin > 2
           /\ \A n \in Asked : n \in Nat \ {0}
           /\ \A m \in MoreToo : m \in BOOLEAN
  BY DEF Glm!SpecAssumption

LEMMA GlmSizes == ASSUME Glm!SpecAssumption PROVE MaxT \in Nat /\ DraftK \in Nat
  BY GlmBounds

LEMMA GlmInit == ASSUME Glm!SpecAssumption, Glm!Init PROVE GlmInv
<1>1. <<>> \in Seq(Vocab) /\ Len(<<>>) = 0
  OBVIOUS
<1>2. SubSeq(<<>>, 1, 0) = <<>>
  OBVIOUS
<1>3. GlmTypes
  BY <1>1, GlmBounds DEF Glm!Init, GlmTypes
<1>4. Flags
  BY Zenon DEF Glm!Init, Glm!SpecAssumption, Flags
<1>. QED
  BY <1>1, <1>2, <1>3, <1>4, GlmBounds
     DEF Glm!Init, GlmInv, Glm!RowsTrue, Glm!InRoom, Glm!Head0

\* The rows a prompt keeps are those of its own beginning.
LEMMA PrefixIs ==
    ASSUME GlmInv, NEW c \in Seq(Vocab)
    PROVE  /\ Glm!Prefix(c) \in 0..len /\ Glm!Prefix(c) <= Len(c)
           /\ \A i \in 1..Glm!Prefix(c) : rows[i] = c[i]
<1>. DEFINE S == {n \in 0..len : ~Glm!Shares(c, n + 1)}
<1>1. /\ len \in Nat /\ len <= Len(hist) /\ len <= Len(rows)
      /\ hist \in Seq(Vocab) /\ rows \in Seq(Vocab)
      /\ SubSeq(hist, 1, len) = SubSeq(rows, 1, len)
  BY DEF GlmInv, GlmTypes, Glm!RowsTrue, Glm!Head0
<1>2. Glm!MinOf(Len(c), len) \in Nat /\ Glm!MinOf(Len(c), len) <= len
      /\ Glm!MinOf(Len(c), len) <= Len(c)
  BY <1>1 DEF Glm!MinOf
<1>3. S \in SUBSET Nat /\ len \in S
  <2>1. ~(len + 1 <= Glm!MinOf(Len(c), len))
    BY <1>1, <1>2
  <2>. QED
    BY <1>1, <2>1 DEF Glm!Shares
<1>4. PICK n \in S : \A m \in S : n <= m
  <2>. HIDE DEF S
  <2>. QED
    BY <1>3, LeastOf
<1>5. Glm!Shares(c, n)
  <2>1. CASE n = 0
    <3>1. SubSeq(c, 1, 0) = SubSeq(hist, 1, 0)
      BY <1>1, SameHeads
    <3>. QED
      BY <1>2, <2>1, <3>1 DEF Glm!Shares, Glm!Head0
  <2>2. CASE n # 0
    <3>1. n - 1 \in 0..len /\ n - 1 < n /\ (n - 1) + 1 = n
      BY <1>1, <2>2
    <3>2. n - 1 \notin S
      BY <1>4, <3>1
    <3>. QED
      BY <3>1, <3>2
  <2>. QED
    BY <2>1, <2>2
<1>6. Glm!Prefix(c) \in 0..len /\ Glm!Shares(c, Glm!Prefix(c))
  <2>1. \E m \in 0..len : Glm!Shares(c, m) /\ ~Glm!Shares(c, m + 1)
    BY <1>4, <1>5
  <2>. QED
    BY <2>1 DEF Glm!Prefix
<1>. DEFINE p == Glm!Prefix(c)
<1>. HIDE DEF p
<1>7. p \in 0..len /\ p <= Len(c) /\ SubSeq(c, 1, p) = SubSeq(hist, 1, p)
  BY <1>1, <1>2, <1>6 DEF Glm!Shares, Glm!Head0, p
<1>8. ASSUME NEW i \in 1..p PROVE rows[i] = c[i]
  <2>1. /\ p \in 0..Len(c) /\ p \in 0..Len(hist) /\ i \in 1..len
        /\ len \in 0..Len(hist) /\ len \in 0..Len(rows)
    BY <1>1, <1>7
  <2>2. SubSeq(c, 1, p)[i] = c[i] /\ SubSeq(hist, 1, p)[i] = hist[i]
    BY <1>1, <2>1, HeadOf
  <2>3. SubSeq(hist, 1, len)[i] = hist[i] /\ SubSeq(rows, 1, len)[i] = rows[i]
    BY <1>1, <2>1, HeadOf
  <2>. QED
    BY <1>1, <1>7, <2>2, <2>3
<1>. QED
  BY <1>7, <1>8 DEF p

LEMMA CurIs ==
    ASSUME Glm!SpecAssumption, NEW n \in Asked, NEW usedUp \in Nat, usedUp + DraftK + 2 <= MaxT
    PROVE  /\ Glm!Cur(n, usedUp) \in 0..MaxT /\ usedUp + Glm!Cur(n, usedUp) + DraftK + 2 <= MaxT
           /\ usedUp + DraftK + 2 < MaxT => Glm!Cur(n, usedUp) > 0
  BY GlmBounds DEF Glm!Cur

LEMMA PromptStep ==
    ASSUME Glm!SpecAssumption, GlmInv, NEW c \in Glm!Prompts, NEW n \in Asked, Glm!Prompt(c, n)
    PROVE  /\ GlmInv' /\ pc = "idle" /\ pc' = "pick" /\ said' \in Seq(Vocab) /\ left' \in Nat
<1>1. /\ c \in Seq(Vocab) /\ Len(c) \in Nat \ {0} /\ Len(c) <= MaxT - Margin - DraftK
  <2>1. PICK m \in 1..MaxT - Margin - DraftK : c \in [1..m -> Vocab]
    BY DEF Glm!Prompts
  <2>. QED
    BY <2>1 DEF Glm!SpecAssumption
<1>2. DraftK \in Nat /\ MaxT \in Nat /\ Margin \in Nat /\ Margin > 2
  BY GlmBounds
<1>3. Len(c) + DraftK + 2 < MaxT /\ Len(c) <= MaxT
  BY <1>1, <1>2
<1>4. /\ Glm!Cur(n, Len(c)) \in 0..MaxT /\ Glm!Cur(n, Len(c)) > 0
      /\ Len(c) + Glm!Cur(n, Len(c)) + DraftK + 2 <= MaxT
  BY <1>1, <1>2, <1>3, CurIs
<1>5. rows' = c
  <2>. DEFINE p == Glm!MinOf(Glm!Prefix(c), Len(c) - 1)
              a == SubSeq(rows, 1, p)
  <2>1. /\ p \in 0..len /\ p <= Len(c) /\ p \in 0..Len(rows) /\ rows \in Seq(Vocab)
        /\ \A i \in 1..p : rows[i] = c[i]
    <3>1. /\ Glm!Prefix(c) \in 0..len /\ Glm!Prefix(c) <= Len(c)
          /\ \A i \in 1..Glm!Prefix(c) : rows[i] = c[i]
      BY <1>1, PrefixIs
    <3>2. len \in 0..Len(rows) /\ rows \in Seq(Vocab)
      BY DEF GlmInv, GlmTypes
    <3>3. p \in 0..Glm!Prefix(c)
      <4>. HIDE DEF Glm!Prefix
      <4>. QED
        BY <1>1, <3>1 DEF Glm!MinOf
    <3>. HIDE DEF p
    <3>. QED
      BY <3>1, <3>2, <3>3
  <2>2. rows' = a \o SubSeq(c, p + 1, Len(c))
    BY DEF Glm!Prompt, Glm!Forward, Glm!Head0
  <2>. HIDE DEF p
  <2>3. a \in Seq(Vocab) /\ Len(a) = p /\ \A i \in 1..p : a[i] = rows[i]
    BY <2>1, HeadOf
  <2>. HIDE DEF a
  <2>4. Begins(a, c)
    BY <2>1, <2>3 DEF Begins
  <2>. QED
    BY <1>1, <2>2, <2>3, <2>4, HeadAndTail
<1>6. /\ hist' = c /\ len' = Len(c) /\ said' = c /\ logit' = SubSeq(rows', 1, Len(c))
      /\ left' = Glm!Cur(n, Len(c)) /\ pc = "idle" /\ pc' = "pick" /\ intr' = FALSE
      /\ UNCHANGED <<more, draft, k>>
  BY <1>4 DEF Glm!Prompt, Glm!Answer, Glm!Head0
<1>7. SubSeq(c, 1, Len(c)) = c
  BY <1>1, WholeHead
<1>8. draft \in Seq(Vocab) /\ k \in 0..Len(draft)
  BY DEF GlmInv, GlmTypes
<1>9. GlmTypes'
  BY <1>1, <1>4, <1>5, <1>6, <1>7, <1>8 DEF GlmTypes
<1>10. Flags'
  BY <1>6, Zenon DEF GlmInv, Flags
<1>11. Follows(SubSeq(rows, 1, len))'
  BY <1>5, <1>6, <1>7 DEF Follows
<1>12. /\ Glm!RowsTrue' /\ Glm!InRoom' /\ len' + left' + DraftK + 2 <= MaxT
      /\ pc' # "verify"
  BY <1>1, <1>3, <1>4, <1>5, <1>6, <1>7 DEF Glm!RowsTrue, Glm!InRoom, Glm!Head0
<1>. QED
  BY <1>1, <1>4, <1>6, <1>9, <1>10, <1>11, <1>12 DEF GlmInv

LEMMA MoreStep ==
    ASSUME Glm!SpecAssumption, GlmInv, NEW n \in Asked, Glm!More(n)
    PROVE  GlmInv'
<1>0. len >= 1
  BY DEF Glm!More
<1>1. /\ len \in 1..Len(rows) /\ len <= Len(hist) /\ rows \in Seq(Vocab) /\ hist \in Seq(Vocab)
      /\ SubSeq(hist, 1, len) = SubSeq(rows, 1, len) /\ len + DraftK + 2 <= MaxT
      /\ Len(rows) <= MaxT /\ Len(hist) <= MaxT /\ MaxT \in Nat
  BY <1>0, GlmBounds, SMTT(60) DEF GlmInv, GlmTypes, Glm!RowsTrue, Glm!InRoom, Glm!Head0
<1>2. /\ Glm!Cur(n, len) \in 0..MaxT /\ len + Glm!Cur(n, len) + DraftK + 2 <= MaxT
  BY <1>1, CurIs
<1>3. /\ rows' = SubSeq(rows, 1, len - 1) \o <<hist[len]>> /\ logit' = SubSeq(rows', 1, len)
      /\ left' = Glm!Cur(n, len) /\ pc' \in {"pick", "idle"}
      /\ UNCHANGED <<hist, len, draft, k, said>>
  BY DEF Glm!More, Glm!Answer, Glm!Forward, Glm!Head0
<1>4. hist[len] = rows[len]
  <2>1. len \in 0..Len(hist) /\ len \in 0..Len(rows) /\ len \in 1..len
    BY <1>1
  <2>2. SubSeq(hist, 1, len)[len] = hist[len] /\ SubSeq(rows, 1, len)[len] = rows[len]
    BY <1>1, <2>1, HeadOf
  <2>. QED
    BY <1>1, <2>2
<1>5. /\ rows' \in Seq(Vocab) /\ Len(rows') = len /\ \A i \in 1..len : rows'[i] = rows[i]
  <2>1. len - 1 \in 0..Len(rows) /\ <<hist[len]>> \in Seq(Vocab) /\ Len(<<hist[len]>>) = 1
        /\ <<hist[len]>>[1] = hist[len]
    BY <1>1
  <2>2. Laid(rows', Vocab, rows, len - 1, <<hist[len]>>)
    BY <1>1, <1>3, <2>1, LaidIs
  <2>3. rows' \in Seq(Vocab) /\ Len(rows') = len - 1 + 1
    BY <2>1, <2>2 DEF Laid
  <2>4. rows'[len - 1 + 1] = hist[len]
    BY <2>1, <2>2 DEF Laid
  <2>5. ASSUME NEW i \in 1..len PROVE rows'[i] = rows[i]
    <3>1. CASE i \in 1..len - 1
      BY <2>2, <3>1 DEF Laid
    <3>2. CASE i = len
      BY <1>1, <1>4, <2>4, <3>2
    <3>. QED
      BY <1>1, <3>1, <3>2
  <2>. QED
    BY <1>1, <2>3, <2>5
<1>6. SubSeq(rows', 1, len) = SubSeq(rows, 1, len) /\ SubSeq(rows, 1, len) \in Seq(Vocab)
  <2>1. len \in 0..Len(rows') /\ len <= Len(rows) /\ len \in 0..Len(rows)
    BY <1>1, <1>5
  <2>. QED
    BY <1>1, <1>5, <2>1, SameHeads, HeadOf
<1>7. /\ logit' = SubSeq(rows', 1, len') /\ SubSeq(hist', 1, len') = SubSeq(rows', 1, len')
      /\ logit' \in Seq(Vocab)
  BY <1>1, <1>3, <1>6
<1>8. Len(rows') <= MaxT /\ Len(hist') <= MaxT /\ Len(hist') >= len' /\ len' \in 0..Len(rows')
  BY <1>1, <1>3, <1>5
<1>11. GlmTypes'
  <2>1. /\ hist \in Seq(Vocab) /\ said \in Seq(Vocab) /\ draft \in Seq(Vocab)
        /\ k \in 0..Len(draft)
    BY DEF GlmInv, GlmTypes
  <2>. QED
    BY <1>2, <1>3, <1>5, <1>7, <1>8, <2>1 DEF GlmTypes
<1>12. Glm!RowsTrue' /\ Glm!InRoom'
  BY <1>7, <1>8 DEF Glm!RowsTrue, Glm!InRoom, Glm!Head0
<1>9. Flags'
  BY Zenon DEF GlmInv, Flags, Glm!More
<1>10. more'
  BY Zenon DEF Glm!More
<1>13. Follows(SubSeq(rows, 1, len))'
  BY <1>10 DEF Follows
<1>14. len' + left' + DraftK + 2 <= MaxT /\ pc' # "verify"
  BY <1>2, <1>3
<1>. QED
  BY <1>9, <1>11, <1>12, <1>13, <1>14 DEF GlmInv

\* An end of the answer, an interrupt.
LEMMA GlmQuiet ==
    ASSUME GlmInv, Glm!Over \/ Glm!PickStop \/ Glm!Interrupt
    PROVE  GlmInv'
<1>1. /\ UNCHANGED <<hist, rows, len, logit, left, draft, k, said>>
      /\ pc' \in {"idle", pc}
  BY DEF Glm!Over, Glm!PickStop, Glm!Interrupt
<1>2. more' = more
  BY DEF Glm!Over, Glm!PickStop, Glm!Interrupt
<1>3. Flags'
  BY Zenon DEF GlmInv, Flags, Glm!Over, Glm!PickStop, Glm!Interrupt
<1>4. ASSUME NEW c, Follows(c) PROVE more' \/ said' = c
  BY <1>1, <1>2, <1>4, Zenon DEF Follows
<1>5. GlmTypes' /\ Glm!RowsTrue' /\ Glm!InRoom' /\ len' + left' + DraftK + 2 <= MaxT
  BY <1>1 DEF GlmInv, GlmTypes, Glm!RowsTrue, Glm!InRoom, Glm!Head0
<1>6. pc' = "pick" /\ left' > 0 => Follows(SubSeq(rows, 1, len))'
  <2>1. ASSUME pc' = "pick", left' > 0 PROVE Follows(SubSeq(rows, 1, len))
    BY <1>1, <2>1 DEF GlmInv
  <2>2. SubSeq(rows, 1, len)' = SubSeq(rows, 1, len)
    BY <1>1
  <2>. QED
    BY <1>4, <2>1, <2>2, Zenon DEF Follows
<1>7. pc' = "verify" => Verifying'
  <2>1. ASSUME pc' = "verify" PROVE Verifying
    BY <1>1, <2>1 DEF GlmInv
  <2>2. ASSUME Verifying PROVE Verifying'
    <3>1. SubSeq(rows, 1, len + 1 + k)' = SubSeq(rows, 1, len + 1 + k)
      BY <1>1
    <3>2. Follows(SubSeq(rows, 1, len + 1 + k))'
      BY <1>4, <2>2, <3>1, Zenon DEF Verifying, Follows
    <3>. QED
      BY <1>1, <2>2, <3>2 DEF Verifying
  <2>. QED
    BY <2>1, <2>2
<1>. QED
  BY <1>3, <1>5, <1>6, <1>7 DEF GlmInv

\* The token picked.
LEMMA PickIs ==
    ASSUME Glm!SpecAssumption, GlmInv, pc = "pick", left > 0
    PROVE  /\ Best(logit) \in Vocab /\ Follows(logit)
           /\ logit = SubSeq(rows, 1, len) /\ Len(logit) = len
<1>1. /\ rows \in Seq(Vocab) /\ len \in 0..Len(rows) /\ logit \in Seq(Vocab)
      /\ logit = SubSeq(rows, 1, len) /\ Len(rows) <= MaxT
  BY DEF GlmInv, GlmTypes, Glm!RowsTrue, Glm!InRoom, Glm!Head0
<1>2. Len(logit) = len
  BY <1>1, HeadOf
<1>3. Best(logit) \in Vocab
  <2>1. Len(logit) <= MaxT
    BY <1>1, <1>2, GlmSizes
  <2>. QED
    BY <1>1, <2>1, BestIs
<1>4. Follows(logit)
  BY <1>1 DEF GlmInv
<1>. QED
  BY <1>1, <1>2, <1>3, <1>4

LEMMA PickLastStep ==
    ASSUME Glm!SpecAssumption, GlmInv, Glm!PickLast
    PROVE  GlmInv'
<1>1. /\ pc = "pick" /\ left = 1 /\ pc' = pc /\ left' = left - 1
      /\ UNCHANGED <<rows, len, logit, draft, k>>
      /\ hist' = Append(SubSeq(hist, 1, len), Best(logit)) /\ said' = Append(said, Best(logit))
  BY DEF Glm!PickLast, Glm!Emit, Glm!Head0
<1>2. Best(logit) \in Vocab
  BY <1>1, PickIs
<1>3. /\ rows \in Seq(Vocab) /\ hist \in Seq(Vocab) /\ len \in 0..Len(hist) /\ len \in 0..Len(rows)
      /\ SubSeq(hist, 1, len) = SubSeq(rows, 1, len) /\ logit = SubSeq(rows, 1, len)
      /\ len + left + DraftK + 2 <= MaxT /\ said \in Seq(Vocab) /\ Len(rows) <= MaxT
  BY DEF GlmInv, GlmTypes, Glm!RowsTrue, Glm!InRoom, Glm!Head0
<1>4. /\ hist' \in Seq(Vocab) /\ Len(hist') = len + 1 /\ \A i \in 1..len : hist'[i] = hist[i]
  BY <1>1, <1>2, <1>3, Said
<1>5. said' \in Seq(Vocab)
  BY <1>1, <1>2, <1>3
<1>6. SubSeq(hist', 1, len) = SubSeq(hist, 1, len)
  <2>1. len \in 0..Len(hist') /\ len <= Len(hist)
    BY <1>3, <1>4
  <2>. QED
    BY <1>3, <1>4, <2>1, SameHeads
<1>7. Flags'
  BY Zenon DEF GlmInv, Flags, Glm!PickLast
<1>8. GlmTypes'
  BY <1>1, <1>4, <1>5, GlmSizes DEF GlmInv, GlmTypes
<1>9. /\ Glm!RowsTrue' /\ Glm!InRoom' /\ len' + left' + DraftK + 2 <= MaxT
      /\ ~(left' > 0) /\ pc' # "verify"
  <2>1. /\ SubSeq(hist', 1, len') = SubSeq(rows', 1, len') /\ logit' = SubSeq(rows', 1, len')
    BY <1>1, <1>3, <1>6
  <2>2. Len(hist') >= len' /\ Len(rows') <= MaxT
    BY <1>1, <1>3, <1>4
  <2>3. Len(hist') <= MaxT
    BY <1>1, <1>3, <1>4, GlmSizes
  <2>4. len' + left' + DraftK + 2 <= MaxT /\ ~(left' > 0) /\ pc' # "verify"
    BY <1>1, <1>3, GlmSizes
  <2>. QED
    BY <2>1, <2>2, <2>3, <2>4 DEF Glm!RowsTrue, Glm!InRoom, Glm!Head0
<1>. QED
  BY <1>7, <1>8, <1>9 DEF GlmInv

LEMMA PickAndForwardStep ==
    ASSUME Glm!SpecAssumption, GlmInv, NEW d \in Glm!Drafts, Glm!PickAndForward(d)
    PROVE  GlmInv'
<1>. DEFINE t == Best(logit)
<1>1. /\ pc = "pick" /\ left > 1 /\ Len(d) <= Glm!Guesses(DraftK)
      /\ pc' = "verify" /\ left' = left - 1 /\ draft' = d /\ k' = 0
      /\ UNCHANGED <<len, logit>>
      /\ hist' = Append(SubSeq(hist, 1, len), t) /\ said' = Append(said, t)
      /\ rows' = SubSeq(rows, 1, len) \o (<<t>> \o d)
  BY DEF Glm!PickAndForward, Glm!Emit, Glm!Head0, Glm!Forward
<1>2. left \in Nat /\ left > 0
  BY <1>1 DEF GlmInv, GlmTypes
<1>3. t \in Vocab /\ Follows(logit) /\ logit = SubSeq(rows, 1, len)
  BY <1>1, <1>2, PickIs
<1>. HIDE DEF t
<1>4. /\ rows \in Seq(Vocab) /\ hist \in Seq(Vocab) /\ len \in 0..Len(hist) /\ len \in 0..Len(rows)
      /\ SubSeq(hist, 1, len) = SubSeq(rows, 1, len) /\ logit \in Seq(Vocab)
      /\ len + left + DraftK + 2 <= MaxT /\ said \in Seq(Vocab)
  BY DEF GlmInv, GlmTypes, Glm!RowsTrue, Glm!InRoom, Glm!Head0
<1>5. d \in Seq(Vocab)
  <2>1. PICK g \in 0..DraftK : d \in [1..g -> Vocab]
    BY DEF Glm!Drafts
  <2>. QED
    BY <2>1, GlmSizes
<1>6. Len(d) <= MaxT - len - 2
  BY <1>1, <1>2, <1>4, <1>5, GlmSizes, SMTT(60) DEF Glm!Guesses, Glm!MinOf
<1>7. /\ hist' \in Seq(Vocab) /\ Len(hist') = len + 1
      /\ (\A i \in 1..len : hist'[i] = hist[i]) /\ hist'[len + 1] = t
  BY <1>1, <1>3, <1>4, Said
<1>8. /\ <<t>> \o d \in Seq(Vocab) /\ Len(<<t>> \o d) = 1 + Len(d)
      /\ (<<t>> \o d)[1] = t /\ \A i \in 1..Len(d) : (<<t>> \o d)[1 + i] = d[i]
  <2>1. <<t>> \in Seq(Vocab) /\ Len(<<t>>) = 1 /\ <<t>>[1] = t
    BY <1>3
  <2>. DEFINE a == <<t>>
              z == a \o d
  <2>. HIDE DEF a
  <2>2. /\ z \in Seq(Vocab) /\ Len(z) = Len(a) + Len(d)
        /\ \A i \in 1..Len(a) + Len(d) : z[i] = IF i <= Len(a) THEN a[i] ELSE d[i - Len(a)]
    <3>1. a \in Seq(Vocab)
      BY <2>1 DEF a
    <3>. QED
      BY <1>5, <3>1, ConcatProperties
  <2>3. Len(a) = 1 /\ a[1] = t
    BY <2>1 DEF a
  <2>. HIDE DEF z
  <2>4. z[1] = t
    BY <1>5, <2>2, <2>3
  <2>5. ASSUME NEW i \in 1..Len(d) PROVE z[1 + i] = d[i]
    <3>1. 1 + i \in 1..Len(a) + Len(d) /\ ~(1 + i <= Len(a)) /\ 1 + i - Len(a) = i
      BY <1>5, <2>3
    <3>. QED
      BY <2>2, <3>1
  <2>. QED
    BY <1>5, <2>2, <2>3, <2>4, <2>5 DEF z, a
<1>. DEFINE ids == <<t>> \o d
<1>. HIDE DEF ids
<1>9. Laid(rows', Vocab, rows, len, ids)
  BY <1>1, <1>4, <1>8, LaidIs DEF ids
<1>10. /\ ids \in Seq(Vocab) /\ Len(ids) = 1 + Len(d) /\ ids[1] = t
       /\ \A i \in 1..Len(d) : ids[1 + i] = d[i]
  BY <1>8 DEF ids
<1>11. /\ rows' \in Seq(Vocab) /\ Len(rows') = len + 1 + Len(d)
       /\ (\A i \in 1..len : rows'[i] = rows[i]) /\ rows'[len + 1] = t
  <2>1. 1 \in 1..Len(ids)
    BY <1>5, <1>10
  <2>. QED
    BY <1>4, <1>5, <1>9, <1>10, <2>1 DEF Laid
<1>12. ASSUME NEW i \in 1..Len(d) PROVE rows'[len + 1 + i] = d[i]
  <2>1. 1 + i \in 1..Len(ids) /\ len + (1 + i) = len + 1 + i
    BY <1>4, <1>5, <1>10
  <2>. QED
    BY <1>9, <1>10, <2>1 DEF Laid
<1>13. /\ SubSeq(rows', 1, len) = SubSeq(rows, 1, len) /\ SubSeq(hist', 1, len) = SubSeq(hist, 1, len)
  <2>1. len \in 0..Len(rows') /\ len \in 0..Len(hist') /\ len <= Len(rows) /\ len <= Len(hist)
    BY <1>4, <1>5, <1>7, <1>11
  <2>. QED
    BY <1>4, <1>7, <1>11, <2>1, SameHeads
<1>14. SubSeq(rows', 1, len + 1) = Append(logit, t)
  <2>1. len \in 0..Len(rows') /\ len < Len(rows')
    BY <1>4, <1>5, <1>11
  <2>. QED
    BY <1>3, <1>11, <1>13, <2>1, HeadGrows
<1>15. Follows(SubSeq(rows, 1, len + 1 + k))'
  <2>1. ASSUME ~more' PROVE said' = SubSeq(rows', 1, len + 1)
    <3>1. ~more
      BY <2>1 DEF Glm!PickAndForward
    <3>2. said = logit
      BY <1>3, <3>1 DEF Follows
    <3>. QED
      BY <1>1, <1>14, <3>2
  <2>2. len' + 1 + k' = len + 1
    BY <1>1, <1>4
  <2>3. SubSeq(rows, 1, len + 1 + k)' = SubSeq(rows', 1, len + 1)
    BY <2>2
  <2>. QED
    BY <2>1, <2>3 DEF Follows
<1>16. ASSUME NEW i \in 1..len + 1 PROVE hist'[i] = rows'[i]
  <2>1. CASE i \in 1..len
    <3>1. SubSeq(hist, 1, len)[i] = hist[i] /\ SubSeq(rows, 1, len)[i] = rows[i]
      BY <1>4, <2>1, HeadOf
    <3>. QED
      BY <1>4, <1>7, <1>11, <2>1, <3>1
  <2>2. CASE i = len + 1
    BY <1>7, <1>11, <2>2
  <2>. QED
    BY <1>4, <2>1, <2>2
<1>17. Verifying'
  <2>1. Len(rows') = len' + 1 + Len(draft') /\ Len(hist') = len' + 1 + k'
    BY <1>1, <1>4, <1>7, <1>11
  <2>2. \A i \in 1..Len(draft') : rows'[len' + 1 + i] = draft'[i]
    BY <1>1, <1>12
  <2>3. \A i \in 1..len' + 1 + k' : hist'[i] = rows'[i]
    <3>1. len' + 1 + k' = len + 1
      BY <1>1, <1>4
    <3>. QED
      BY <1>16, <3>1
  <2>4. len' + 1 + k' + left' + DraftK + 2 <= MaxT
    BY <1>1, <1>2, <1>4, GlmSizes
  <2>. QED
    BY <1>15, <2>1, <2>2, <2>3, <2>4 DEF Verifying
<1>18. Flags'
  BY Zenon DEF GlmInv, Flags, Glm!PickAndForward
<1>19. said' \in Seq(Vocab)
  BY <1>1, <1>3, <1>4
<1>20. GlmTypes'
  <2>1. left' \in 0..MaxT /\ k' \in 0..Len(draft') /\ draft' \in Seq(Vocab)
    BY <1>1, <1>2, <1>4, <1>5, GlmSizes
  <2>2. len' \in 0..Len(rows') /\ logit' \in Seq(Vocab)
    BY <1>1, <1>4, <1>5, <1>11
  <2>. QED
    BY <1>1, <1>7, <1>11, <1>19, <2>1, <2>2 DEF GlmTypes
<1>21. Glm!RowsTrue' /\ Glm!InRoom' /\ len' + left' + DraftK + 2 <= MaxT
  <2>1. /\ SubSeq(hist', 1, len') = SubSeq(rows', 1, len') /\ logit' = SubSeq(rows', 1, len')
    BY <1>1, <1>3, <1>4, <1>13
  <2>2. Len(hist') >= len' /\ Len(rows') <= MaxT
    BY <1>1, <1>4, <1>5, <1>6, <1>7, <1>11, GlmSizes
  <2>3. Len(hist') <= MaxT
    BY <1>1, <1>2, <1>4, <1>7, GlmSizes, SMTT(60)
  <2>4. len' + left' + DraftK + 2 <= MaxT
    BY <1>1, <1>2, <1>4, GlmSizes, SMTT(60)
  <2>. QED
    BY <2>1, <2>2, <2>3, <2>4 DEF Glm!RowsTrue, Glm!InRoom, Glm!Head0
<1>. QED
  BY <1>1, <1>17, <1>18, <1>20, <1>21 DEF GlmInv

\* The state of a verification, with its types.
LEMMA VerifyingIs ==
    ASSUME GlmInv, pc = "verify"
    PROVE  /\ rows \in Seq(Vocab) /\ hist \in Seq(Vocab) /\ logit \in Seq(Vocab)
           /\ said \in Seq(Vocab) /\ draft \in Seq(Vocab)
           /\ len \in Nat /\ k \in 0..Len(draft) /\ left \in 0..MaxT
           /\ Len(rows) = len + 1 + Len(draft) /\ Len(hist) = len + 1 + k
           /\ (\A i \in 1..Len(draft) : rows[len + 1 + i] = draft[i])
           /\ (\A i \in 1..len + 1 + k : hist[i] = rows[i])
           /\ len + 1 + k + left + DraftK + 2 <= MaxT /\ Len(rows) <= MaxT
           /\ logit = SubSeq(rows, 1, len)
           /\ Follows(SubSeq(rows, 1, len + 1 + k))
<1>1. Verifying /\ GlmTypes /\ Glm!RowsTrue /\ Glm!InRoom
  BY DEF GlmInv
<1>2. len \in Nat
  BY <1>1 DEF GlmTypes
<1>3. Len(rows) <= MaxT /\ logit = SubSeq(rows, 1, len)
  BY <1>1 DEF Glm!RowsTrue, Glm!InRoom, Glm!Head0
<1>. QED
  BY <1>1, <1>2, <1>3 DEF GlmTypes, Verifying

LEMMA AcceptStep ==
    ASSUME Glm!SpecAssumption, GlmInv, Glm!Accept
    PROVE  GlmInv'
<1>. DEFINE n == len + 1 + k
            t == draft[k + 1]
<1>1. /\ pc = "verify" /\ pc' = pc /\ left > 0 /\ k < Len(draft) /\ left' = left - 1 /\ k' = k + 1
      /\ UNCHANGED <<rows, len, logit, draft>>
      /\ hist' = Append(SubSeq(hist, 1, n), t) /\ said' = Append(said, t)
  BY DEF Glm!Accept, Glm!GuessSaid, Glm!GuessHolds, Glm!Emit, Glm!Head0
<1>2. /\ rows \in Seq(Vocab) /\ hist \in Seq(Vocab) /\ logit \in Seq(Vocab)
      /\ said \in Seq(Vocab) /\ draft \in Seq(Vocab)
      /\ len \in Nat /\ k \in 0..Len(draft) /\ left \in 0..MaxT
      /\ Len(rows) = len + 1 + Len(draft) /\ Len(hist) = n
      /\ (\A i \in 1..Len(draft) : rows[len + 1 + i] = draft[i])
      /\ (\A i \in 1..n : hist[i] = rows[i])
      /\ n + left + DraftK + 2 <= MaxT /\ Len(rows) <= MaxT
      /\ logit = SubSeq(rows, 1, len)
      /\ Follows(SubSeq(rows, 1, n))
  BY <1>1, VerifyingIs
<1>3. /\ n \in Nat /\ n < Len(rows) /\ n \in 0..Len(hist) /\ n \in 0..Len(rows)
      /\ n' = n + 1
  BY <1>1, <1>2
<1>4. t \in Vocab /\ rows[n + 1] = t
  <2>1. k + 1 \in 1..Len(draft) /\ len + 1 + (k + 1) = n + 1
    BY <1>1, <1>2
  <2>. QED
    BY <1>2, <2>1
<1>5. n' = len' + 1 + k'
  OBVIOUS
<1>. HIDE DEF n, t
<1>6. /\ hist' \in Seq(Vocab) /\ Len(hist') = n + 1
      /\ (\A i \in 1..n : hist'[i] = hist[i]) /\ hist'[n + 1] = t
  BY <1>1, <1>2, <1>3, <1>4, Said, SMTT(60)
<1>7. ASSUME NEW i \in 1..n + 1 PROVE hist'[i] = rows'[i]
  <2>1. CASE i \in 1..n
    BY <1>1, <1>2, <1>6, <2>1
  <2>2. CASE i = n + 1
    BY <1>1, <1>4, <1>6, <2>2
  <2>. QED
    BY <1>3, <2>1, <2>2
<1>8. SubSeq(rows, 1, n + 1) = Append(SubSeq(rows, 1, n), t)
  BY <1>2, <1>3, <1>4, HeadGrows
<1>9. Follows(SubSeq(rows, 1, n))'
  <2>1. ASSUME ~more' PROVE said' = SubSeq(rows, 1, n + 1)
    <3>1. ~more
      BY <2>1 DEF Glm!Accept
    <3>2. said = SubSeq(rows, 1, n)
      BY <1>2, <3>1 DEF Follows
    <3>. QED
      BY <1>1, <1>8, <3>2
  <2>2. SubSeq(rows, 1, n)' = SubSeq(rows, 1, n + 1)
    BY <1>1, <1>3
  <2>. QED
    BY <2>1, <2>2 DEF Follows
<1>10. len <= n
  BY <1>2 DEF n
<1>11. SubSeq(hist', 1, len) = SubSeq(rows, 1, len)
  <2>1. len \in 0..Len(hist') /\ len <= Len(rows) /\ \A i \in 1..len : i \in 1..n + 1
    BY <1>2, <1>3, <1>6, <1>10
  <2>. QED
    BY <1>1, <1>2, <1>6, <1>7, <2>1, SameHeads
<1>12. said' \in Seq(Vocab)
  BY <1>1, <1>2, <1>4
<1>13. Verifying'
  <2>1. Len(rows') = len' + 1 + Len(draft') /\ Len(hist') = n'
    BY <1>1, <1>2, <1>3, <1>6
  <2>2. \A i \in 1..Len(draft') : rows'[len' + 1 + i] = draft'[i]
    BY <1>1, <1>2
  <2>3. \A i \in 1..n' : hist'[i] = rows'[i]
    BY <1>3, <1>7
  <2>4. n' + left' + DraftK + 2 <= MaxT
    BY <1>1, <1>2, <1>3, GlmSizes
  <2>. QED
    BY <1>9, <2>1, <2>2, <2>3, <2>4 DEF Verifying, n
<1>14. Flags'
  BY Zenon DEF GlmInv, Flags, Glm!Accept
<1>15. GlmTypes'
  <2>1. left' \in 0..MaxT /\ k' \in 0..Len(draft') /\ draft' \in Seq(Vocab)
    BY <1>1, <1>2, GlmSizes, SMTT(60)
  <2>2. len' \in 0..Len(rows') /\ logit' \in Seq(Vocab) /\ rows' \in Seq(Vocab)
    BY <1>1, <1>2, <1>3, <1>10
  <2>. QED
    BY <1>1, <1>6, <1>12, <2>1, <2>2 DEF GlmTypes
<1>16. Glm!RowsTrue' /\ Glm!InRoom' /\ len' + left' + DraftK + 2 <= MaxT
  <2>1. /\ SubSeq(hist', 1, len') = SubSeq(rows', 1, len') /\ logit' = SubSeq(rows', 1, len')
    BY <1>1, <1>2, <1>11
  <2>2. Len(hist') >= len' /\ Len(rows') <= MaxT
    BY <1>1, <1>2, <1>3, <1>6, <1>10
  <2>3. Len(hist') <= MaxT
    <3>1. n + 1 <= MaxT
      BY <1>2, <1>3, GlmSizes
    <3>. QED
      BY <1>6, <3>1
  <2>4. len' + left' + DraftK + 2 <= MaxT
    <3>1. len \in Nat /\ left \in Nat /\ n + left + DraftK + 2 <= MaxT
      BY <1>2, GlmSizes
    <3>2. len' = len /\ left' = left - 1
      BY <1>1
    <3>. QED
      BY <1>3, <1>10, <3>1, <3>2, GlmSizes
  <2>. QED
    BY <2>1, <2>2, <2>3, <2>4 DEF Glm!RowsTrue, Glm!InRoom, Glm!Head0
<1>. QED
  BY <1>1, <1>13, <1>14, <1>15, <1>16 DEF GlmInv

LEMMA VerifiedStep ==
    ASSUME Glm!SpecAssumption, GlmInv, Glm!Verified
    PROVE  GlmInv'
<1>. DEFINE n == len + 1 + k
<1>1. /\ pc = "verify" /\ pc' \in {"idle", "pick"} /\ len' = len + (1 + k)
      /\ UNCHANGED <<hist, rows, left, draft, k, said>> /\ logit' = SubSeq(rows, 1, len')
  BY DEF Glm!Verified, Glm!Kept, Glm!Head0
<1>2. /\ rows \in Seq(Vocab) /\ hist \in Seq(Vocab) /\ logit \in Seq(Vocab)
      /\ said \in Seq(Vocab) /\ draft \in Seq(Vocab)
      /\ len \in Nat /\ k \in 0..Len(draft) /\ left \in 0..MaxT
      /\ Len(rows) = len + 1 + Len(draft) /\ Len(hist) = n
      /\ (\A i \in 1..n : hist[i] = rows[i])
      /\ n + left + DraftK + 2 <= MaxT /\ Len(rows) <= MaxT
      /\ Follows(SubSeq(rows, 1, n))
  BY <1>1, VerifyingIs
<1>3. n \in Nat /\ n \in 0..Len(hist) /\ n \in 0..Len(rows) /\ len' = n
  BY <1>1, <1>2
<1>. HIDE DEF n
<1>4. SubSeq(hist, 1, n) = SubSeq(rows, 1, n) /\ SubSeq(rows, 1, n) \in Seq(Vocab)
  BY <1>2, <1>3, SameHeads, HeadOf
<1>5. Follows(SubSeq(rows, 1, len))'
  <2>1. SubSeq(rows, 1, len)' = SubSeq(rows, 1, n)
    BY <1>1, <1>3
  <2>2. more' = more /\ said' = said
    BY DEF Glm!Verified
  <2>. QED
    BY <1>2, <2>1, <2>2, Zenon DEF Follows
<1>6. Flags'
  BY Zenon DEF GlmInv, Flags, Glm!Verified
<1>7. GlmTypes'
  <2>1. len' \in 0..Len(rows') /\ logit' \in Seq(Vocab)
    BY <1>1, <1>3, <1>4
  <2>. QED
    BY <1>1, <1>2, <2>1 DEF GlmTypes
<1>8. Glm!RowsTrue' /\ Glm!InRoom'
  <2>1. /\ SubSeq(hist', 1, len') = SubSeq(rows', 1, len') /\ logit' = SubSeq(rows', 1, len')
    BY <1>1, <1>3, <1>4
  <2>2. Len(hist') >= len' /\ Len(rows') <= MaxT /\ Len(hist') <= MaxT
    BY <1>1, <1>2, <1>3, GlmSizes
  <2>. QED
    BY <2>1, <2>2 DEF Glm!RowsTrue, Glm!InRoom, Glm!Head0
<1>9. len' + left' + DraftK + 2 <= MaxT /\ pc' # "verify"
  BY <1>1, <1>2, <1>3
<1>. QED
  BY <1>5, <1>6, <1>7, <1>8, <1>9 DEF GlmInv

LEMMA GlmNext == ASSUME Glm!SpecAssumption, GlmInv, [Glm!Next]_glmVars PROVE GlmInv'
<1>1. CASE UNCHANGED glmVars
  BY <1>1 DEF glmVars, GlmInv, GlmTypes, Flags, Follows, Verifying, Glm!RowsTrue, Glm!InRoom,
              Glm!Head0
<1>2. CASE \E c \in Glm!Prompts, n \in Asked : Glm!Prompt(c, n)
  BY <1>2, PromptStep
<1>3. CASE \E n \in Asked : Glm!More(n)
  BY <1>3, MoreStep
<1>4. CASE \E d \in Glm!Drafts : Glm!PickAndForward(d)
  BY <1>4, PickAndForwardStep
<1>5. CASE Glm!Over \/ Glm!PickStop \/ Glm!Interrupt
  BY <1>5, GlmQuiet
<1>. QED
  BY <1>1, <1>2, <1>3, <1>4, <1>5, PickLastStep, AcceptStep, VerifiedStep DEF Glm!Next

LEMMA GlmAlways == Spec => []GlmInv
<1>1. Init => GlmInv
  BY TurnsAssumption, GlmInit DEF Init, TurnsAssumption
<1>2. GlmInv /\ [Next]_vars => GlmInv'
  <2>1. [Next]_vars => [Glm!Next]_glmVars
    BY DEF Next, GlmTurns, GramTurns, ChatTurns, Forward, GlmForwards, Training, vars
  <2>. QED
    BY <2>1, TurnsAssumption, GlmNext DEF TurnsAssumption
<1>. QED
  BY <1>1, <1>2, PTL DEF Spec

\* Without \x02MORE every step of glm's loop is one of greedy decoding.
LEMMA GlmPlainStep ==
    ASSUME Glm!SpecAssumption, GlmInv, [Glm!Next]_glmVars, ~more
    PROVE  [Glm!Plain!Next]_<<said, left, pc # "idle">>
<1>1. CASE UNCHANGED glmVars
  BY <1>1 DEF glmVars
<1>2. ASSUME NEW c \in Glm!Prompts, NEW n \in Asked, Glm!Prompt(c, n) PROVE Glm!Plain!Ask
  BY <1>2, PromptStep DEF Glm!Plain!Ask
<1>3. ASSUME NEW n \in Asked, Glm!More(n) PROVE FALSE
  BY <1>3 DEF Glm!More
<1>4. ASSUME pc = "pick", left > 0
      PROVE  Best(said) = Best(logit)
  BY <1>4, PickIs DEF Follows
<1>5. CASE Glm!Over \/ Glm!PickStop
  BY <1>5 DEF Glm!Over, Glm!PickStop, Glm!Plain!Next, Glm!Plain!End
<1>6. CASE Glm!PickLast
  <2>1. Best(said) = Best(logit)
    BY <1>4, <1>6 DEF Glm!PickLast
  <2>. QED
    BY <1>6, <2>1 DEF Glm!PickLast, Glm!Emit, Glm!Plain!Next, Glm!Plain!Say
<1>7. ASSUME NEW d \in Glm!Drafts, Glm!PickAndForward(d) PROVE Glm!Plain!Say
  <2>1. left > 0
    BY <1>7 DEF Glm!PickAndForward, GlmInv, GlmTypes
  <2>2. Best(said) = Best(logit)
    BY <1>4, <1>7, <2>1 DEF Glm!PickAndForward
  <2>. QED
    BY <1>7, <2>1, <2>2 DEF Glm!PickAndForward, Glm!Emit, Glm!Plain!Say
<1>8. CASE Glm!Accept
  <2>1. said = SubSeq(rows, 1, len + 1 + k)
    BY <1>8, VerifyingIs DEF Glm!Accept, Follows
  <2>2. draft[k + 1] = Best(said)
    BY <1>8, <2>1 DEF Glm!Accept, Glm!GuessSaid, Glm!GuessHolds, Glm!Chosen, Glm!Head0
  <2>. QED
    BY <1>8, <2>2 DEF Glm!Accept, Glm!GuessSaid, Glm!Emit, Glm!Plain!Next, Glm!Plain!Say
<1>9. CASE Glm!Verified
  BY <1>9 DEF Glm!Verified, Glm!Plain!Next, Glm!Plain!End
<1>10. CASE Glm!Interrupt
  BY <1>10 DEF Glm!Interrupt
<1>. QED
  BY <1>1, <1>2, <1>3, <1>5, <1>6, <1>7, <1>8, <1>9, <1>10 DEF Glm!Next, Glm!Plain!Next

-----------------------------------------------------------------------------
(* The n-gram drafts of qwenmoe.                                             *)

LEMMA GramBounds ==
    ASSUME Grams!NgramAssumption
    PROVE  /\ Order \in Nat \ {0} /\ SpecK \in Nat \ {0} /\ Positions \in Nat \ {0}
           /\ Answers \in Nat \ {0} /\ Lengths \subseteq 1..Positions - 2
  BY DEF Grams!NgramAssumption

LEMMA ChoiceIs ==
    ASSUME Grams!NgramAssumption, NEW c \in Seq(Vocab), Len(c) > 0, Len(c) < Positions
    PROVE  Choice(c) \in Vocab
<1>1. Len(c) \in 1..Positions - 1 /\ c \in [1..Len(c) -> Vocab]
  BY GramBounds
<1>. QED
  BY <1>1 DEF Grams!NgramAssumption

\* Every n-gram is filed with a token.
TableOf(V) == \A g \in DOMAIN table : table[g] \in V

LEMMA ObserveIs ==
    ASSUME TableOf(Vocab), NEW h, NEW t \in Vocab, table' = Grams!Observe(h, t)
    PROVE  TableOf(Vocab)'
<1>1. CASE table' = table
  BY <1>1 DEF TableOf
<1>2. CASE \E gram : table' = [g \in DOMAIN table \cup {gram} |->
                                 IF g = gram THEN t ELSE table[g]]
  <2>1. PICK gram : table' = [g \in DOMAIN table \cup {gram} |->
                                IF g = gram THEN t ELSE table[g]]
    BY <1>2
  <2>2. ASSUME NEW g \in DOMAIN table' PROVE table'[g] \in Vocab
    BY <2>1 DEF TableOf
  <2>. QED
    BY <2>2 DEF TableOf
<1>. QED
  BY <1>1, <1>2 DEF Grams!Observe

\* A draft longer by one token, where the table has one.
Extended(c, n) ==
  LET gram == Grams!Last0(out \o c, Order) IN
  IF Len(c) < n - 1 \/ Len(out) < Order \/ gram \notin DOMAIN table THEN c
  ELSE Append(c, table[gram])

LEMMA ExtendedIs ==
    ASSUME TableOf(Vocab), NEW c \in Seq(Vocab), NEW n
    PROVE  Extended(c, n) \in Seq(Vocab) /\ Len(Extended(c, n)) <= Len(c) + 1
<1>. DEFINE gram == Grams!Last0(out \o c, Order)
<1>1. CASE Extended(c, n) = c
  BY <1>1
<1>2. CASE gram \in DOMAIN table /\ Extended(c, n) = Append(c, table[gram])
  <2>1. table[gram] \in Vocab
    BY <1>2 DEF TableOf
  <2>. HIDE DEF gram
  <2>. QED
    BY <1>2, <2>1
<1>. QED
  BY <1>1, <1>2 DEF Extended

\* The first m + 1 drafts.
Chained(m, g) ==
  /\ DOMAIN g = 0..m /\ g = [n \in 0..m |-> g[n]]
  /\ \A n \in 0..m : /\ g[n] \in Seq(Vocab) /\ Len(g[n]) <= n
                     /\ g[n] = IF n = 0 THEN <<>> ELSE Extended(g[n - 1], n)

LEMMA ChainsExist ==
    ASSUME TableOf(Vocab)
    PROVE  \A m \in Nat : \E g : Chained(m, g)
<1>. DEFINE S == {m \in Nat : ~ \E g : Chained(m, g)}
<1>1. SUFFICES ASSUME S # {} PROVE FALSE
  OBVIOUS
<1>2. PICK m \in S : \A n \in S : m <= n
  <2>. HIDE DEF S
  <2>1. S \in SUBSET Nat
    BY DEF S
  <2>. QED
    BY <1>1, <2>1, LeastOf
<1>3. CASE m = 0
  <2>. DEFINE g == [n \in 0..0 |-> <<>>]
  <2>1. Chained(0, g)
    <3>1. ASSUME NEW n \in 0..0
          PROVE  g[n] \in Seq(Vocab) /\ Len(g[n]) <= n /\ n = 0 /\ g[n] = <<>>
      OBVIOUS
    <3>2. DOMAIN g = 0..0 /\ g = [n \in 0..0 |-> g[n]]
      OBVIOUS
    <3>. HIDE DEF g
    <3>. QED
      BY <3>1, <3>2 DEF Chained
  <2>. QED
    BY <1>2, <1>3, <2>1
<1>4. CASE m # 0
  <2>1. m \in Nat /\ m - 1 \in Nat /\ m - 1 < m
    BY <1>2, <1>4
  <2>2. m - 1 \notin S
    BY <1>2, <2>1
  <2>3. PICK g : Chained(m - 1, g)
    BY <2>1, <2>2
  <2>. DEFINE last == Extended(g[m - 1], m)
              h == [n \in 0..m |-> IF n = m THEN last ELSE g[n]]
  <2>4. g[m - 1] \in Seq(Vocab) /\ Len(g[m - 1]) <= m - 1
    <3>1. m - 1 \in 0..m - 1
      BY <2>1
    <3>. QED
      BY <2>3, <3>1 DEF Chained
  <2>5. last \in Seq(Vocab) /\ Len(last) <= m
    <3>1. last \in Seq(Vocab) /\ Len(last) <= Len(g[m - 1]) + 1
      BY <2>4, ExtendedIs
    <3>. HIDE DEF last
    <3>. QED
      BY <2>1, <2>4, <3>1
  <2>. HIDE DEF last
  <2>6. h[m] = last /\ \A n \in 0..m - 1 : h[n] = g[n]
    BY <2>1
  <2>7. DOMAIN h = 0..m /\ h = [n \in 0..m |-> h[n]]
    OBVIOUS
  <2>. HIDE DEF h
  <2>8. ASSUME NEW n \in 0..m
        PROVE  /\ h[n] \in Seq(Vocab) /\ Len(h[n]) <= n
               /\ h[n] = IF n = 0 THEN <<>> ELSE Extended(h[n - 1], n)
    <3>1. CASE n = m
      <4>1. h[m - 1] = g[m - 1]
        BY <2>1, <2>6
      <4>. QED
        BY <1>4, <2>5, <2>6, <3>1, <4>1 DEF last
    <3>2. CASE n \in 0..m - 1
      <4>1. n # 0 => h[n - 1] = g[n - 1]
        BY <2>1, <2>6, <3>2
      <4>2. /\ g[n] \in Seq(Vocab) /\ Len(g[n]) <= n
            /\ g[n] = IF n = 0 THEN <<>> ELSE Extended(g[n - 1], n)
        BY <2>3, <3>2 DEF Chained
      <4>. QED
        BY <2>6, <3>2, <4>1, <4>2
    <3>. QED
      BY <2>1, <3>1, <3>2
  <2>9. Chained(m, h)
    BY <2>7, <2>8 DEF Chained
  <2>. QED
    BY <1>2, <2>9
<1>. QED
  BY <1>3, <1>4

LEMMA ChainIs ==
    ASSUME Grams!NgramAssumption, TableOf(Vocab)
    PROVE  Grams!Chain[Grams!Limit] \in Seq(Vocab) /\ Len(Grams!Chain[Grams!Limit]) <= SpecK
<1>. DEFINE Is(f) == f = [n \in 0..SpecK |-> IF n = 0 THEN <<>> ELSE Extended(f[n - 1], n)]
<1>1. Grams!Chain = CHOOSE f : Is(f)
  BY DEF Grams!Chain, Grams!Limit, Extended
<1>2. SpecK \in Nat
  BY GramBounds
<1>3. \E f : Is(f)
  <2>1. PICK g : Chained(SpecK, g)
    BY <1>2, ChainsExist
  <2>2. Is(g)
    BY <2>1 DEF Chained
  <2>. QED
    BY <2>2
<1>. DEFINE f == Grams!Chain
<1>. HIDE DEF f
<1>4. Is(f)
  BY <1>1, <1>3 DEF f
<1>. HIDE DEF Is
<1>5. ASSUME NEW n \in 0..SpecK
      PROVE  f[n] = IF n = 0 THEN <<>> ELSE Extended(f[n - 1], n)
  BY <1>4 DEF Is
<1>. DEFINE S == {n \in 0..SpecK : ~(f[n] \in Seq(Vocab) /\ Len(f[n]) <= n)}
<1>6. S = {}
  <2>1. SUFFICES ASSUME S # {} PROVE FALSE
    OBVIOUS
  <2>2. PICK m \in S : \A n \in S : m <= n
    <3>1. S \in SUBSET Nat
      BY <1>2
    <3>. HIDE DEF S
    <3>. QED
      BY <2>1, <3>1, LeastOf
  <2>3. m \in 0..SpecK /\ ~(f[m] \in Seq(Vocab) /\ Len(f[m]) <= m)
    BY <2>2
  <2>4. CASE m = 0
    <3>1. f[m] = <<>>
      BY <1>5, <2>3, <2>4
    <3>. QED
      BY <2>3, <2>4, <3>1
  <2>5. CASE m # 0
    <3>1. m - 1 \in 0..SpecK /\ m - 1 < m
      BY <1>2, <2>3, <2>5
    <3>2. m - 1 \notin S
      BY <2>2, <3>1
    <3>3. f[m - 1] \in Seq(Vocab) /\ Len(f[m - 1]) <= m - 1
      BY <3>1, <3>2
    <3>4. f[m] = Extended(f[m - 1], m)
      BY <1>5, <2>3, <2>5
    <3>5. f[m] \in Seq(Vocab) /\ Len(f[m]) <= Len(f[m - 1]) + 1
      BY <3>3, <3>4, ExtendedIs
    <3>. QED
      BY <2>3, <3>1, <3>3, <3>5
  <2>. QED
    BY <2>4, <2>5
<1>7. SpecK \in 0..SpecK
  BY <1>2
<1>8. f[SpecK] \in Seq(Vocab) /\ Len(f[SpecK]) <= SpecK
  BY <1>6, <1>7
<1>. QED
  BY <1>8 DEF f, Grams!Limit

GramTypes ==
  /\ out \in Seq(Vocab) /\ kvrows \in Seq(Vocab) /\ fed \in Seq(Vocab) /\ saved \in Seq(Vocab)
  /\ behind \in Seq(Vocab) /\ guess \in Seq(Vocab) /\ Len(guess) <= SpecK
  /\ done \in 0..Len(guess) /\ naccept \in 0..Len(guess)
  /\ rest \in 0..Answers /\ pos \in Nat /\ Len(out) > 0
  /\ at \in {"pick", "draft", "restore", "replay", "accept", "over", "stopped", "done"}

\* The rows before the last token said are those of what was said.
Behind ==
  /\ pos = Len(out) /\ pos - 1 <= Len(kvrows)
  /\ \A i \in 1..pos - 1 : kvrows[i] = out[i]

\* Every guess is the model's own choice, and has its row; pos was advanced by
\* all of them with the first.
Accepting ==
  LET base == Len(out) - done IN
  /\ base > 0 /\ Len(guess) > 0 /\ Len(kvrows) = base + Len(guess)
  /\ Begins(out, kvrows)
  /\ \A i \in 1..Len(guess) : /\ kvrows[base + i] = guess[i]
                              /\ Choice(SubSeq(kvrows, 1, base + i - 1)) = guess[i]
  /\ pos = IF done = 0 THEN base ELSE base + Len(guess)
  /\ done = 0 => rest > 0

GramInv ==
  /\ GramTypes /\ TableOf(Vocab)
  /\ at \notin {"stopped", "done"} =>
       Len(out) + rest < Positions /\ (rest = 0 => out[Len(out)] \notin Stops)
  /\ at = "pick" /\ rest > 0 => pos = Len(out) /\ Begins(out, kvrows) /\ behind = out
  /\ at = "draft" => rest > 0
  /\ at \in {"draft", "restore", "replay"} => Behind
  /\ at = "accept" => Accepting
  /\ at = "over" => rest = 0
  /\ at = "stopped" => out[Len(out)] \in Stops

LEMMA GramInit == ASSUME Grams!NgramAssumption, Grams!Init PROVE GramInv
<1>1. PICK n \in Lengths : out \in [1..n -> Vocab]
  BY DEF Grams!Init
<1>2. n \in 1..Positions - 2
  BY GramBounds
<1>3. out \in Seq(Vocab) /\ Len(out) = n
  BY <1>1, <1>2, GramBounds
<1>4. /\ pos = Len(out) /\ kvrows = out /\ fed = out /\ behind = out /\ saved = <<>>
      /\ table = <<>> /\ guess = <<>> /\ done = 0 /\ naccept = 0 /\ at = "pick"
      /\ rest = IF Len(out) + Answers + 1 > Positions THEN Positions - Len(out) - 1 ELSE Answers
  BY DEF Grams!Init
<1>5. rest \in 1..Answers /\ Len(out) + rest < Positions
  BY <1>2, <1>3, <1>4, GramBounds
<1>6. <<>> \in Seq(Vocab) /\ Len(<<>>) = 0
  OBVIOUS
<1>7. TableOf(Vocab)
  BY <1>4 DEF TableOf
<1>8. GramTypes
  BY <1>2, <1>3, <1>4, <1>5, <1>6, GramBounds DEF GramTypes
<1>9. Begins(out, kvrows)
  BY <1>3, <1>4 DEF Begins
<1>. QED
  BY <1>4, <1>5, <1>7, <1>8, <1>9 DEF GramInv

\* A forward of the last token alone reads what was said.
LEMMA LastRow ==
    ASSUME GramTypes, Behind
    PROVE  SubSeq(kvrows, 1, pos - 1) \o <<Grams!Last(out)>> = out
<1>. DEFINE t == out[Len(out)]
            r == SubSeq(kvrows, 1, pos - 1) \o <<t>>
<1>1. Grams!Last(out) = t
  BY DEF Grams!Last
<1>2. /\ out \in Seq(Vocab) /\ kvrows \in Seq(Vocab) /\ pos = Len(out) /\ pos \in Nat /\ pos > 0
      /\ pos - 1 \in 0..Len(kvrows) /\ \A i \in 1..pos - 1 : kvrows[i] = out[i]
  BY DEF GramTypes, Behind
<1>3. t \in Vocab
  BY <1>2
<1>4. t = out[pos]
  BY <1>2
<1>. HIDE DEF t
<1>5. <<t>> \in Seq(Vocab) /\ Len(<<t>>) = 1 /\ <<t>>[1] = t
  BY <1>3
<1>6. Laid(r, Vocab, kvrows, pos - 1, <<t>>)
  BY <1>2, <1>5, LaidIs
<1>. HIDE DEF r
<1>7. /\ r \in Seq(Vocab) /\ Len(r) = pos /\ (\A i \in 1..pos - 1 : r[i] = kvrows[i])
      /\ r[pos] = t
  <2>1. pos - 1 + 1 = pos /\ 1 \in 1..Len(<<t>>)
    BY <1>2, <1>5
  <2>2. r[pos - 1 + 1] = t
    BY <1>5, <1>6, <2>1 DEF Laid
  <2>. QED
    BY <1>5, <1>6, <2>1, <2>2 DEF Laid
<1>8. ASSUME NEW i \in 1..pos PROVE r[i] = out[i]
  <2>1. CASE i \in 1..pos - 1
    BY <1>2, <1>7, <2>1
  <2>2. CASE i = pos
    BY <1>4, <1>7, <2>2
  <2>. QED
    BY <1>2, <2>1, <2>2
<1>9. r = out
  BY <1>2, <1>7, <1>8, SeqEqual
<1>. QED
  BY <1>1, <1>9 DEF r

\* A token said, an answer's last one or not.
SaidOne(t, next) ==
  /\ out' = Append(out, t)
  /\ \/ t \in Stops /\ at' = "stopped" /\ rest' = rest
     \/ t \notin Stops /\ at' = next /\ rest' = rest - 1

LEMMA SayIs ==
    ASSUME NEW t, NEW next, Grams!Say(t, next)
    PROVE  SaidOne(t, next)
  BY DEF Grams!Say, SaidOne

LEMMA OneLonger ==
    ASSUME NEW t \in Vocab, NEW next, GramTypes, SaidOne(t, next)
    PROVE  /\ out' \in Seq(Vocab) /\ Len(out') = Len(out) + 1
           /\ (\A i \in 1..Len(out) : out'[i] = out[i]) /\ out'[Len(out')] = t
<1>1. out \in Seq(Vocab) /\ out' = Append(out, t)
  BY DEF GramTypes, SaidOne
<1>. QED
  BY <1>1, AppendProperties

\* It is said as plain decoding says it, if it is the model's choice.
LEMMA SaidPlainly ==
    ASSUME GramInv, NEW next, next \notin {"stopped", "done"}, at \notin {"stopped", "done"},
           rest > 0, Choice(out) \in Vocab, SaidOne(Choice(out), next)
    PROVE  Grams!Plain!Say \/ UNCHANGED <<Grams!Said, rest, at # "done">>
<1>. DEFINE t == Choice(out)
<1>1. /\ out' \in Seq(Vocab) /\ Len(out') = Len(out) + 1
      /\ (\A i \in 1..Len(out) : out'[i] = out[i]) /\ out'[Len(out')] = t
  BY OneLonger DEF GramInv
<1>2. out \in Seq(Vocab) /\ Len(out) > 0
  BY DEF GramInv, GramTypes
<1>3. Grams!Said = out
  BY DEF Grams!Said
<1>4. CASE t \in Stops
  <2>1. at' = "stopped" /\ rest' = rest
    BY <1>4 DEF SaidOne
  <2>2. out' # <<>>
    BY <1>1, <1>2
  <2>3. Grams!Said' = SubSeq(out', 1, Len(out') - 1)
    BY <1>1, <1>4, <2>1, <2>2 DEF Grams!Said, Grams!Front, Grams!Last
  <2>4. Len(out') - 1 = Len(out)
    BY <1>1, <1>2
  <2>5. SubSeq(out', 1, Len(out)) = SubSeq(out, 1, Len(out))
    <3>1. Len(out) \in 0..Len(out') /\ Len(out) <= Len(out)
      BY <1>1, <1>2
    <3>. QED
      BY <1>1, <1>2, <3>1, SameHeads
  <2>6. SubSeq(out, 1, Len(out)) = out
    BY <1>2, WholeHead
  <2>. QED
    BY <1>3, <2>1, <2>3, <2>4, <2>5, <2>6
<1>5. CASE t \notin Stops
  <2>1. at' = next /\ rest' = rest - 1 /\ out' = Append(out, t)
    BY <1>5 DEF SaidOne
  <2>2. Grams!Said' = out'
    BY <2>1 DEF Grams!Said
  <2>. QED
    BY <1>3, <1>5, <2>1, <2>2 DEF Grams!Plain!Say
<1>. QED
  BY <1>4, <1>5

Answering == at \notin {"stopped", "done"}

LEMMA ChoiceOfOut ==
    ASSUME Grams!NgramAssumption, GramInv, Answering, rest > 0
    PROVE  Choice(out) \in Vocab
<1>1. out \in Seq(Vocab) /\ Len(out) > 0 /\ rest \in Nat /\ Len(out) + rest < Positions
  BY DEF GramInv, GramTypes, Answering
<1>2. Len(out) < Positions
  BY <1>1, GramBounds
<1>. QED
  BY <1>1, <1>2, ChoiceIs

\* What is left after a token, and what the last one said is.
LEMMA RoomAfter ==
    ASSUME Grams!NgramAssumption, GramInv, Answering, rest > 0, NEW t \in Vocab, NEW next,
           SaidOne(t, next)
    PROVE  /\ rest' \in 0..Answers
           /\ Answering' => Len(out') + rest' < Positions /\ (rest' = 0 => out'[Len(out')] \notin Stops)
           /\ at' = "stopped" => out'[Len(out')] \in Stops \/ next = "stopped"
           /\ at' \in {"stopped", next} /\ (at' = next /\ next # "stopped" => rest' = rest - 1)
<1>1. out' \in Seq(Vocab) /\ Len(out') = Len(out) + 1 /\ out'[Len(out')] = t
  BY OneLonger DEF GramInv
<1>2. /\ rest \in 0..Answers /\ Len(out) + rest < Positions /\ out \in Seq(Vocab)
  BY DEF GramInv, GramTypes, Answering
<1>3. CASE t \in Stops /\ at' = "stopped" /\ rest' = rest
  BY <1>1, <1>2, <1>3, GramBounds DEF Answering
<1>4. CASE t \notin Stops /\ at' = next /\ rest' = rest - 1
  BY <1>1, <1>2, <1>4, GramBounds DEF Answering
<1>. QED
  BY <1>3, <1>4 DEF SaidOne

LEMMA PickStep ==
    ASSUME Grams!NgramAssumption, GramInv, Grams!Pick
    PROVE  GramInv' /\ (Grams!Plain!Say \/ UNCHANGED <<Grams!Said, rest, at # "done">>)
<1>. DEFINE t == Choice(out)
            next == IF rest > 1 THEN "draft" ELSE "over"
<1>1. /\ at = "pick" /\ rest > 0 /\ Grams!Say(Choice(behind), next) /\ pos' = pos + 1
      /\ table' = Grams!Observe(out', Choice(behind))
      /\ UNCHANGED <<kvrows, fed, saved, behind, guess, done, naccept>>
  BY DEF Grams!Pick
<1>2. pos = Len(out) /\ Begins(out, kvrows) /\ behind = out /\ Answering /\ GramTypes /\ TableOf(Vocab)
  BY <1>1 DEF GramInv, Answering
<1>3. t \in Vocab /\ SaidOne(t, next) /\ table' = Grams!Observe(out', t)
  BY <1>1, <1>2, ChoiceOfOut, SayIs
<1>4. Grams!Plain!Say \/ UNCHANGED <<Grams!Said, rest, at # "done">>
  <2>1. next \notin {"stopped", "done"}
    OBVIOUS
  <2>. HIDE DEF next
  <2>. QED
    BY <1>1, <1>2, <1>3, <2>1, SaidPlainly DEF Answering
<1>. HIDE DEF t
<1>5. /\ out' \in Seq(Vocab) /\ Len(out') = Len(out) + 1
      /\ (\A i \in 1..Len(out) : out'[i] = out[i]) /\ out'[Len(out')] = t
  <2>. HIDE DEF next
  <2>. QED
    BY <1>2, <1>3, OneLonger
<1>6. TableOf(Vocab)'
  BY <1>2, <1>3, ObserveIs
<1>7. /\ rest' \in 0..Answers
      /\ Answering' => Len(out') + rest' < Positions /\ (rest' = 0 => out'[Len(out')] \notin Stops)
      /\ at' = "stopped" => out'[Len(out')] \in Stops
      /\ at' \in {"stopped", next} /\ (at' = next => rest' = rest - 1)
  <2>1. next \in {"draft", "over"}
    OBVIOUS
  <2>. HIDE DEF next
  <2>. QED
    BY <1>1, <1>2, <1>3, <2>1, RoomAfter
<1>8. at' = "draft" => rest' > 0
  BY <1>1, <1>2, <1>7 DEF GramTypes
<1>9. at' = "over" => rest' = 0
  BY <1>1, <1>2, <1>7 DEF GramTypes
<1>10. at' \in {"draft", "over", "stopped"}
  BY <1>7
<1>. HIDE DEF next
<1>11. Behind'
  <2>1. pos' = Len(out') /\ pos' - 1 = Len(out)
    BY <1>1, <1>2, <1>5 DEF GramTypes
  <2>2. Len(out) <= Len(kvrows) /\ \A i \in 1..Len(out) : kvrows[i] = out[i]
    BY <1>2 DEF Begins
  <2>. QED
    BY <1>1, <1>5, <2>1, <2>2 DEF Behind
<1>12. GramTypes'
  <2>1. pos' \in Nat /\ Len(out') > 0
    BY <1>1, <1>2, <1>5 DEF GramTypes
  <2>. QED
    BY <1>1, <1>2, <1>5, <1>7, <1>10, <2>1 DEF GramTypes
<1>13. GramInv'
  BY <1>6, <1>7, <1>8, <1>9, <1>10, <1>11, <1>12 DEF GramInv, Answering
<1>. QED
  BY <1>4, <1>13

\* The forward of the last token, for the logits of the next.
LEMMA StepLastStep ==
    ASSUME Hybrid = FALSE, GramInv, Behind, Answering, at # "over", Grams!StepLast("pick"),
           UNCHANGED <<out, pos, saved, table, rest, guess, done, naccept>>
    PROVE  GramInv' /\ UNCHANGED <<Grams!Said, rest, at # "done">>
<1>1. /\ kvrows' = SubSeq(kvrows, 1, pos - 1) \o <<Grams!Last(out)>>
      /\ behind' = SubSeq(kvrows, 1, pos - 1) \o <<Grams!Last(out)>>
      /\ fed' = fed \o <<Grams!Last(out)>> /\ at' = "pick"
  BY DEF Grams!StepLast, Grams!Forward, Grams!Seen, Grams!Rows, Grams!Head0
<1>2. GramTypes /\ TableOf(Vocab) /\ Len(out) + rest < Positions /\ (rest = 0 => out[Len(out)] \notin Stops)
  BY DEF GramInv, Answering
<1>3. kvrows' = out /\ behind' = out
  BY <1>1, <1>2, LastRow
<1>4. out \in Seq(Vocab) /\ Len(out) > 0 /\ pos = Len(out)
  BY <1>2 DEF GramTypes, Behind
<1>5. fed' \in Seq(Vocab)
  <2>1. Grams!Last(out) \in Vocab
    BY <1>4 DEF Grams!Last
  <2>. QED
    BY <1>1, <1>2, <2>1 DEF GramTypes
<1>6. GramTypes'
  BY <1>1, <1>2, <1>3, <1>4, <1>5 DEF GramTypes
<1>7. TableOf(Vocab)'
  BY <1>2 DEF TableOf
<1>8. Begins(out', kvrows')
  BY <1>3, <1>4 DEF Begins
<1>9. Grams!Said = out /\ Grams!Said' = out'
  BY <1>1 DEF Grams!Said, Answering
<1>10. GramInv'
  BY <1>1, <1>2, <1>3, <1>4, <1>6, <1>7, <1>8 DEF GramInv
<1>. QED
  BY <1>1, <1>9, <1>10 DEF Answering

LEMMA ReplayStep ==
    ASSUME Grams!NgramAssumption, Hybrid = FALSE, GramInv, Grams!Replay
    PROVE  GramInv' /\ (Grams!Plain!Say \/ UNCHANGED <<Grams!Said, rest, at # "done">>)
<1>. DEFINE t == Choice(out)
            last == <<Grams!Last(out)>>
<1>1. /\ at = "replay" /\ done < naccept /\ rest > 0 /\ pos' = pos + 1 /\ done' = done + 1
      /\ kvrows' = SubSeq(kvrows, 1, pos - 1) \o last /\ fed' = fed \o last
      /\ Grams!Say(Choice(SubSeq(kvrows, 1, pos - 1) \o last), "replay")
      /\ UNCHANGED <<saved, behind, table, guess, naccept>>
  BY DEF Grams!Replay, Grams!Forward, Grams!Seen, Grams!Rows, Grams!Head0
<1>2. GramTypes /\ TableOf(Vocab) /\ Answering /\ Behind
  BY <1>1 DEF GramInv, Answering
<1>3. kvrows' = out /\ Grams!Say(t, "replay")
  BY <1>1, <1>2, LastRow
<1>4. t \in Vocab /\ SaidOne(t, "replay")
  BY <1>1, <1>2, <1>3, ChoiceOfOut, SayIs
<1>5. Grams!Plain!Say \/ UNCHANGED <<Grams!Said, rest, at # "done">>
  BY <1>1, <1>4, SaidPlainly
<1>6. out \in Seq(Vocab) /\ Len(out) > 0 /\ pos = Len(out)
  BY <1>2 DEF GramTypes, Behind
<1>7. fed' \in Seq(Vocab)
  <2>1. Grams!Last(out) \in Vocab
    BY <1>6 DEF Grams!Last
  <2>. QED
    BY <1>1, <1>2, <2>1 DEF GramTypes
<1>. HIDE DEF t, last
<1>8. /\ out' \in Seq(Vocab) /\ Len(out') = Len(out) + 1
      /\ (\A i \in 1..Len(out) : out'[i] = out[i]) /\ out'[Len(out')] = t
  BY <1>2, <1>4, OneLonger
<1>9. /\ rest' \in 0..Answers
      /\ Answering' => Len(out') + rest' < Positions /\ (rest' = 0 => out'[Len(out')] \notin Stops)
      /\ at' = "stopped" => out'[Len(out')] \in Stops
      /\ at' \in {"stopped", "replay"}
  BY <1>1, <1>2, <1>4, RoomAfter
<1>10. Behind'
  <2>1. pos' = Len(out') /\ pos' - 1 = Len(out)
    BY <1>1, <1>6, <1>8
  <2>. QED
    BY <1>3, <1>8, <2>1 DEF Behind
<1>11. GramTypes'
  <2>1. pos' \in Nat /\ Len(out') > 0 /\ done' \in 0..Len(guess')
    BY <1>1, <1>2, <1>8 DEF GramTypes
  <2>. QED
    BY <1>1, <1>2, <1>3, <1>6, <1>7, <1>8, <1>9, <2>1 DEF GramTypes
<1>12. TableOf(Vocab)'
  BY <1>1, <1>2 DEF TableOf
<1>13. GramInv'
  BY <1>9, <1>10, <1>11, <1>12 DEF GramInv, Answering
<1>. QED
  BY <1>5, <1>13

\* Two sequences agree up to n, where m is reached or they part.
Parts(x, y, m, n) == /\ \A i \in 1..n : x[i] = y[i]
                     /\ n < m => x[n + 1] # y[n + 1]

LEMMA Parting ==
    ASSUME NEW x, NEW y, NEW m \in Nat
    PROVE  \E n \in 0..m : Parts(x, y, m, n)
<1>. DEFINE S == {j \in 0..m : j = m \/ x[j + 1] # y[j + 1]}
<1>1. S \in SUBSET Nat /\ m \in S
  OBVIOUS
<1>2. PICK n \in S : \A j \in S : n <= j
  <2>. HIDE DEF S
  <2>. QED
    BY <1>1, LeastOf
<1>3. ASSUME NEW i \in 1..n PROVE x[i] = y[i]
  <2>1. i - 1 \in 0..m /\ i - 1 < n /\ (i - 1) + 1 = i
    OBVIOUS
  <2>2. ~(i - 1 \in S)
    BY <1>2, <2>1
  <2>. QED
    BY <2>1, <2>2
<1>4. Parts(x, y, m, n)
  BY <1>3 DEF Parts
<1>. QED
  BY <1>4

\* A forward of the last token and more reads what was said, and more.
LEMMA DraftRows ==
    ASSUME GramTypes, Behind, NEW e \in Seq(Vocab)
    PROVE  Laid(SubSeq(kvrows, 1, pos - 1) \o (<<Grams!Last(out)>> \o e), Vocab, out, Len(out), e)
<1>. DEFINE t == out[Len(out)]
            ids == <<t>> \o e
            r == SubSeq(kvrows, 1, pos - 1) \o ids
<1>1. Grams!Last(out) = t
  BY DEF Grams!Last
<1>2. /\ out \in Seq(Vocab) /\ kvrows \in Seq(Vocab) /\ pos = Len(out) /\ pos \in Nat /\ pos > 0
      /\ pos - 1 \in 0..Len(kvrows) /\ \A i \in 1..pos - 1 : kvrows[i] = out[i]
  BY DEF GramTypes, Behind
<1>3. t \in Vocab /\ t = out[pos]
  BY <1>2
<1>. HIDE DEF t
<1>4. /\ ids \in Seq(Vocab) /\ Len(ids) = 1 + Len(e) /\ ids[1] = t
      /\ \A i \in 1..Len(e) : ids[1 + i] = e[i]
  <2>1. <<t>> \in Seq(Vocab) /\ Len(<<t>>) = 1 /\ <<t>>[1] = t
    BY <1>3
  <2>. DEFINE a == <<t>>
              z == a \o e
  <2>. HIDE DEF a
  <2>2. a \in Seq(Vocab) /\ Len(a) = 1 /\ a[1] = t
    BY <2>1 DEF a
  <2>3. /\ z \in Seq(Vocab) /\ Len(z) = Len(a) + Len(e)
        /\ \A i \in 1..Len(a) + Len(e) : z[i] = IF i <= Len(a) THEN a[i] ELSE e[i - Len(a)]
    BY <2>2, ConcatProperties
  <2>. HIDE DEF z
  <2>4. z[1] = t
    BY <2>2, <2>3
  <2>5. ASSUME NEW i \in 1..Len(e) PROVE z[1 + i] = e[i]
    <3>1. 1 + i \in 1..Len(a) + Len(e) /\ ~(1 + i <= Len(a)) /\ 1 + i - Len(a) = i
      BY <2>2
    <3>. QED
      BY <2>3, <3>1
  <2>. QED
    BY <2>2, <2>3, <2>4, <2>5 DEF z, a
<1>. HIDE DEF ids
<1>5. Laid(r, Vocab, kvrows, pos - 1, ids)
  BY <1>2, <1>4, LaidIs
<1>. HIDE DEF r
<1>6. /\ r \in Seq(Vocab) /\ Len(r) = pos + Len(e) /\ \A i \in 1..pos - 1 : r[i] = kvrows[i]
  <2>1. /\ r \in Seq(Vocab) /\ Len(r) = pos - 1 + Len(ids)
        /\ \A i \in 1..pos - 1 : r[i] = kvrows[i]
    BY <1>5, Zenon DEF Laid
  <2>2. Len(ids) = 1 + Len(e) /\ pos \in Nat /\ Len(e) \in Nat
    BY <1>2, <1>4
  <2>3. pos - 1 + Len(ids) = pos + Len(e)
    BY <2>2
  <2>. QED
    BY <2>1, <2>3
<1>7. ASSUME NEW i \in 1..Len(e) PROVE r[pos + i] = e[i]
  <2>1. 1 + i \in 1..Len(ids) /\ pos - 1 + (1 + i) = pos + i
    BY <1>2, <1>4
  <2>2. r[pos - 1 + (1 + i)] = ids[1 + i]
    BY <1>5, <2>1 DEF Laid
  <2>3. ids[1 + i] = e[i]
    BY <1>4
  <2>. QED
    BY <2>1, <2>2, <2>3
<1>8. r[pos] = t
  <2>1. 1 \in 1..Len(ids) /\ pos - 1 + 1 = pos
    BY <1>2, <1>4
  <2>2. r[pos - 1 + 1] = ids[1]
    BY <1>5, <2>1 DEF Laid
  <2>. QED
    BY <1>4, <2>1, <2>2
<1>9. ASSUME NEW i \in 1..pos PROVE r[i] = out[i]
  <2>1. CASE i \in 1..pos - 1
    BY <1>2, <1>6, <2>1
  <2>2. CASE i = pos
    BY <1>3, <1>8, <2>2
  <2>. QED
    BY <1>2, <2>1, <2>2
<1>10. Laid(r, Vocab, out, Len(out), e)
  BY <1>2, <1>6, <1>7, <1>9 DEF Laid
<1>. QED
  BY <1>1, <1>10 DEF r, ids

LEMMA AgreesIs ==
    ASSUME NEW d \in Seq(Vocab)
    PROVE  /\ Grams!Agrees(d) \in 0..Len(d)
           /\ \A i \in 1..Grams!Agrees(d) : Grams!Argmax(d, i) = d[i]
<1>. DEFINE x == [i \in 1..Len(d) |-> Grams!Argmax(d, i)]
            Is(n) == /\ \A i \in 1..n : Grams!Argmax(d, i) = d[i]
                     /\ n < Len(d) => Grams!Argmax(d, n + 1) # d[n + 1]
<1>1. Grams!Agrees(d) = CHOOSE n \in 0..Len(d) : Is(n)
  BY DEF Grams!Agrees
<1>2. PICK n \in 0..Len(d) : Parts(x, d, Len(d), n)
  <2>1. Len(d) \in Nat
    OBVIOUS
  <2>. DEFINE y == x
  <2>. HIDE DEF y
  <2>2. \E n \in 0..Len(d) : Parts(y, d, Len(d), n)
    BY <2>1, Parting
  <2>. QED
    BY <2>2 DEF y
<1>3. Is(n)
  <2>1. ASSUME NEW i \in 1..n PROVE Grams!Argmax(d, i) = d[i]
    <3>1. i \in 1..Len(d)
      BY <1>2
    <3>2. x[i] = d[i]
      BY <1>2 DEF Parts
    <3>. QED
      BY <3>1, <3>2
  <2>2. ASSUME n < Len(d) PROVE Grams!Argmax(d, n + 1) # d[n + 1]
    <3>1. n + 1 \in 1..Len(d)
      BY <1>2, <2>2
    <3>2. x[n + 1] # d[n + 1]
      BY <1>2, <2>2 DEF Parts
    <3>. QED
      BY <3>1, <3>2
  <2>. QED
    BY <2>1, <2>2
<1>4. \E m \in 0..Len(d) : Is(m)
  BY <1>2, <1>3
<1>. HIDE DEF Is
<1>5. Grams!Agrees(d) \in 0..Len(d) /\ Is(Grams!Agrees(d))
  BY <1>1, <1>4
<1>. QED
  BY <1>5 DEF Is

\* Every guess the forward confirms is the model's choice after those before it.
LEMMA AllHold ==
    ASSUME Hybrid = FALSE, GramTypes, Behind, NEW d \in Seq(Vocab), NEW r,
           r = SubSeq(kvrows, 1, pos - 1) \o (<<Grams!Last(out)>> \o d), NEW i \in 1..Len(d)
    PROVE  Grams!Argmax(d, i) = Choice(SubSeq(r, 1, Len(out) + i - 1))
<1>. DEFINE e == SubSeq(d, 1, i - 1)
            s == SubSeq(kvrows, 1, pos - 1) \o (<<Grams!Last(out)>> \o e)
            m == Len(out) + i - 1
            h == SubSeq(r, 1, m)
<1>1. Grams!Argmax(d, i) = Choice(s)
  BY DEF Grams!Argmax, Grams!Seen, Grams!Rows, Grams!Head0
<1>2. e \in Seq(Vocab) /\ Len(e) = i - 1 /\ \A j \in 1..i - 1 : e[j] = d[j]
  <2>1. i - 1 \in 0..Len(d)
    OBVIOUS
  <2>. QED
    BY <2>1, HeadOf
<1>. HIDE DEF e
<1>3. Laid(s, Vocab, out, Len(out), e)
  BY <1>2, DraftRows
<1>4. Laid(r, Vocab, out, Len(out), d)
  BY DraftRows
<1>. HIDE DEF s
<1>5. Len(out) \in Nat
  BY DEF GramTypes
<1>6. m \in 0..Len(r) /\ r \in Seq(Vocab) /\ s \in Seq(Vocab) /\ Len(s) = m
  BY <1>2, <1>3, <1>4, <1>5 DEF Laid
<1>7. h \in Seq(Vocab) /\ Len(h) = m /\ \A j \in 1..m : h[j] = r[j]
  <2>. HIDE DEF m
  <2>. QED
    BY <1>6, HeadOf
<1>8. ASSUME NEW j \in 1..m PROVE r[j] = s[j]
  <2>3. j \in 1..Len(out) \/ j > Len(out)
    <3>1. j \in Nat /\ j > 0
      BY <1>6
    <3>. QED
      BY <1>5, <3>1
  <2>1. CASE j \in 1..Len(out)
    BY <1>3, <1>4, <2>1 DEF Laid
  <2>2. CASE j > Len(out)
    <3>. DEFINE q == j - Len(out)
    <3>1. q \in 1..i - 1 /\ q \in 1..Len(d) /\ q \in 1..Len(e) /\ Len(out) + q = j
      BY <1>2, <1>5, <2>2
    <3>. HIDE DEF q
    <3>2. r[Len(out) + q] = d[q] /\ s[Len(out) + q] = e[q]
      BY <1>3, <1>4, <3>1 DEF Laid
    <3>. QED
      BY <1>2, <3>1, <3>2
  <2>. QED
    BY <2>1, <2>2, <2>3, Zenon
<1>. HIDE DEF h
<1>9. h = s
  BY <1>6, <1>7, <1>8, SeqEqual
<1>. QED
  BY <1>1, <1>9 DEF h

LEMMA VerifyStep ==
    ASSUME Grams!NgramAssumption, Hybrid = FALSE, GramInv,
           NEW d \in Grams!Prefixes(Grams!Chain[Grams!Limit]), Grams!Verify(d)
    PROVE  GramInv' /\ UNCHANGED <<Grams!Said, rest, at # "done">>
<1>. DEFINE r == SubSeq(kvrows, 1, pos - 1) \o (<<Grams!Last(out)>> \o d)
            n == Grams!Agrees(d)
<1>1. /\ at = "draft" /\ d # <<>> /\ kvrows' = r /\ fed' = fed \o (<<Grams!Last(out)>> \o d)
      /\ saved' = fed /\ guess' = d /\ done' = 0 /\ naccept' = n
      /\ at' = IF n < Len(d) THEN "restore" ELSE "accept"
      /\ UNCHANGED <<out, pos, behind, table, rest>>
  BY DEF Grams!Verify, Grams!Forward, Grams!Rows, Grams!Head0
<1>2. /\ GramTypes /\ TableOf(Vocab) /\ Behind /\ rest > 0
      /\ Len(out) + rest < Positions
  BY <1>1 DEF GramInv
<1>3. d \in Seq(Vocab) /\ Len(d) <= SpecK
  <2>. DEFINE c == Grams!Chain[Grams!Limit]
  <2>1. c \in Seq(Vocab) /\ Len(c) <= SpecK
    BY <1>2, ChainIs
  <2>2. PICK l \in 0..Len(c) : d = SubSeq(c, 1, l)
    BY DEF Grams!Prefixes
  <2>. HIDE DEF c
  <2>3. d \in Seq(Vocab) /\ Len(d) = l
    BY <2>1, <2>2, HeadOf
  <2>. QED
    BY <2>1, <2>2, <2>3, GramBounds
<1>4. Len(d) > 0
  BY <1>1, <1>3
<1>5. n \in 0..Len(d) /\ \A i \in 1..n : Grams!Argmax(d, i) = d[i]
  BY <1>3, AgreesIs
<1>6. Laid(r, Vocab, out, Len(out), d)
  BY <1>2, <1>3, DraftRows
<1>7. ASSUME NEW i \in 1..Len(d) PROVE Grams!Argmax(d, i) = Choice(SubSeq(r, 1, Len(out) + i - 1))
  BY <1>2, <1>3, AllHold
<1>8. fed' \in Seq(Vocab)
  <2>1. Grams!Last(out) \in Vocab
    BY <1>2 DEF Grams!Last, GramTypes
  <2>2. <<Grams!Last(out)>> \o d \in Seq(Vocab)
    BY <1>3, <2>1
  <2>. QED
    BY <1>1, <1>2, <2>2 DEF GramTypes
<1>. HIDE DEF r, n
<1>9. /\ out \in Seq(Vocab) /\ Len(out) > 0 /\ pos = Len(out) /\ pos \in Nat
      /\ kvrows' \in Seq(Vocab) /\ Len(kvrows') = Len(out) + Len(d)
      /\ (\A i \in 1..Len(out) : kvrows'[i] = out[i])
      /\ \A i \in 1..Len(d) : kvrows'[Len(out) + i] = d[i]
  BY <1>1, <1>2, <1>6 DEF GramTypes, Behind, Laid
<1>10. GramTypes'
  <2>1. done' \in 0..Len(guess') /\ naccept' \in 0..Len(guess')
    BY <1>1, <1>3, <1>5
  <2>. QED
    BY <1>1, <1>2, <1>3, <1>8, <1>9, <2>1 DEF GramTypes
<1>11. at' = "restore" => Behind'
  BY <1>1, <1>3, <1>9 DEF Behind
<1>12. ASSUME at' = "accept" PROVE Accepting'
  <2>1. n = Len(d)
    BY <1>1, <1>3, <1>5, <1>12
  <2>. DEFINE base == Len(out) - done
  <2>2. base' = Len(out) /\ base' > 0
    BY <1>1, <1>9
  <2>3. Begins(out', kvrows')
    BY <1>1, <1>3, <1>9 DEF Begins
  <2>4. ASSUME NEW i \in 1..Len(d)
        PROVE  /\ kvrows'[base' + i] = d[i]
               /\ Choice(SubSeq(kvrows', 1, base' + i - 1)) = d[i]
    <3>1. Grams!Argmax(d, i) = d[i]
      BY <1>5, <2>1
    <3>2. Choice(SubSeq(kvrows', 1, Len(out) + i - 1)) = d[i]
      BY <1>1, <1>7, <3>1
    <3>. QED
      BY <1>9, <2>2, <3>2
  <2>5. pos' = base' /\ rest' > 0 /\ Len(guess') > 0 /\ Len(kvrows') = base' + Len(guess')
    BY <1>1, <1>2, <1>4, <1>9, <2>2
  <2>6. \A i \in 1..Len(guess') : /\ kvrows'[base' + i] = guess'[i]
                                  /\ Choice(SubSeq(kvrows', 1, base' + i - 1)) = guess'[i]
    BY <1>1, <2>4
  <2>. HIDE DEF base
  <2>7. done' = 0
    BY <1>1
  <2>. QED
    BY <2>2, <2>3, <2>5, <2>6, <2>7 DEF Accepting, base
<1>13. Grams!Said = out /\ Grams!Said' = out'
  BY <1>1 DEF Grams!Said
<1>14. rest' > 0 /\ Len(out') + rest' < Positions /\ at' \in {"restore", "accept"}
  BY <1>1, <1>2
<1>15. TableOf(Vocab)'
  BY <1>1, <1>2 DEF TableOf
<1>16. GramInv'
  <2>1. rest' # 0
    BY <1>10, <1>14 DEF GramTypes
  <2>. QED
    BY <1>10, <1>11, <1>12, <1>14, <1>15, <2>1 DEF GramInv
<1>. QED
  BY <1>1, <1>13, <1>14, <1>16

LEMMA RestoreStep ==
    ASSUME GramInv, Grams!Restore
    PROVE  GramInv' /\ UNCHANGED <<Grams!Said, rest, at # "done">>
<1>1. /\ at = "restore" /\ at' = "replay" /\ fed' = saved
      /\ UNCHANGED <<out, pos, kvrows, saved, behind, table, rest, guess, done, naccept>>
  BY DEF Grams!Restore
<1>2. GramTypes'
  BY <1>1 DEF GramInv, GramTypes
<1>3. TableOf(Vocab)' /\ Behind'
  BY <1>1 DEF GramInv, TableOf, Behind
<1>4. /\ Len(out') + rest' < Positions /\ (rest' = 0 => out'[Len(out')] \notin Stops)
  BY <1>1 DEF GramInv
<1>5. Grams!Said = out /\ Grams!Said' = out'
  BY <1>1 DEF Grams!Said
<1>. QED
  BY <1>1, <1>2, <1>3, <1>4, <1>5 DEF GramInv

LEMMA GuessStep ==
    ASSUME Grams!NgramAssumption, GramInv, Grams!Accept
    PROVE  GramInv' /\ (Grams!Plain!Say \/ UNCHANGED <<Grams!Said, rest, at # "done">>)
<1>. DEFINE t == guess[done + 1]
            base == Len(out) - done
<1>1. /\ at = "accept" /\ done < Len(guess) /\ rest > 0 /\ Grams!Say(t, "accept")
      /\ pos' = IF done = 0 THEN pos + Len(guess) ELSE pos
      /\ done' = done + 1
      /\ UNCHANGED <<kvrows, fed, saved, behind, table, guess, naccept>>
  BY DEF Grams!Accept, Grams!Advanced
<1>2. GramTypes /\ TableOf(Vocab) /\ Answering /\ Accepting
  BY <1>1 DEF GramInv, Answering
<1>3. /\ out \in Seq(Vocab) /\ kvrows \in Seq(Vocab) /\ guess \in Seq(Vocab) /\ done \in 0..Len(guess)
      /\ Len(out) > 0
  BY <1>2 DEF GramTypes
<1>4. /\ base \in Nat /\ base > 0 /\ Len(kvrows) = base + Len(guess)
      /\ Begins(out, kvrows)
      /\ pos = IF done = 0 THEN base ELSE base + Len(guess)
  BY <1>2, <1>3 DEF Accepting
<1>5. ASSUME NEW i \in 1..Len(guess)
      PROVE  kvrows[base + i] = guess[i] /\ Choice(SubSeq(kvrows, 1, base + i - 1)) = guess[i]
  BY <1>2 DEF Accepting
<1>6. base + (done + 1) - 1 = Len(out) /\ base + (done + 1) = Len(out) + 1
  BY <1>3
<1>7. done + 1 \in 1..Len(guess)
  BY <1>1, <1>3
<1>8. t \in Vocab /\ kvrows[Len(out) + 1] = t /\ Choice(SubSeq(kvrows, 1, Len(out))) = t
  BY <1>3, <1>5, <1>6, <1>7
<1>9. SubSeq(kvrows, 1, Len(out)) = out
  <2>1. Len(out) \in 0..Len(kvrows) /\ Len(out) <= Len(out) /\ \A i \in 1..Len(out) : kvrows[i] = out[i]
    BY <1>3, <1>4 DEF Begins
  <2>2. SubSeq(kvrows, 1, Len(out)) = SubSeq(out, 1, Len(out))
    BY <1>3, <2>1, SameHeads
  <2>. QED
    BY <1>3, <2>2, WholeHead
<1>10. t = Choice(out)
  BY <1>8, <1>9
<1>. HIDE DEF t
<1>11. SaidOne(t, "accept")
  BY <1>1, SayIs
<1>12. Grams!Plain!Say \/ UNCHANGED <<Grams!Said, rest, at # "done">>
  BY <1>1, <1>8, <1>10, <1>11, SaidPlainly
<1>13. /\ out' \in Seq(Vocab) /\ Len(out') = Len(out) + 1
       /\ (\A i \in 1..Len(out) : out'[i] = out[i]) /\ out'[Len(out')] = t
  BY <1>2, <1>8, <1>11, OneLonger
<1>14. /\ rest' \in 0..Answers
       /\ Answering' => Len(out') + rest' < Positions /\ (rest' = 0 => out'[Len(out')] \notin Stops)
       /\ at' = "stopped" => out'[Len(out')] \in Stops
       /\ at' \in {"stopped", "accept"}
  BY <1>1, <1>2, <1>8, <1>11, RoomAfter
<1>15. base' = base /\ done' # 0 /\ pos' = base + Len(guess)
  BY <1>1, <1>3, <1>4, <1>13
<1>16. Begins(out', kvrows')
  <2>1. Len(out') <= Len(kvrows)
    BY <1>1, <1>3, <1>4, <1>13
  <2>2. ASSUME NEW i \in 1..Len(out) + 1 PROVE out'[i] = kvrows[i]
    <3>1. CASE i \in 1..Len(out)
      BY <1>4, <1>13, <3>1 DEF Begins
    <3>2. CASE i = Len(out) + 1
      BY <1>8, <1>13, <3>2
    <3>. QED
      BY <1>3, <3>1, <3>2
  <2>. QED
    BY <1>1, <1>13, <2>1, <2>2 DEF Begins
<1>17. Accepting'
  <2>1. /\ base' > 0 /\ Len(guess') > 0 /\ Len(kvrows') = base' + Len(guess')
        /\ pos' = IF done' = 0 THEN base' ELSE base' + Len(guess')
        /\ (done' = 0 => rest' > 0)
    BY <1>1, <1>3, <1>4, <1>15, SMTT(60)
  <2>2. \A i \in 1..Len(guess') : /\ kvrows'[base' + i] = guess'[i]
                                  /\ Choice(SubSeq(kvrows', 1, base' + i - 1)) = guess'[i]
    BY <1>1, <1>5, <1>15
  <2>. HIDE DEF base
  <2>. QED
    BY <1>16, <2>1, <2>2 DEF Accepting, base
<1>18. GramTypes'
  <2>1. pos' \in Nat /\ done' \in 0..Len(guess') /\ Len(out') > 0
    BY <1>1, <1>3, <1>4, <1>7, <1>13, <1>15, SMTT(60)
  <2>. QED
    BY <1>1, <1>2, <1>13, <1>14, <2>1 DEF GramTypes
<1>19. TableOf(Vocab)'
  BY <1>1, <1>2 DEF TableOf
<1>20. GramInv'
  BY <1>14, <1>17, <1>18, <1>19 DEF GramInv, Answering
<1>. QED
  BY <1>12, <1>20

LEMMA AcceptedStep ==
    ASSUME Grams!NgramAssumption, Hybrid = FALSE, GramInv, Grams!Accepted
    PROVE  GramInv' /\ UNCHANGED <<Grams!Said, rest, at # "done">>
<1>1. /\ at = "accept" /\ (done = Len(guess) \/ rest = 0) /\ Grams!StepLast("pick")
      /\ UNCHANGED <<out, pos, saved, table, rest, guess, done, naccept>>
  BY DEF Grams!Accepted
<1>2. /\ GramTypes /\ TableOf(Vocab) /\ Answering /\ Accepting
      /\ Len(out) + rest < Positions /\ (rest = 0 => out[Len(out)] \notin Stops)
  BY <1>1 DEF GramInv, Answering
<1>3. /\ out \in Seq(Vocab) /\ kvrows \in Seq(Vocab) /\ guess \in Seq(Vocab) /\ done \in 0..Len(guess)
      /\ Len(out) > 0 /\ rest \in Nat
  BY <1>2 DEF GramTypes
<1>. DEFINE base == Len(out) - done
<1>4. /\ base \in Nat /\ base > 0 /\ Len(kvrows) = base + Len(guess) /\ Len(guess) > 0
      /\ Begins(out, kvrows) /\ (done = 0 => rest > 0)
      /\ pos = IF done = 0 THEN base ELSE base + Len(guess)
  BY <1>2, <1>3 DEF Accepting
<1>5. CASE done = Len(guess)
  <2>1. pos = Len(out)
    BY <1>3, <1>4, <1>5
  <2>2. Behind
    BY <1>3, <1>4, <2>1, SMTT(60) DEF Behind, Begins
  <2>. QED
    BY <1>1, <1>2, <2>2, StepLastStep
<1>6. CASE done # Len(guess)
  <2>. DEFINE last == <<Grams!Last(out)>>
              r == SubSeq(kvrows, 1, pos - 1) \o last
  <2>1. rest = 0 /\ done # 0 /\ pos = Len(kvrows) /\ pos - 1 \in 0..Len(kvrows) /\ pos \in Nat
    BY <1>1, <1>3, <1>4, <1>6
  <2>2. kvrows' = r /\ behind' = r /\ fed' = fed \o last /\ at' = "pick"
    BY <1>1 DEF Grams!StepLast, Grams!Forward, Grams!Seen, Grams!Rows, Grams!Head0
  <2>3. last \in Seq(Vocab)
    BY <1>3 DEF Grams!Last
  <2>. HIDE DEF last
  <2>4. r \in Seq(Vocab)
    BY <1>3, <2>1, <2>3, LaidIs DEF Laid
  <2>. HIDE DEF r
  <2>5. fed' \in Seq(Vocab)
    BY <1>2, <2>2, <2>3 DEF GramTypes
  <2>6. GramTypes'
    BY <1>1, <1>2, <2>2, <2>4, <2>5 DEF GramTypes
  <2>7. TableOf(Vocab)'
    BY <1>1, <1>2 DEF TableOf
  <2>8. Grams!Said = out /\ Grams!Said' = out'
    BY <1>1, <2>2 DEF Grams!Said
  <2>9. GramInv'
    BY <1>1, <1>2, <2>1, <2>2, <2>6, <2>7 DEF GramInv
  <2>. QED
    BY <1>1, <2>2, <2>8, <2>9
<1>. QED
  BY <1>5, <1>6

LEMMA OverStep ==
    ASSUME GramInv, Grams!Over
    PROVE  GramInv' /\ Grams!Plain!End
<1>1. /\ at' = "done" /\ UNCHANGED <<out, pos, kvrows, fed, saved, behind, table, rest, guess, done, naccept>>
      /\ at = "stopped" \/ at = "over" \/ (at = "pick" /\ rest = 0)
  BY DEF Grams!Over
<1>2. GramTypes'
  BY <1>1 DEF GramInv, GramTypes
<1>3. TableOf(Vocab)'
  BY <1>1 DEF GramInv, TableOf
<1>4. GramInv'
  BY <1>1, <1>2, <1>3 DEF GramInv
<1>5. Grams!Said' = Grams!Said
  <2>1. CASE at = "stopped"
    BY <1>1, <2>1 DEF Grams!Said, Grams!Last, Grams!Front
  <2>2. CASE at # "stopped"
    <3>1. out[Len(out)] \notin Stops
      BY <1>1, <2>2 DEF GramInv
    <3>. QED
      BY <1>1, <2>2, <3>1 DEF Grams!Said, Grams!Last, Grams!Front
  <2>. QED
    BY <2>1, <2>2
<1>. QED
  BY <1>1, <1>4, <1>5 DEF Grams!Plain!End

GramPlain == [Grams!Plain!Say \/ Grams!Plain!End]_<<Grams!Said, rest, at # "done">>

LEMMA GramNext ==
    ASSUME Grams!NgramAssumption, Hybrid = FALSE, GramInv, [Grams!Next]_gramsVars
    PROVE  GramInv' /\ GramPlain
<1>1. CASE UNCHANGED gramsVars
  <2>1. GramTypes' /\ TableOf(Vocab)' /\ (Behind => Behind') /\ Grams!Said' = Grams!Said
    BY <1>1 DEF gramsVars, GramInv, GramTypes, TableOf, Behind, Grams!Said, Grams!Last, Grams!Front
  <2>2. Accepting => Accepting'
    BY <1>1 DEF gramsVars, Accepting, Begins
  <2>3. Begins(out, kvrows) => Begins(out, kvrows)'
    BY <1>1 DEF gramsVars, Begins
  <2>4. UNCHANGED <<out, rest, at, pos, behind>>
    BY <1>1 DEF gramsVars
  <2>. QED
    BY <2>1, <2>2, <2>3, <2>4 DEF GramInv, GramPlain
<1>2. CASE Grams!Pick
  BY <1>2, PickStep DEF GramPlain
<1>3. CASE Grams!NoDraft
  <2>1. Behind /\ Answering
    BY <1>3 DEF Grams!NoDraft, GramInv, Answering
  <2>. QED
    BY <1>3, <2>1, StepLastStep DEF Grams!NoDraft, GramPlain
<1>4. CASE \E d \in Grams!Prefixes(Grams!Chain[Grams!Limit]) : Grams!Verify(d)
  BY <1>4, VerifyStep DEF GramPlain
<1>5. CASE Grams!Restore
  BY <1>5, RestoreStep DEF GramPlain
<1>6. CASE Grams!Replay
  BY <1>6, ReplayStep DEF GramPlain
<1>7. CASE Grams!Replayed
  <2>1. Behind /\ Answering
    BY <1>7 DEF Grams!Replayed, GramInv, Answering
  <2>. QED
    BY <1>7, <2>1, StepLastStep DEF Grams!Replayed, GramPlain
<1>8. CASE Grams!Accept
  BY <1>8, GuessStep DEF GramPlain
<1>9. CASE Grams!Accepted
  BY <1>9, AcceptedStep DEF GramPlain
<1>10. CASE Grams!Over
  BY <1>10, OverStep DEF GramPlain
<1>11. CASE Grams!Ended
  BY <1>1, <1>11 DEF Grams!Ended, Grams!vars, gramsVars
<1>. QED
  BY <1>1, <1>2, <1>3, <1>4, <1>5, <1>6, <1>7, <1>8, <1>9, <1>10, <1>11 DEF Grams!Next

LEMMA PartSteps == [Next]_vars => [Glm!Next]_glmVars /\ [Grams!Next]_gramsVars
  BY DEF Next, GlmTurns, GramTurns, ChatTurns, Forward, GlmForwards, Training, vars

LEMMA GramAlways == ASSUME Hybrid = FALSE PROVE Spec => []GramInv
<1>1. Init => GramInv
  BY TurnsAssumption, GramInit DEF Init, TurnsAssumption
<1>2. GramInv /\ [Next]_vars => GramInv'
  BY TurnsAssumption, GramNext, PartSteps DEF TurnsAssumption
<1>. QED
  BY <1>1, <1>2, PTL DEF Spec

\* The speculative decoding of glm (spec_decode: "LOSSLESS (output identico al
\* greedy puro)") and that of qwenmoe (gen_turn_spec) say what plain greedy
\* decoding says, for every model, vocabulary, context, draft, budget, prompt
\* and interrupt.  glm while no client sends \x02MORE; qwenmoe for a model
\* without recurrent layers, whose state no forward can take back.
THEOREM DraftsChangeNothing ==
    ASSUME Hybrid = FALSE PROVE Spec => Lossless
<1>. DEFINE GlmPlain == [more \/ Glm!Plain!Next]_<<said, left, pc # "idle">>
<1>1. Init => Glm!Plain!Init
  BY DEF Init, Glm!Init, Glm!Plain!Init
<1>2. GlmInv /\ [Next]_vars => GlmPlain
  <2>1. SUFFICES ASSUME GlmInv, [Next]_vars, ~more PROVE GlmPlain
    BY Zenon DEF GlmPlain
  <2>2. [Glm!Plain!Next]_<<said, left, pc # "idle">>
    BY <2>1, TurnsAssumption, GlmPlainStep, PartSteps DEF TurnsAssumption
  <2>. QED
    BY <2>2
<1>3. GramInv /\ [Next]_vars => GramPlain
  BY TurnsAssumption, GramNext, PartSteps DEF TurnsAssumption
<1>4. Spec => []GramInv
  BY GramAlways
<1>5. Spec => []GlmInv
  BY GlmAlways
<1>6. Spec => Glm!Lossless
  BY <1>1, <1>2, <1>5, PTL DEF Spec, Glm!Lossless
<1>7. Spec => Grams!Lossless
  BY <1>3, <1>4, PTL DEF Spec, Grams!Lossless, GramPlain
<1>. QED
  BY <1>6, <1>7 DEF Lossless

-----------------------------------------------------------------------------
(* The chats.                                                                *)

TurnSet == [pc : {"line", "prefill", "pick", "step", "ends"}, k : Nat, cur : Int, in : Nat, ng : Nat]

LEMMA FieldsOf ==
    ASSUME NEW t \in TurnSet
    PROVE  /\ t.pc \in {"line", "prefill", "pick", "step", "ends"} /\ t.k \in Nat
           /\ t.cur \in Int /\ t.in \in Nat /\ t.ng \in Nat
  BY DEF TurnSet

Using(t, n, p) == [t EXCEPT !.in = @ + n, !.pc = p]
Answered(t, p) == [t EXCEPT !.ng = @ + 1, !.pc = p]

LEMMA UsingIs ==
    ASSUME NEW t \in TurnSet, NEW n \in Nat, NEW p \in {"line", "prefill", "pick", "step", "ends"}
    PROVE  /\ Using(t, n, p).pc = p /\ Using(t, n, p).k = t.k /\ Using(t, n, p).cur = t.cur
           /\ Using(t, n, p).in = t.in + n /\ Using(t, n, p).ng = t.ng
           /\ Using(t, n, p) \in TurnSet
<1>1. t = [pc |-> t.pc, k |-> t.k, cur |-> t.cur, in |-> t.in, ng |-> t.ng]
  BY DEF TurnSet
<1>2. Using(t, n, p) = [pc |-> p, k |-> t.k, cur |-> t.cur, in |-> t.in + n, ng |-> t.ng]
  <2>. DEFINE v == [t EXCEPT !.in = @ + n]
  <2>1. v = [pc |-> t.pc, k |-> t.k, cur |-> t.cur, in |-> t.in + n, ng |-> t.ng]
    BY <1>1
  <2>. HIDE DEF v
  <2>2. [v EXCEPT !.pc = p] = [pc |-> p, k |-> t.k, cur |-> t.cur, in |-> t.in + n, ng |-> t.ng]
    BY <2>1
  <2>. QED
    BY <2>2, Zenon DEF Using, v
<1>. QED
  BY <1>2, FieldsOf DEF TurnSet

LEMMA AnsweredIs ==
    ASSUME NEW t \in TurnSet, NEW p \in {"line", "prefill", "pick", "step", "ends"}
    PROVE  /\ Answered(t, p).pc = p /\ Answered(t, p).k = t.k /\ Answered(t, p).cur = t.cur
           /\ Answered(t, p).in = t.in /\ Answered(t, p).ng = t.ng + 1
           /\ Answered(t, p) \in TurnSet
<1>1. t = [pc |-> t.pc, k |-> t.k, cur |-> t.cur, in |-> t.in, ng |-> t.ng]
  BY DEF TurnSet
<1>2. Answered(t, p) = [pc |-> p, k |-> t.k, cur |-> t.cur, in |-> t.in, ng |-> t.ng + 1]
  <2>. DEFINE v == [t EXCEPT !.ng = @ + 1]
  <2>1. v = [pc |-> t.pc, k |-> t.k, cur |-> t.cur, in |-> t.in, ng |-> t.ng + 1]
    BY <1>1
  <2>. HIDE DEF v
  <2>2. [v EXCEPT !.pc = p] = [pc |-> p, k |-> t.k, cur |-> t.cur, in |-> t.in, ng |-> t.ng + 1]
    BY <2>1
  <2>. QED
    BY <2>2, Zenon DEF Answered, v
<1>. QED
  BY <1>2, FieldsOf DEF TurnSet

\* The types of the chat, apart from its Boolean.
ChatTypes ==
  /\ engine \in Engines /\ used \in 0..MaxCtx
  /\ kv \in [Chats!RowsOfCtx -> Chats!RowsOfCtx \cup {Chats!Hole}]
  /\ turn \in TurnSet

\* What a turn has used of its prompt and its budget, by its phase.
Spent ==
  /\ turn.pc # "line" => turn.k > 0 /\ turn.cur > 0 /\ used + turn.k + turn.cur < MaxCtx
  /\ turn.pc = "prefill" => turn.in < turn.k /\ turn.ng = 0
  /\ turn.pc = "pick" => turn.in = turn.k + turn.ng /\ turn.ng < turn.cur
  /\ turn.pc = "step" => turn.in = turn.k + turn.ng - 1 /\ 0 < turn.ng /\ turn.ng < turn.cur
  /\ turn.pc = "ends" => 0 < turn.ng /\ turn.ng <= turn.cur

\* The tokens of the turn that were forwarded have their rows, in order.
InRows == \A i \in 0..turn.in - 1 : kv[Chats!Base + i] = used + i

ChatInv ==
  ChatTypes /\ Spent /\ (turn.pc \in {"prefill", "pick", "step"} => InRows)

LEMMA ChatBounds ==
    ASSUME Chats!ChatAssumption
    PROVE  /\ MaxCtx \in Nat /\ Ngen \in Nat /\ Chunk \in Nat /\ SuffixLen \in Nat
           /\ MaxCtx > 10 /\ Ngen > 0 /\ Bos \in {0, 1} /\ LineLens \subseteq Nat \ {0}
           /\ "line" # "prefill"
  BY DEF Chats!ChatAssumption

LEMMA ChatInit == ASSUME Chats!ChatAssumption, Chats!Init PROVE ChatInv
<1>1. turn = [pc |-> "line", k |-> 0, cur |-> 0, in |-> 0, ng |-> 0] /\ used = 0
  BY DEF Chats!Init, Chats!NoTurn
<1>2. ChatTypes
  BY <1>1, ChatBounds DEF Chats!Init, ChatTypes, TurnSet, Chats!Hole
<1>3. Spent /\ turn.pc = "line"
  BY <1>1 DEF Spent
<1>. QED
  BY <1>2, <1>3 DEF ChatInv

\* A line that fits gets at least one token, and leaves room for an answer.
LEMMA PromptFits ==
    ASSUME Chats!ChatAssumption, NEW n \in LineLens, NEW l \in 0..MaxCtx,
           l = 0 \/ ~Chats!Full(l, Chats!PromptLen(n, l))
    PROVE  /\ Chats!PromptLen(n, l) \in Nat /\ Chats!PromptLen(n, l) > 0
           /\ Chats!Cur(l, Chats!PromptLen(n, l)) \in Nat
           /\ Chats!Cur(l, Chats!PromptLen(n, l)) > 0
           /\ l + Chats!PromptLen(n, l) + Chats!Cur(l, Chats!PromptLen(n, l)) < MaxCtx
<1>. DEFINE b == Chats!Begins(l)
            room == MaxCtx - l - 2 - b
            fits == Chats!PromptLen(n, l)
<1>1. /\ MaxCtx \in Nat /\ Ngen \in Nat /\ Ngen > 0 /\ MaxCtx > 10 /\ n \in Nat /\ n > 0
      /\ l \in Nat
  BY ChatBounds
<1>2. b \in {0, 1}
  BY ChatBounds DEF Chats!Begins
<1>3. fits = b + (IF n < (IF room < 0 THEN 0 ELSE room) THEN n ELSE (IF room < 0 THEN 0 ELSE room))
  BY DEF Chats!PromptLen, Chats!Encoded, Chats!Least, Chats!NotNegative
<1>4. l = 0 \/ l + fits + 8 < MaxCtx
  <2>. HIDE DEF b, room
  <2>1. fits \in Int
    BY <1>1, <1>2, <1>3 DEF room
  <2>. HIDE DEF fits
  <2>. QED
    BY <1>1, <2>1 DEF Chats!Full, fits
<1>. HIDE DEF b, fits
<1>5. fits \in Nat /\ fits > 0 /\ l + fits < MaxCtx - 1
  BY <1>1, <1>2, <1>3, <1>4
<1>6. Chats!Cur(l, fits) = IF l + fits + Ngen + 1 > MaxCtx THEN MaxCtx - l - fits - 1 ELSE Ngen
  BY DEF Chats!Cur
<1>7. Chats!Cur(l, fits) \in Nat /\ Chats!Cur(l, fits) > 0 /\ l + fits + Chats!Cur(l, fits) < MaxCtx
  BY <1>1, <1>5, <1>6
<1>. QED
  BY <1>5, <1>7 DEF fits

LEMMA LineStep ==
    ASSUME Chats!ChatAssumption, ChatInv, NEW n \in LineLens, Chats!Line(n)
    PROVE  ChatInv'
<1>. DEFINE l == IF Chats!Full(used, Chats!PromptLen(n, used)) THEN 0 ELSE used
            fits == Chats!PromptLen(n, l)
            cur == Chats!Cur(l, fits)
<1>1. /\ used' = l /\ kv' = Chats!Overwritten(l)
      /\ turn' = [pc |-> "prefill", k |-> fits, cur |-> cur, in |-> 0, ng |-> 0]
      /\ UNCHANGED engine
  BY DEF Chats!Line
<1>2. l \in 0..MaxCtx
  BY ChatBounds DEF ChatInv, ChatTypes
<1>3. fits \in Nat /\ fits > 0 /\ cur \in Nat /\ cur > 0 /\ l + fits + cur < MaxCtx
  <2>1. l = 0 \/ ~Chats!Full(l, Chats!PromptLen(n, l))
    OBVIOUS
  <2>. HIDE DEF l
  <2>. QED
    BY <1>2, <2>1, PromptFits
<1>. HIDE DEF l, fits, cur
<1>4. ChatTypes'
  <2>1. kv' \in [Chats!RowsOfCtx -> Chats!RowsOfCtx \cup {Chats!Hole}]
    BY <1>1 DEF ChatInv, ChatTypes, Chats!Overwritten
  <2>. QED
    BY <1>1, <1>2, <1>3, <2>1 DEF ChatInv, ChatTypes, TurnSet
<1>5. Spent'
  BY <1>1, <1>2, <1>3 DEF Spent
<1>6. InRows'
  BY <1>1 DEF InRows
<1>. QED
  BY <1>4, <1>5, <1>6 DEF ChatInv

LEMMA BaseIs ==
    ASSUME Chats!ChatAssumption, ChatTypes
    PROVE  Chats!Base \in Nat /\ Chats!Base <= used /\ used \in Nat
  BY ChatBounds DEF ChatTypes, Chats!Base

\* The rows of the turn grow by those of a forward.
LEMMA RowsGrow ==
    ASSUME Chats!ChatAssumption, ChatTypes, InRows,
           NEW n \in Nat, n > 0, turn.in \in Nat, used + turn.in + n < MaxCtx,
           Chats!Forward(used + turn.in, n, Chats!Base + turn.in)
    PROVE  /\ kv' \in [Chats!RowsOfCtx -> Chats!RowsOfCtx \cup {Chats!Hole}]
           /\ \A i \in 0..turn.in + n - 1 : kv'[Chats!Base + i] = used + i
<1>. DEFINE b == Chats!Base
            m == turn.in
<1>1. b \in Nat /\ b <= used /\ used \in Nat /\ MaxCtx \in Nat /\ m \in Nat
  BY BaseIs, ChatBounds
<1>2. kv' = [q \in 0..MaxCtx - 1 |-> IF q \in b + m..b + m + n - 1 THEN used + m + q - (b + m) ELSE kv[q]]
  BY DEF Chats!Forward, Chats!RowsOfCtx
<1>3. kv \in [0..MaxCtx - 1 -> (0..MaxCtx - 1) \cup {-1}]
  BY DEF ChatTypes, Chats!RowsOfCtx, Chats!Hole
<1>4. used + m + n < MaxCtx
  OBVIOUS
<1>5. \A i \in 0..m - 1 : kv[b + i] = used + i
  BY DEF InRows
<1>. HIDE DEF b, m
<1>6. kv' \in [0..MaxCtx - 1 -> (0..MaxCtx - 1) \cup {-1}]
  BY <1>1, <1>2, <1>3, <1>4
<1>7. ASSUME NEW i \in 0..m + n - 1 PROVE kv'[b + i] = used + i
  <2>1. b + i \in 0..MaxCtx - 1
    BY <1>1, <1>4
  <2>2. CASE i < m
    <3>1. i \in 0..m - 1 /\ ~(b + i \in b + m..b + m + n - 1)
      BY <1>1, <2>2
    <3>. QED
      BY <1>2, <1>5, <2>1, <3>1
  <2>3. CASE ~(i < m)
    <3>1. b + i \in b + m..b + m + n - 1 /\ used + m + (b + i) - (b + m) = used + i
      BY <1>1, <2>3
    <3>. QED
      BY <1>2, <2>1, <3>1
  <2>. QED
    BY <2>2, <2>3
<1>. QED
  BY <1>6, <1>7 DEF b, m, Chats!RowsOfCtx, Chats!Hole

LEMMA ChunkIs ==
    ASSUME Chats!ChatAssumption, ChatTypes, turn.in < turn.k
    PROVE  /\ Chats!ChunkLen \in Nat /\ Chats!ChunkLen > 0
           /\ turn.in + Chats!ChunkLen <= turn.k
<1>1. turn.in \in Nat /\ turn.k \in Nat /\ Chunk \in Nat
  BY ChatBounds, FieldsOf DEF ChatTypes
<1>. QED
  BY <1>1 DEF Chats!ChunkLen

LEMMA PrefillStep ==
    ASSUME Chats!ChatAssumption, ChatInv, Chats!Prefill
    PROVE  ChatInv'
<1>. DEFINE n == Chats!ChunkLen
<1>1. /\ ChatTypes /\ Spent /\ InRows /\ turn.pc = "prefill"
      /\ Chats!Forward(used + turn.in, n, Chats!Base + turn.in)
      /\ UNCHANGED <<engine, used>>
      /\ turn' = Using(turn, n, IF turn.in + n = turn.k THEN "pick" ELSE "prefill")
  BY DEF ChatInv, Chats!Prefill, Chats!ChunkPos, Using
<1>2. turn.in < turn.k /\ turn.ng = 0 /\ turn.k > 0 /\ turn.cur > 0 /\ used + turn.k + turn.cur < MaxCtx
  BY <1>1 DEF Spent
<1>3. n \in Nat /\ n > 0 /\ turn.in + n <= turn.k
  BY <1>1, <1>2, ChunkIs
<1>. HIDE DEF n
<1>4. /\ turn.in \in Nat /\ turn.k \in Nat /\ turn.cur \in Int /\ turn.ng \in Nat /\ used \in Nat
      /\ MaxCtx \in Nat
  BY <1>1, ChatBounds, FieldsOf DEF ChatTypes
<1>5. used + turn.in + n < MaxCtx
  BY <1>2, <1>3, <1>4
<1>6. /\ kv' \in [Chats!RowsOfCtx -> Chats!RowsOfCtx \cup {Chats!Hole}]
      /\ \A i \in 0..turn.in + n - 1 : kv'[Chats!Base + i] = used + i
  BY <1>1, <1>3, <1>4, <1>5, RowsGrow
<1>7. /\ turn'.in = turn.in + n /\ turn'.k = turn.k /\ turn'.cur = turn.cur /\ turn'.ng = turn.ng
      /\ turn'.pc = IF turn.in + n = turn.k THEN "pick" ELSE "prefill"
      /\ turn' \in TurnSet
  <2>. DEFINE p == IF turn.in + n = turn.k THEN "pick" ELSE "prefill"
  <2>1. p \in {"line", "prefill", "pick", "step", "ends"} /\ turn \in TurnSet
    BY <1>1 DEF ChatTypes
  <2>2. turn' = Using(turn, n, p)
    BY <1>1
  <2>. HIDE DEF p
  <2>3. /\ turn'.pc = p /\ turn'.k = turn.k /\ turn'.cur = turn.cur /\ turn'.in = turn.in + n
        /\ turn'.ng = turn.ng /\ turn' \in TurnSet
    BY <1>3, <2>1, <2>2, UsingIs, ZenonT(60)
  <2>. QED
    BY <2>3 DEF p
<1>8. ChatTypes'
  BY <1>1, <1>6, <1>7, Zenon DEF ChatTypes
<1>9. Spent'
  <2>1. used' = used
    BY <1>1
  <2>. QED
    BY <2>1, <1>2, <1>3, <1>4, <1>7 DEF Spent
<1>10. InRows'
  <2>1. Chats!Base' = Chats!Base /\ used' = used
    BY <1>1 DEF Chats!Base
  <2>. QED
    <3>1. ASSUME NEW i \in 0..turn'.in - 1 PROVE kv'[Chats!Base'+ i] = used' + i
      <4>1. i \in 0..turn.in + n - 1
        BY <1>3, <1>4, <1>7
      <4>. QED
        BY <2>1, <4>1, <1>6
    <3>. QED
      BY <3>1 DEF InRows
<1>. QED
  BY <1>8, <1>9, <1>10 DEF ChatInv

LEMMA ChatPickStep ==
    ASSUME Chats!ChatAssumption, ChatInv, NEW stop \in {TRUE, FALSE}, Chats!Pick(stop)
    PROVE  ChatInv'
<1>1. /\ ChatTypes /\ Spent /\ InRows /\ turn.pc = "pick"
      /\ UNCHANGED <<engine, used, kv>>
      /\ \/ turn' = Answered(turn, "ends")
         \/ turn' = Answered(turn, "step") /\ turn.ng + 1 # turn.cur
  BY Zenon DEF ChatInv, Chats!Pick, Answered
<1>2. turn.in = turn.k + turn.ng /\ turn.ng < turn.cur /\ turn.k > 0 /\ used + turn.k + turn.cur < MaxCtx
  BY <1>1 DEF Spent
<1>3. turn.in \in Nat /\ turn.k \in Nat /\ turn.cur \in Int /\ turn.ng \in Nat
  BY <1>1, FieldsOf DEF ChatTypes
<1>4. /\ turn'.in = turn.in /\ turn'.k = turn.k /\ turn'.cur = turn.cur /\ turn'.ng = turn.ng + 1
      /\ turn'.pc = "ends" \/ (turn'.pc = "step" /\ turn.ng + 1 # turn.cur)
      /\ turn' \in TurnSet
  <2>1. turn \in TurnSet
    BY <1>1 DEF ChatTypes
  <2>2. CASE turn' = Answered(turn, "ends")
    BY <2>1, <2>2, AnsweredIs
  <2>3. CASE turn' = Answered(turn, "step") /\ turn.ng + 1 # turn.cur
    BY <2>1, <2>3, AnsweredIs
  <2>. QED
    BY <1>1, <2>2, <2>3
<1>5. ChatTypes'
  BY <1>1, <1>4 DEF ChatTypes
<1>6. Spent'
  BY <1>1, <1>2, <1>3, <1>4 DEF Spent
<1>7. InRows'
  BY <1>1, <1>4 DEF InRows, Chats!Base
<1>. QED
  BY <1>5, <1>6, <1>7 DEF ChatInv

LEMMA ChatStepStep ==
    ASSUME Chats!ChatAssumption, ChatInv, Chats!Step
    PROVE  ChatInv'
<1>1. /\ ChatTypes /\ Spent /\ InRows /\ turn.pc = "step"
      /\ Chats!Forward(used + turn.in, 1, Chats!Base + turn.in)
      /\ UNCHANGED <<engine, used>>
      /\ turn' = Using(turn, 1, "pick")
  BY DEF ChatInv, Chats!Step, Using
<1>2. /\ turn.in = turn.k + turn.ng - 1 /\ 0 < turn.ng /\ turn.ng < turn.cur /\ turn.k > 0
      /\ turn.cur > 0 /\ used + turn.k + turn.cur < MaxCtx
  BY <1>1 DEF Spent
<1>3. /\ turn.in \in Nat /\ turn.k \in Nat /\ turn.cur \in Int /\ turn.ng \in Nat /\ used \in Nat
      /\ MaxCtx \in Nat
  BY <1>1, ChatBounds, FieldsOf DEF ChatTypes
<1>4. used + turn.in + 1 < MaxCtx
  BY <1>2, <1>3
<1>5. /\ kv' \in [Chats!RowsOfCtx -> Chats!RowsOfCtx \cup {Chats!Hole}]
      /\ \A i \in 0..turn.in + 1 - 1 : kv'[Chats!Base + i] = used + i
  BY <1>1, <1>3, <1>4, RowsGrow
<1>6. /\ turn'.in = turn.in + 1 /\ turn'.k = turn.k /\ turn'.cur = turn.cur /\ turn'.ng = turn.ng
      /\ turn'.pc = "pick"
      /\ turn' \in TurnSet
  <2>1. turn \in TurnSet
    BY <1>1 DEF ChatTypes
  <2>. QED
    <3>1. 1 \in Nat /\ "pick" \in {"line", "prefill", "pick", "step", "ends"} /\ turn' = Using(turn, 1, "pick")
      BY <1>1
    <3>. QED
      BY <2>1, <3>1, UsingIs
<1>7. ChatTypes'
  BY <1>1, <1>5, <1>6 DEF ChatTypes
<1>8. Spent'
  <2>1. used' = used
    BY <1>1
  <2>. QED
    BY <2>1, <1>2, <1>3, <1>6 DEF Spent
<1>9. InRows'
  <2>1. Chats!Base' = Chats!Base /\ used' = used
    BY <1>1 DEF Chats!Base
  <2>. QED
    <3>1. ASSUME NEW i \in 0..turn'.in - 1 PROVE kv'[Chats!Base'+ i] = used' + i
      <4>1. i \in 0..turn.in + 1 - 1
        BY <1>3, <1>6
      <4>. QED
        BY <2>1, <4>1, <1>5
    <3>. QED
      BY <3>1 DEF InRows
<1>. QED
  BY <1>7, <1>8, <1>9 DEF ChatInv

LEMMA TurnEndsStep ==
    ASSUME Chats!ChatAssumption, ChatInv, Chats!TurnEnds
    PROVE  ChatInv'
<1>. DEFINE out0 == IF engine = "ngram" THEN turn.cur ELSE turn.ng
<1>1. /\ ChatTypes /\ Spent /\ turn.pc = "ends"
      /\ turn' = [pc |-> "line", k |-> 0, cur |-> 0, in |-> 0, ng |-> 0]
      /\ UNCHANGED <<engine, kv>>
      /\ used' = used + turn.k + out0 + Chats!Suffix
  BY DEF ChatInv, Chats!TurnEnds, Chats!NoTurn
<1>2. 0 < turn.ng /\ turn.ng <= turn.cur /\ used + turn.k + turn.cur < MaxCtx
  BY <1>1 DEF Spent
<1>3. turn.k \in Nat /\ turn.cur \in Int /\ turn.ng \in Nat /\ used \in Nat /\ MaxCtx \in Nat /\ SuffixLen \in Nat
  BY <1>1, ChatBounds, FieldsOf DEF ChatTypes
<1>4. used' \in 0..MaxCtx
  <2>. DEFINE room == MaxCtx - used - turn.k - turn.ng
  <2>1. CASE engine = "shared"
    <3>1. out0 = turn.ng /\ Chats!Suffix = Chats!Encoded(SuffixLen, room)
      BY <2>1 DEF Chats!Suffix
    <3>2. room \in Nat
      BY <1>2, <1>3
    <3>3. Chats!Suffix \in 0..room
      <4>. HIDE DEF room
      <4>. QED
        BY <1>3, <3>1, <3>2 DEF Chats!Encoded, Chats!Least, Chats!NotNegative
    <3>. QED
      BY <1>1, <1>3, <3>1, <3>3
  <2>2. CASE engine # "shared"
    <3>1. Chats!Suffix = 0 /\ out0 \in Nat /\ out0 <= turn.cur
      BY <1>2, <1>3, <2>2 DEF Chats!Suffix
    <3>. HIDE DEF out0
    <3>. QED
      BY <1>1, <1>2, <1>3, <3>1
  <2>. QED
    BY <2>1, <2>2
<1>5. ChatTypes'
  BY <1>1, <1>4 DEF ChatTypes, TurnSet
<1>6. Spent' /\ turn'.pc = "line"
  BY <1>1 DEF Spent
<1>. QED
  BY <1>5, <1>6 DEF ChatInv

LEMMA ChatNext ==
    ASSUME Chats!ChatAssumption, ChatInv, [Chats!Next]_chatVars
    PROVE  ChatInv'
<1>1. CASE UNCHANGED chatVars
  <2>1. ChatTypes' /\ Spent' /\ (InRows => InRows') /\ turn' = turn
    BY <1>1 DEF chatVars, ChatInv, ChatTypes, Spent, InRows, Chats!Base
  <2>. QED
    BY <2>1 DEF ChatInv
<1>2. CASE \E n \in LineLens : Chats!Line(n)
  BY <1>2, LineStep
<1>3. CASE Chats!Prefill
  BY <1>3, PrefillStep
<1>4. CASE \E stop \in {TRUE, FALSE} : Chats!Pick(stop)
  BY <1>4, ChatPickStep
<1>5. CASE Chats!Step
  BY <1>5, ChatStepStep
<1>6. CASE Chats!TurnEnds
  BY <1>6, TurnEndsStep
<1>. QED
  BY <1>1, <1>2, <1>3, <1>4, <1>5, <1>6 DEF Chats!Next

LEMMA ChatAlways == Spec => []ChatInv
<1>1. Init => ChatInv
  BY TurnsAssumption, ChatInit DEF Init, TurnsAssumption
<1>2. [Next]_vars => [Chats!Next]_chatVars
  BY DEF Next, GlmTurns, GramTurns, ChatTurns, Forward, GlmForwards, Training, vars
<1>3. ChatInv /\ [Next]_vars => ChatInv'
  BY TurnsAssumption, <1>2, ChatNext DEF TurnsAssumption
<1>. QED
  BY <1>1, <1>3, PTL DEF Spec

\* The chats of the engines (engine_main with gen_turn, olmoe's main): for any
\* context, budget, block of prefill and lines, when a token is picked every
\* token of the turn has its row, one behind the other.
THEOREM TurnsInPlace == Spec => []ChatTurnTrue
<1>1. ChatInv => ChatTurnTrue
  BY DEF ChatInv, InRows, ChatTurnTrue, Chats!TurnTrue
<1>. QED
  BY <1>1, ChatAlways, PTL

-----------------------------------------------------------------------------
(* The rows of the decoders, and the room they take.                         *)

\* A forward at place p leaves the rows before p and its own.
LEMMA RowsAfter ==
    ASSUME GramTypes, NEW ids \in Seq(Vocab), pos > 0, pos - 1 <= Len(kvrows),
           Grams!Forward(pos - 1, ids)
    PROVE  Len(kvrows') = pos - 1 + Len(ids)
<1>1. kvrows \in Seq(Vocab) /\ pos - 1 \in 0..Len(kvrows)
  BY DEF GramTypes
<1>2. kvrows' = SubSeq(kvrows, 1, pos - 1) \o ids
  BY DEF Grams!Forward, Grams!Rows, Grams!Head0
<1>3. Laid(SubSeq(kvrows, 1, pos - 1) \o ids, Vocab, kvrows, pos - 1, ids)
  BY <1>1, LaidIs
<1>. QED
  BY <1>2, <1>3 DEF Laid

LEMMA LastIds ==
    ASSUME GramTypes
    PROVE  <<Grams!Last(out)>> \in Seq(Vocab) /\ Len(<<Grams!Last(out)>>) = 1
<1>1. Grams!Last(out) \in Vocab
  BY DEF GramTypes, Grams!Last
<1>. QED
  BY <1>1

LEMMA LastRoom ==
    ASSUME Grams!NgramAssumption, GramTypes, pos > 0, pos - 1 <= Len(kvrows), pos <= Positions,
           Grams!Forward(pos - 1, <<Grams!Last(out)>>)
    PROVE  Grams!InRoom'
<1>1. Len(kvrows') = pos - 1 + 1
  BY LastIds, RowsAfter
<1>2. pos \in Nat /\ Positions \in Nat
  BY GramBounds DEF GramTypes
<1>. QED
  BY <1>1, <1>2 DEF Grams!InRoom

LEMMA BehindPlace ==
    ASSUME Grams!NgramAssumption, GramInv, Behind, Answering
    PROVE  pos > 0 /\ pos - 1 <= Len(kvrows) /\ pos < Positions
<1>1. /\ pos = Len(out) /\ Len(out) \in Nat /\ Len(out) > 0 /\ rest \in Nat /\ Positions \in Nat
      /\ Len(out) + rest < Positions /\ pos - 1 <= Len(kvrows)
  BY GramBounds DEF GramInv, GramTypes, Behind, Answering
<1>. QED
  BY <1>1

LEMMA GramRoomNext ==
    ASSUME Grams!NgramAssumption, SpecK <= 2, GramInv, Grams!InRoom, [Grams!Next]_gramsVars
    PROVE  Grams!InRoom'
<1>1. CASE UNCHANGED kvrows
  BY <1>1 DEF Grams!InRoom
<1>2. CASE Grams!NoDraft \/ Grams!Replayed \/ Grams!Replay
  <2>1. Behind /\ Answering /\ GramTypes
    BY <1>2 DEF Grams!NoDraft, Grams!Replayed, Grams!Replay, GramInv, Answering
  <2>2. Grams!Forward(pos - 1, <<Grams!Last(out)>>)
    BY <1>2 DEF Grams!NoDraft, Grams!Replayed, Grams!Replay, Grams!StepLast
  <2>3. pos > 0 /\ pos - 1 <= Len(kvrows) /\ pos <= Positions
    <3>1. pos \in Nat /\ Positions \in Nat
      BY <2>1, GramBounds DEF GramTypes
    <3>. QED
      BY <2>1, <3>1, BehindPlace
  <2>. QED
    BY <2>1, <2>2, <2>3, LastRoom
<1>3. CASE Grams!Accepted
  <2>1. at = "accept" /\ Grams!Forward(pos - 1, <<Grams!Last(out)>>) /\ GramTypes /\ Accepting
    BY <1>3 DEF Grams!Accepted, Grams!StepLast, GramInv
  <2>. DEFINE base == Len(out) - done
  <2>2. /\ base \in Int /\ base > 0 /\ Len(guess) \in Nat /\ Len(guess) > 0
        /\ Len(kvrows) = base + Len(guess)
        /\ pos = IF done = 0 THEN base ELSE base + Len(guess)
    BY <2>1 DEF Accepting, GramTypes
  <2>. HIDE DEF base
  <2>3. pos > 0 /\ pos <= Len(kvrows) /\ Len(kvrows) <= Positions
    BY <2>2 DEF Grams!InRoom
  <2>4. pos - 1 <= Len(kvrows) /\ pos <= Positions
    <3>1. pos \in Nat /\ Len(kvrows) \in Nat /\ Positions \in Nat
      BY <2>1, GramBounds DEF GramTypes
    <3>. QED
      BY <2>3, <3>1
  <2>. QED
    BY <2>1, <2>3, <2>4, LastRoom
<1>4. ASSUME NEW d \in Grams!Prefixes(Grams!Chain[Grams!Limit]), Grams!Verify(d)
      PROVE  Grams!InRoom'
  <2>1. /\ at = "draft" /\ Grams!Forward(pos - 1, <<Grams!Last(out)>> \o d)
        /\ GramTypes /\ TableOf(Vocab) /\ Behind /\ Answering /\ rest > 0
    BY <1>4 DEF Grams!Verify, GramInv, Answering
  <2>2. d \in Seq(Vocab) /\ Len(d) <= SpecK
    <3>. DEFINE c == Grams!Chain[Grams!Limit]
    <3>1. c \in Seq(Vocab) /\ Len(c) <= SpecK
      BY <2>1, ChainIs
    <3>2. PICK l \in 0..Len(c) : d = SubSeq(c, 1, l)
      BY DEF Grams!Prefixes
    <3>. HIDE DEF c
    <3>3. d \in Seq(Vocab) /\ Len(d) = l
      BY <3>1, <3>2, HeadOf
    <3>. QED
      BY <3>1, <3>2, <3>3, GramBounds
  <2>. DEFINE ids == <<Grams!Last(out)>> \o d
  <2>3. ids \in Seq(Vocab) /\ Len(ids) = 1 + Len(d)
    BY <2>1, <2>2, LastIds, ConcatProperties
  <2>4. pos > 0 /\ pos - 1 <= Len(kvrows)
    BY <2>1, BehindPlace
  <2>. HIDE DEF ids
  <2>5. Len(kvrows') = pos - 1 + Len(ids)
    <3>1. Grams!Forward(pos - 1, ids)
      BY <2>1 DEF ids
    <3>. QED
      BY <2>1, <2>3, <2>4, <3>1, RowsAfter
  <2>6. /\ pos = Len(out) /\ Len(out) + rest < Positions /\ Len(out) \in Nat /\ rest \in Nat
        /\ Positions \in Nat /\ Len(d) \in Nat /\ SpecK \in Nat
    BY <2>1, <2>2, GramBounds DEF GramInv, GramTypes, Behind, Answering
  <2>. QED
    BY <2>1, <2>2, <2>3, <2>5, <2>6 DEF Grams!InRoom
<1>. QED
  BY <1>1, <1>2, <1>3, <1>4
     DEF Grams!Next, Grams!Pick, Grams!Restore, Grams!Accept, Grams!Over, Grams!Ended,
         Grams!vars, gramsVars

LEMMA GramConsequences ==
    ASSUME GramInv
    PROVE  Grams!TypeOK /\ Grams!RowsTrue
<1>1. GramTypes
  BY DEF GramInv
<1>2. Grams!TypeOK
  BY <1>1 DEF GramTypes, Grams!TypeOK
<1>3. ASSUME at = "pick", rest > 0 PROVE pos = Len(out) /\ SubSeq(kvrows, 1, pos) = out
  <2>1. pos = Len(out) /\ Begins(out, kvrows)
    BY <1>3 DEF GramInv
  <2>2. out \in Seq(Vocab) /\ kvrows \in Seq(Vocab)
    BY <1>1 DEF GramTypes
  <2>3. Len(out) \in 0..Len(out) /\ Len(out) <= Len(kvrows) /\ \A i \in 1..Len(out) : out[i] = kvrows[i]
    BY <2>1, <2>2 DEF Begins
  <2>4. SubSeq(out, 1, Len(out)) = SubSeq(kvrows, 1, Len(out))
    BY <2>2, <2>3, SameHeads
  <2>5. SubSeq(out, 1, Len(out)) = out
    BY <2>2, WholeHead
  <2>. QED
    BY <2>1, <2>4, <2>5
<1>4. Grams!RowsTrue
  BY <1>3 DEF Grams!RowsTrue, Grams!Head0
<1>. QED
  BY <1>2, <1>4

LEMMA GlmConsequences == GlmInv => Glm!TypeOK /\ Glm!RowsTrue /\ Glm!InRoom
  BY Zenon DEF GlmInv, GlmTypes, Flags, Glm!TypeOK

LEMMA ChatConsequences ==
    ASSUME Chats!ChatAssumption, ChatInv, stopped \in {TRUE, FALSE}
    PROVE  Chats!TypeOK /\ Chats!InRoom
<1>1. Chats!TypeOK
  BY Zenon DEF ChatInv, ChatTypes, TurnSet, Chats!TypeOK
<1>2. ChatTypes /\ Spent
  BY DEF ChatInv
<1>3. /\ Chats!Base \in Nat /\ Chats!Base <= used /\ used \in Nat /\ MaxCtx \in Nat
      /\ turn.in \in Nat /\ turn.k \in Nat /\ turn.cur \in Int /\ turn.ng \in Nat
  BY <1>2, BaseIs, ChatBounds, FieldsOf DEF ChatTypes
<1>4. ASSUME turn.pc = "prefill"
      PROVE  Chats!ChunkLen > 0 /\ Chats!ChunkPos + Chats!ChunkLen <= MaxCtx
  <2>1. turn.in < turn.k /\ turn.cur > 0 /\ used + turn.k + turn.cur < MaxCtx
    BY <1>2, <1>4 DEF Spent
  <2>2. Chats!ChunkLen \in Nat /\ Chats!ChunkLen > 0 /\ turn.in + Chats!ChunkLen <= turn.k
    BY <1>2, <2>1, ChunkIs
  <2>. QED
    BY <1>3, <2>1, <2>2 DEF Chats!ChunkPos
<1>5. ASSUME turn.pc = "step" PROVE Chats!Base + turn.in < MaxCtx
  <2>1. /\ turn.in = turn.k + turn.ng - 1 /\ turn.ng < turn.cur
        /\ used + turn.k + turn.cur < MaxCtx
    BY <1>2, <1>5 DEF Spent
  <2>. QED
    BY <1>3, <2>1
<1>6. ASSUME turn.pc # "line" PROVE turn.cur > 0 /\ used + turn.k + turn.cur < MaxCtx
  BY <1>2, <1>6 DEF Spent
<1>. QED
  BY <1>1, <1>4, <1>5, <1>6 DEF Chats!InRoom

\* The stop gen_turn returned is one or none.
Stopping == stopped \in {TRUE, FALSE}

LEMMA StoppedType == Spec => []Stopping
<1>1. Init => Stopping
  BY Zenon DEF Init, Chats!Init, Stopping
<1>2. Stopping /\ [Next]_vars => Stopping'
  <2>1. [Next]_vars => Chats!Next \/ UNCHANGED stopped
    BY DEF Next, GlmTurns, GramTurns, ChatTurns, Forward, GlmForwards, Training, vars, chatVars
  <2>2. Chats!Next => stopped' \in {TRUE, FALSE} \/ UNCHANGED stopped
    BY Zenon DEF Chats!Next, Chats!Line, Chats!Prefill, Chats!Pick, Chats!Step, Chats!TurnEnds
  <2>. QED
    BY <2>1, <2>2, Zenon DEF Stopping
<1>. QED
  BY <1>1, <1>2, PTL DEF Spec

\* glm and qwenmoe (spec_decode, gen_turn_spec): when a token is picked, the
\* rows that count are those of the history and the logits are behind it,
\* whatever was drafted, dropped, cut at a budget or interrupted.
THEOREM RowsOfHistory ==
    ASSUME Hybrid = FALSE PROVE Spec => []RowsTrue
<1>1. GlmInv /\ GramInv => RowsTrue
  BY GlmConsequences, GramConsequences DEF RowsTrue
<1>. QED
  BY <1>1, GlmAlways, GramAlways, PTL

\* glm, qwenmoe and the chats: no forward past the KV cache and no token past
\* the context, for any context, budget, draft and line; of qwenmoe with drafts
\* of at most two tokens, since the code does not cut a draft near the end.
THEOREM StaysInRoom ==
    ASSUME Hybrid = FALSE, SpecK <= 2 PROVE Spec => []InRoom
<1>. DEFINE Placed == entry \in Entries /\ Grams!InRoom
<1>1. Init => Placed
  <2>1. ASSUME Init PROVE Len(kvrows) <= Positions
    <3>1. Grams!Init /\ GramInv
      BY <2>1, TurnsAssumption, GramInit DEF Init, TurnsAssumption
    <3>2. kvrows = out /\ at = "pick" /\ rest \in Nat /\ Len(out) \in Nat
      BY <3>1 DEF Grams!Init, GramInv, GramTypes
    <3>3. Len(out) + rest < Positions /\ Positions \in Nat
      BY <3>1, <3>2, TurnsAssumption, GramBounds DEF GramInv, TurnsAssumption
    <3>. QED
      BY <3>2, <3>3
  <2>. QED
    BY <2>1 DEF Init, Grams!InRoom
<1>2. Placed /\ GramInv /\ [Next]_vars => Placed'
  <2>1. [Next]_vars => UNCHANGED entry
    BY DEF Next, GlmTurns, GramTurns, ChatTurns, Forward, GlmForwards, Training, vars
  <2>2. Grams!NgramAssumption
    BY TurnsAssumption DEF TurnsAssumption
  <2>. QED
    BY <2>1, <2>2, PartSteps, GramRoomNext
<1>. HIDE DEF Placed
<1>3. Spec => []Placed
  BY <1>1, <1>2, GramAlways, PTL DEF Spec
<1>4. Placed /\ GlmInv /\ GramInv /\ ChatInv /\ Stopping => InRoom
  <2>1. Chats!ChatAssumption
    BY TurnsAssumption DEF TurnsAssumption
  <2>. QED
    BY <2>1, GlmConsequences, GramConsequences, ChatConsequences, Zenon DEF InRoom, TypeOK, Placed, Stopping
<1>. QED
  BY <1>3, <1>4, GlmAlways, GramAlways, ChatAlways, StoppedType, PTL
=============================================================================
