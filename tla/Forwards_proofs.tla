-------------------------- MODULE Forwards_proofs ---------------------------
(* Proofs about the forward passes in Turns: a forward of glm (GlmForward)   *)
(* or of the engines of the shared runtime (Dense) makes the logits of the   *)
(* history that was fed, whatever the file, the blocks, the drafts that were *)
(* dropped and the conversations that share a batch.                         *)
EXTENDS Turns_proofs, FiniteSetTheorems

-----------------------------------------------------------------------------
(* The blocks, rows and layers of a forward pass of the shared runtime.      *)

\* The rows of a block behind the first p tokens of h.
Named(h, p, n) == [s \in 1..n |-> Passes!Begin(h, p + s)]

LEMMA BeginIs ==
    ASSUME NEW h \in Seq(Nat), NEW n \in 0..Len(h)
    PROVE  /\ Passes!Begin(h, n) \in Seq(Nat) /\ Len(Passes!Begin(h, n)) = n
           /\ \A i \in 1..n : Passes!Begin(h, n)[i] = h[i]
BY HeadOf, Zenon DEF Passes!Begin

LEMMA BeginBegin ==
    ASSUME NEW h \in Seq(Nat), NEW n \in 0..Len(h), NEW m \in 0..n
    PROVE  Passes!Begin(Passes!Begin(h, n), m) = Passes!Begin(h, m)
<1>. DEFINE a == Passes!Begin(h, n)
<1>1. a \in Seq(Nat) /\ Len(a) = n /\ \A i \in 1..n : a[i] = h[i]
  BY BeginIs
<1>. HIDE DEF a
<1>2. m \in 0..Len(a) /\ m \in 0..Len(h) /\ m <= Len(h) /\ \A i \in 1..m : a[i] = h[i]
  BY <1>1
<1>3. SubSeq(a, 1, m) = SubSeq(h, 1, m)
  BY <1>1, <1>2, SameHeads
<1>. QED
  BY <1>3 DEF a, Passes!Begin

LEMMA BeginNotWrong ==
    ASSUME NEW h \in Seq(Nat), NEW n \in 0..Len(h)
    PROVE  Passes!Begin(h, n) # Passes!Wrong
<1>. DEFINE a == Passes!Begin(h, n)
<1>1. a \in Seq(Nat)
  BY BeginIs
<1>2. <<-1>> \notin Seq(Nat)
  OBVIOUS
<1>. HIDE DEF a
<1>. QED
  BY <1>1, <1>2, Zenon DEF a, Passes!Wrong

LEMMA NamedIs ==
    ASSUME NEW h \in Seq(Nat), NEW p \in 0..Len(h)
    PROVE  LET n == Len(h) - p
               x == Named(h, p, n)
           IN  /\ n \in Nat /\ Len(x) = n /\ DOMAIN x = 1..n /\ x \in Seq(Seq(Nat))
               /\ \A s \in 1..n : /\ p + s \in 0..Len(h) /\ x[s] = Passes!Begin(h, p + s)
                                  /\ x[s] # Passes!Wrong /\ Len(x[s]) = p + s
<1>. DEFINE n == Len(h) - p
            x == Named(h, p, n)
<1>1. n \in Nat /\ Len(h) \in Nat
  OBVIOUS
<1>2. x = [s \in 1..n |-> Passes!Begin(h, p + s)]
  BY DEF Named
<1>3. \A s \in 1..n : p + s \in 0..Len(h)
  BY <1>1
<1>. HIDE DEF x, n
<1>4. \A s \in 1..n : x[s] = Passes!Begin(h, p + s) /\ x[s] \in Seq(Nat)
  BY <1>2, <1>3, BeginIs
<1>5. x \in Seq(Seq(Nat)) /\ Len(x) = n /\ DOMAIN x = 1..n
  BY <1>1, <1>2, <1>4
<1>6. \A s \in 1..n : x[s] # Passes!Wrong /\ Len(x[s]) = p + s
  BY <1>3, <1>4, BeginIs, BeginNotWrong, ZenonT(60)
<1>. QED
  BY <1>1, <1>3, <1>4, <1>5, <1>6, Zenon DEF x, n

\* The recurrence over rows that follow the state, row by row.
LEMMA RecurredIs ==
    ASSUME NEW h \in Seq(Nat), NEW p \in 0..Len(h)
    PROVE  LET x == Named(h, p, Len(h) - p)
           IN  Passes!Recurred(Passes!Begin(h, p), x) = x
<1>. DEFINE n == Len(h) - p
            x == Named(h, p, n)
            state == Passes!Begin(h, p)
            Nx(g, row) == IF row # Passes!Wrong /\ g # Passes!Wrong /\ g = Passes!Front(row)
                          THEN row ELSE Passes!Wrong
            St[s \in 0..Len(x)] == IF s = 0 THEN state ELSE Nx(St[s - 1], x[s])
            T == [s \in 0..n |-> Passes!Begin(h, p + s)]
<1>1. Passes!Recurred(state, x) = [s \in 1..Len(x) |-> St[s]]
  BY DEF Passes!Recurred
<1>2. St = CHOOSE g : g = [s \in 0..Len(x) |-> IF s = 0 THEN state ELSE Nx(g[s - 1], x[s])]
  OBVIOUS
<1>3. /\ n \in Nat /\ Len(x) = n /\ DOMAIN x = 1..n
      /\ \A s \in 1..n : /\ p + s \in 0..Len(h) /\ x[s] = Passes!Begin(h, p + s)
                         /\ x[s] # Passes!Wrong /\ Len(x[s]) = p + s
  BY NamedIs, Zenon
<1>4. \A s \in 0..n : p + s \in 0..Len(h) /\ T[s] = Passes!Begin(h, p + s) /\ T[s] # Passes!Wrong
  <2>1. \A s \in 0..n : p + s \in 0..Len(h)
    BY <1>3
  <2>. QED
    BY <2>1, BeginNotWrong
<1>5. \A s \in 1..n : Passes!Front(x[s]) = T[s - 1]
  <2>1. ASSUME NEW s \in 1..n PROVE Passes!Front(x[s]) = T[s - 1]
    <3>1. /\ s - 1 \in 0..n /\ p + s \in 0..Len(h) /\ p + (s - 1) \in 0..(p + s)
          /\ Len(x[s]) - 1 = p + (s - 1)
      BY <1>3
    <3>2. Passes!Front(x[s]) = Passes!Begin(x[s], p + (s - 1))
      BY <3>1 DEF Passes!Front, Passes!Begin
    <3>3. Passes!Begin(Passes!Begin(h, p + s), p + (s - 1)) = Passes!Begin(h, p + (s - 1))
      BY <3>1, BeginBegin
    <3>. QED
      BY <1>3, <1>4, <3>1, <3>2, <3>3, Zenon
  <2>. QED
    BY <2>1
<1>6. T[0] = state
  BY <1>3
<1>. HIDE DEF x, n, state, T
<1>7. T = [s \in 0..Len(x) |-> IF s = 0 THEN state ELSE Nx(T[s - 1], x[s])]
  <2>1. DOMAIN T = 0..n
    BY DEF T
  <2>2. T = [s \in 0..n |-> T[s]]
    BY <2>1 DEF T
  <2>3. \A s \in 0..n : T[s] = IF s = 0 THEN state ELSE Nx(T[s - 1], x[s])
    <3>1. ASSUME NEW s \in 0..n, s # 0 PROVE T[s] = Nx(T[s - 1], x[s])
      <4>1. s \in 1..n /\ s - 1 \in 0..n
        BY <1>3, <3>1
      <4>. QED
        BY <1>3, <1>4, <1>5, <4>1, Zenon
    <3>. QED
      BY <1>6, <3>1
  <2>. HIDE DEF Nx
  <2>. QED
    BY <1>3, <2>2, <2>3, Zenon
<1>8. St = [s \in 0..Len(x) |-> IF s = 0 THEN state ELSE Nx(St[s - 1], x[s])]
  <2>. HIDE DEF Nx
  <2>. QED
    BY <1>2, <1>7, Zenon
<1>. HIDE DEF St, Nx
<1>9. \A s \in 0..n : St[s] = T[s]
  <2>. DEFINE Bad == {s \in 0..n : St[s] # T[s]}
  <2>1. SUFFICES ASSUME Bad # {} PROVE FALSE
    OBVIOUS
  <2>2. PICK m \in Bad : \A kk \in Bad : m <= kk
    <3>1. Bad \in SUBSET Nat
      BY <1>3
    <3>. HIDE DEF Bad
    <3>. QED
      BY <2>1, <3>1, LeastOf
  <2>3. m \in 0..n /\ St[m] # T[m] /\ m # 0
    BY <1>3, <1>6, <1>8, <2>2
  <2>4. m - 1 \in 0..n /\ ~(m <= m - 1)
    BY <1>3, <2>3
  <2>5. St[m - 1] = T[m - 1]
    BY <2>2, <2>4
  <2>6. St[m] = Nx(St[m - 1], x[m]) /\ T[m] = Nx(T[m - 1], x[m])
    BY <1>3, <1>7, <1>8, <2>3, Zenon
  <2>. QED
    BY <2>3, <2>5, <2>6
<1>10. x = [s \in 1..n |-> T[s]]
  <2>1. \A s \in 1..n : s \in 0..n
    BY <1>3
  <2>2. x = [s \in 1..n |-> x[s]]
    BY DEF x, Named
  <2>3. \A s \in 1..n : x[s] = T[s]
    BY <1>3, <1>4, <2>1
  <2>. QED
    BY <2>2, <2>3
<1>11. [s \in 1..Len(x) |-> St[s]] = [s \in 1..n |-> T[s]]
  <2>1. \A s \in 1..n : St[s] = T[s]
    BY <1>3, <1>9
  <2>. QED
    BY <1>3, <2>1
<1>. QED
  BY <1>1, <1>10, <1>11, Zenon DEF x, n, state

\* The rows of a cache up to place n are those of h.
RowsOf(cache, h, n, i, v) ==
  \A t \in 1..n : cache[t] = Passes!Row(Passes!Begin(h, t), i, v)

LEMMA StoredIs ==
    ASSUME NEW h \in Seq(Nat), NEW p \in 0..Len(h), NEW cap \in Nat, Len(h) <= cap,
           NEW cache, DOMAIN cache = 1..cap, NEW i, NEW v, RowsOf(cache, h, p, i, v)
    PROVE  LET r == Passes!Stored(cache, Named(h, p, Len(h) - p), p, i, v)
           IN  DOMAIN r = 1..cap /\ RowsOf(r, h, Len(h), i, v)
<1>. DEFINE n == Len(h) - p
            x == Named(h, p, n)
            r == Passes!Stored(cache, x, p, i, v)
<1>1. /\ n \in Nat /\ Len(x) = n
      /\ \A s \in 1..n : x[s] = Passes!Begin(h, p + s)
  BY NamedIs
<1>2. p + n = Len(h) /\ p \in Nat /\ Len(h) \in Nat
  OBVIOUS
<1>. HIDE DEF x, n
<1>3. r = [t \in 1..cap |-> IF t - p \in 1..n THEN Passes!Row(x[t - p], i, v) ELSE cache[t]]
  BY <1>1 DEF Passes!Stored
<1>4. ASSUME NEW t \in 1..Len(h) PROVE r[t] = Passes!Row(Passes!Begin(h, t), i, v)
  <2>1. t \in 1..cap
    BY <1>2
  <2>2. CASE t <= p
    <3>1. t \in 1..p /\ t - p \notin 1..n
      BY <1>2, <2>2
    <3>. QED
      BY <1>3, <2>1, <3>1 DEF RowsOf
  <2>3. CASE t > p
    <3>1. t - p \in 1..n /\ p + (t - p) = t
      BY <1>1, <1>2, <2>3
    <3>2. x[t - p] = Passes!Begin(h, t)
      BY <1>1, <3>1
    <3>. QED
      BY <1>3, <2>1, <3>1, <3>2
  <2>. QED
    BY <1>2, <2>2, <2>3
<1>5. DOMAIN r = 1..cap /\ RowsOf(r, h, Len(h), i, v)
  <2>1. DOMAIN r = 1..cap
    BY <1>3
  <2>. HIDE DEF r
  <2>. QED
    BY <1>4, <2>1 DEF RowsOf
<1>. QED
  BY <1>5 DEF r, x, n

LEMMA AttendedIs ==
    ASSUME NEW h \in Seq(Nat), NEW p \in 0..Len(h), NEW window \in Nat,
           NEW cache, NEW i, NEW v, RowsOf(cache, h, Len(h), i, v)
    PROVE  LET x == Named(h, p, Len(h) - p)
           IN  Passes!Attended(cache, x, p, window, i, v) = x
<1>. DEFINE n == Len(h) - p
            x == Named(h, p, n)
<1>1. /\ n \in Nat /\ Len(x) = n
      /\ \A s \in 1..n : /\ p + s \in 0..Len(h) /\ x[s] = Passes!Begin(h, p + s)
                         /\ x[s] # Passes!Wrong /\ Len(x[s]) = p + s
  BY NamedIs, Zenon
<1>2. x = [s \in 1..n |-> x[s]]
  BY DEF Named
<1>. HIDE DEF x, n
<1>3. ASSUME NEW s \in 1..n, NEW t \in Passes!Seen(p + s, window)
      PROVE  cache[t] = Passes!Row(Passes!Begin(x[s], t), i, v)
  <2>1. t \in 1..p + s
    BY <1>3 DEF Passes!Seen
  <2>2. t \in 1..Len(h) /\ p + s \in 0..Len(h) /\ t \in 0..p + s
    BY <1>1, <2>1
  <2>3. Passes!Begin(x[s], t) = Passes!Begin(h, t)
    BY <1>1, <2>2, BeginBegin
  <2>. QED
    BY <2>2, <2>3 DEF RowsOf
<1>4. Passes!Attended(cache, x, p, window, i, v) = [s \in 1..n |-> x[s]]
  BY <1>1, <1>3 DEF Passes!Attended
<1>. QED
  BY <1>2, <1>4 DEF x, n

\* The window of a convolution behind the first q tokens of h: the rows just
\* before, and nothing where there is none.
WindowOf(w, h, q) ==
  /\ w \in Seq(Seq(Nat)) /\ Len(w) = ConvL - 1
  /\ \A j \in 1..ConvL - 1 : w[j] = Passes!Begin(h, q - (ConvL - 1) + j)

LEMMA BeforeStart ==
    ASSUME NEW h \in Seq(Nat), NEW n \in Int, n <= 0
    PROVE  Passes!Begin(h, n) = << >>
<1>1. SubSeq(h, 1, n) \in Seq(Nat) /\ Len(SubSeq(h, 1, n)) = 0
  <2>. DEFINE m == 1
  <2>1. m \in Int /\ n \in Int /\ \A i \in m..n : h[i] \in Nat
    OBVIOUS
  <2>2. /\ SubSeq(h, m, n) \in Seq(Nat)
        /\ Len(SubSeq(h, m, n)) = IF m <= n THEN n - m + 1 ELSE 0
    <3>. HIDE DEF m
    <3>. QED
      BY <2>1, SubSeqProperties
  <2>. QED
    BY <2>2
<1>. DEFINE z == SubSeq(h, 1, n)
<1>. HIDE DEF z
<1>2. z \in Seq(Nat) /\ Len(z) = 0 => z = << >>
  BY EmptySeq
<1>. QED
  BY <1>1, <1>2 DEF z, Passes!Begin

LEMMA BeginBefore ==
    ASSUME NEW h \in Seq(Nat), NEW n \in 0..Len(h), NEW m \in Int, m <= n
    PROVE  Passes!Begin(Passes!Begin(h, n), m) = Passes!Begin(h, m)
<1>1. CASE m >= 0
  BY <1>1, BeginBegin
<1>2. CASE m < 0
  <2>1. m <= 0
    BY <1>2
  <2>2. Passes!Begin(h, n) \in Seq(Nat)
    BY BeginIs
  <2>3. Passes!Begin(h, m) = << >>
    BY <2>1, BeforeStart
  <2>4. Passes!Begin(Passes!Begin(h, n), m) = << >>
    BY <2>1, <2>2, BeforeStart
  <2>. QED
    BY <2>3, <2>4
<1>. QED
  BY <1>1, <1>2

\* A window and the rows behind it, side by side.
LEMMA SideBySide ==
    ASSUME NEW h \in Seq(Nat), NEW p \in 0..Len(h), ConvL \in Nat \ {0, 1},
           NEW w, WindowOf(w, h, p)
    PROVE  LET x == Named(h, p, Len(h) - p)
               all == w \o x
               m == ConvL - 1
           IN  /\ all \in Seq(Seq(Nat)) /\ Len(all) = m + (Len(h) - p)
               /\ \A kk \in 1..Len(all) : all[kk] = Passes!Begin(h, p - m + kk)
<1>. DEFINE n == Len(h) - p
            x == Named(h, p, n)
            all == w \o x
            m == ConvL - 1
<1>1. /\ n \in Nat /\ Len(x) = n /\ x \in Seq(Seq(Nat))
      /\ \A s \in 1..n : x[s] = Passes!Begin(h, p + s)
  BY NamedIs
<1>2. w \in Seq(Seq(Nat)) /\ Len(w) = m /\ m \in Nat /\ \A j \in 1..m : w[j] = Passes!Begin(h, p - m + j)
  BY DEF WindowOf
<1>. HIDE DEF x, n, m
<1>3. /\ all \in Seq(Seq(Nat)) /\ Len(all) = m + n
      /\ \A kk \in 1..m : all[kk] = w[kk]
      /\ \A kk \in m + 1..m + n : all[kk] = x[kk - m]
  <2>1. /\ all \in Seq(Seq(Nat)) /\ Len(all) = Len(w) + Len(x)
        /\ \A kk \in 1..Len(w) + Len(x) : all[kk] = IF kk <= Len(w) THEN w[kk] ELSE x[kk - Len(w)]
    <3>. HIDE DEF all
    <3>. QED
      BY <1>1, <1>2, ConcatProperties, ZenonT(60) DEF all
  <2>. HIDE DEF all
  <2>2. \A kk \in 1..m : kk \in 1..m + n /\ kk <= m
    BY <1>1, <1>2
  <2>3. \A kk \in m + 1..m + n : kk \in 1..m + n /\ ~(kk <= m)
    BY <1>1, <1>2
  <2>. QED
    BY <1>1, <1>2, <2>1, <2>2, <2>3
<1>. HIDE DEF all
<1>4. ASSUME NEW kk \in 1..m + n PROVE all[kk] = Passes!Begin(h, p - m + kk)
  <2>1. CASE kk <= m
    <3>1. kk \in 1..m
      BY <1>2, <2>1
    <3>. QED
      BY <1>2, <1>3, <3>1
  <2>2. CASE kk > m
    <3>1. kk - m \in 1..n /\ p + (kk - m) = p - m + kk /\ kk \in m + 1..m + n
      BY <1>1, <1>2, <2>2
    <3>. QED
      BY <1>1, <1>3, <3>1
  <2>. QED
    BY <1>2, <2>1, <2>2
<1>5. all \in Seq(Seq(Nat)) /\ Len(all) = m + n /\ \A kk \in 1..Len(all) : all[kk] = Passes!Begin(h, p - m + kk)
  BY <1>3, <1>4, Zenon
<1>. QED
  BY <1>5 DEF all, x, n, m

LEMMA ConvolvedIs ==
    ASSUME NEW h \in Seq(Nat), NEW p \in 0..Len(h), ConvL \in Nat \ {0, 1},
           NEW w, WindowOf(w, h, p)
    PROVE  LET x == Named(h, p, Len(h) - p)
           IN  Passes!Convolved(w, x) = x /\ WindowOf(Passes!Shifted(w, x), h, Len(h))
<1>. DEFINE n == Len(h) - p
            x == Named(h, p, n)
            m == ConvL - 1
            all == w \o x
            Before(s) == SubSeq(all, s, s + Len(w) - 1)
<1>1. /\ n \in Nat /\ Len(x) = n
      /\ \A s \in 1..n : /\ p + s \in 0..Len(h) /\ x[s] = Passes!Begin(h, p + s)
                         /\ x[s] # Passes!Wrong /\ Len(x[s]) = p + s
  BY NamedIs, Zenon
<1>2. x = [s \in 1..n |-> x[s]]
  BY DEF Named
<1>3. /\ all \in Seq(Seq(Nat)) /\ Len(all) = m + n
      /\ \A kk \in 1..Len(all) : all[kk] = Passes!Begin(h, p - m + kk)
  BY SideBySide
<1>4. Len(w) = m /\ m \in Nat /\ m > 0 /\ p \in Nat /\ Len(h) = p + n
  BY DEF WindowOf
<1>5. Passes!Convolved(w, x) =
        [s \in 1..Len(x) |->
           IF /\ x[s] # Passes!Wrong
              /\ \A j \in 1..Len(w) : Before(s)[j] = Passes!Begin(x[s], Len(x[s]) - Len(w) + j - 1)
           THEN x[s] ELSE Passes!Wrong]
  BY DEF Passes!Convolved
<1>6. Passes!Shifted(w, x) = SubSeq(all, Len(x) + 1, Len(all))
  BY DEF Passes!Shifted
<1>. HIDE DEF x, n, m, all
<1>7. ASSUME NEW s \in 1..n, NEW j \in 1..m
      PROVE  Before(s)[j] = Passes!Begin(x[s], Len(x[s]) - m + j - 1)
  <2>. DEFINE e == s + m - 1
  <2>1. s \in Int /\ e \in Int /\ s <= e /\ e <= Len(all) /\ \A i \in s..e : i \in 1..Len(all) /\ all[i] \in Seq(Nat)
    BY <1>1, <1>3, <1>4
  <2>2. j \in 1..e - s + 1
    BY <1>1, <1>4
  <2>. HIDE DEF e
  <2>3. SubSeq(all, s, e)[j] = all[s + j - 1]
    BY <2>1, <2>2, SubSeqProperties
  <2>4. s + j - 1 \in 1..Len(all) /\ p - m + (s + j - 1) = p + s - m + j - 1
    BY <1>1, <1>3, <1>4
  <2>5. all[s + j - 1] = Passes!Begin(h, p + s - m + j - 1)
    BY <1>3, <2>4
  <2>6. /\ p + s \in 0..Len(h) /\ p + s - m + j - 1 \in Int /\ p + s - m + j - 1 <= p + s
    BY <1>1, <1>4
  <2>7. Passes!Begin(x[s], p + s - m + j - 1) = Passes!Begin(h, p + s - m + j - 1)
    <3>. DEFINE a == p + s
                b == p + s - m + j - 1
    <3>1. a \in 0..Len(h) /\ b \in Int /\ b <= a /\ x[s] = Passes!Begin(h, a)
      BY <1>1, <2>6
    <3>. HIDE DEF a, b
    <3>2. Passes!Begin(Passes!Begin(h, a), b) = Passes!Begin(h, b)
      BY <3>1, BeginBefore
    <3>. QED
      BY <3>1, <3>2 DEF b
  <2>8. Len(x[s]) - m + j - 1 = p + s - m + j - 1
    <3>1. Len(x[s]) = p + s /\ p + s \in Int /\ m \in Int /\ j \in Int
      BY <1>1, <1>4
    <3>. QED
      BY <3>1
  <2>. QED
    BY <1>4, <2>3, <2>5, <2>7, <2>8, Zenon DEF e
<1>8. Passes!Convolved(w, x) = x
  <2>. HIDE DEF Before
  <2>. QED
    BY <1>1, <1>2, <1>4, <1>5, <1>7, ZenonT(60)
<1>9. WindowOf(Passes!Shifted(w, x), h, Len(h))
  <2>. DEFINE z == SubSeq(all, n + 1, Len(all))
  <2>1. n \in 0..Len(all) /\ Len(all) - n = m
    BY <1>1, <1>3, <1>4
  <2>2. z \in Seq(Seq(Nat)) /\ Len(z) = m /\ \A j \in 1..m : z[j] = all[n + j]
    <3>1. /\ z \in Seq(Seq(Nat)) /\ Len(z) = Len(all) - n
          /\ \A j \in 1..Len(all) - n : z[j] = all[n + j]
      BY <1>3, <2>1, TailOf, Zenon
    <3>. QED
      BY <2>1, <3>1
  <2>. HIDE DEF z
  <2>3. \A j \in 1..m : n + j \in 1..Len(all) /\ p - m + (n + j) = Len(h) - m + j
    BY <1>1, <1>3, <1>4, SMTT(60)
  <2>4. \A j \in 1..m : z[j] = Passes!Begin(h, Len(h) - m + j)
    BY <1>3, <2>2, <2>3
  <2>5. z = Passes!Shifted(w, x)
    BY <1>1, <1>6 DEF z
  <2>. QED
    BY <2>2, <2>4, <2>5 DEF WindowOf, m
<1>. QED
  BY <1>8, <1>9 DEF x, n

-----------------------------------------------------------------------------
(* The layers of a model file.                                               *)

\* gemma.c reads v_proj as if it were never packed, and gives a layer that
\* shares the rows of another a k_proj of its own when the file has one.
GemmaAsRead ==
  \A f \in Files : f.engine = "gemma" =>
    /\ Passes!Has(f, "own_k") => f.shared = 0
    /\ ~(Passes!Has(f, "v_proj") /\ Passes!Has(f, "int4"))

LEMMA FileTypes ==
    ASSUME Passes!DenseAssumption, NEW f \in Files
    PROVE  /\ f.layers \in Nat /\ f.layers > 0 /\ f.shared \in Nat
           /\ f.engine \in {"qwen", "lfm2", "gemma", "qwenmoe", "olmoe"}
BY DEF Passes!DenseAssumption, Passes!FileOK

LEMMA KindIs ==
    ASSUME Passes!DenseAssumption, NEW f \in Files, NEW i
    PROVE  /\ f.engine = "qwen" => Passes!Kind(f, i) \in {"linear", "full"}
           /\ f.engine = "qwenmoe" => Passes!Kind(f, i) \in {"linear", "full"}
           /\ f.engine = "lfm2" => Passes!Kind(f, i) \in {"conv", "full"}
           /\ f.engine = "gemma" => Passes!Kind(f, i) \in {"sliding", "full"}
           /\ f.engine = "olmoe" => Passes!Kind(f, i) = "full"
<1>1. Passes!QwenKind(f, i) \in {"linear", "full"}
  BY DEF Passes!QwenKind, Passes!Patterned
<1>2. Passes!QwenmoeKind(f, i) \in {"linear", "full"}
  BY DEF Passes!QwenmoeKind, Passes!Patterned
<1>3. Passes!GemmaKind(f, i) \in {"sliding", "full"}
  BY DEF Passes!GemmaKind, Passes!Patterned
<1>4. Passes!Lfm2Kind(f, i) \in {"conv", "full"}
  BY DEF Passes!Lfm2Kind
<1>. QED
  BY <1>1, <1>2, <1>3, <1>4 DEF Passes!Kind

LEMMA GreatestOf ==
    ASSUME NEW b \in Nat, NEW S \in SUBSET (0..b), S # {}
    PROVE  \E x \in S : \A y \in S : y <= x
<1>. DEFINE D == {b - x : x \in S}
<1>1. D \in SUBSET Nat /\ D # {}
  <2>1. \A x \in S : x \in 0..b /\ b - x \in Nat
    OBVIOUS
  <2>2. D \in SUBSET Nat
    BY <2>1
  <2>. QED
    BY <2>2, Zenon
<1>2. PICK d \in D : \A e \in D : d <= e
  <2>. HIDE DEF D
  <2>. QED
    BY <1>1, LeastOf
<1>3. PICK x \in S : d = b - x
  BY <1>2
<1>4. ASSUME NEW y \in S PROVE y <= x
  <2>1. b - y \in D
    OBVIOUS
  <2>2. b - x <= b - y
    BY <1>2, <1>3, <2>1
  <2>. QED
    BY <2>2
<1>. QED
  BY <1>4

\* Whose rows a layer reads: its own, or those of an earlier one of its kind.
LEMMA SourceIs ==
    ASSUME Passes!DenseAssumption, NEW f \in Files, Passes!Accepted(f),
           NEW i \in 1..f.layers
    PROVE  LET j == Passes!KvSource(f, i)
           IN  /\ j \in 1..f.layers /\ j <= i
               /\ j # i => f.engine = "gemma" /\ f.shared > 0
               /\ Passes!Kind(f, i) \in {"full", "sliding"} => Passes!Owner(f, j)
<1>. DEFINE S == Passes!KvSources(f, i)
            j == Passes!KvSource(f, i)
<1>1. f.layers \in Nat /\ f.shared \in Nat /\ S # {}
  BY FileTypes DEF Passes!Accepted
<1>2. S \in SUBSET (0..f.layers)
  BY <1>1 DEF Passes!KvSources
<1>3. j \in S /\ \A kk \in S : kk <= j
  <2>. HIDE DEF S
  <2>1. \E x \in S : \A y \in S : y <= x
    BY <1>1, <1>2, GreatestOf, Zenon
  <2>. QED
    BY <2>1 DEF Passes!KvSource, S
<1>4. CASE f.engine = "gemma" /\ i > f.layers - f.shared
  <2>1. /\ j \in 1..f.layers - f.shared /\ Passes!GemmaKind(f, j) = Passes!GemmaKind(f, i)
    BY <1>3, <1>4 DEF Passes!KvSources
  <2>2. j \in 1..f.layers /\ j < i /\ f.shared > 0
    BY <1>1, <1>4, <2>1
  <2>3. Passes!Kind(f, j) = Passes!Kind(f, i)
    BY <1>4, <2>1 DEF Passes!Kind
  <2>4. Passes!KvSource(f, j) = j
    <3>1. ~(j > f.layers - f.shared)
      BY <1>1, <2>1
    <3>2. Passes!KvSources(f, j) = {j}
      BY <3>1 DEF Passes!KvSources
    <3>3. j <= j
      BY <2>1
    <3>. HIDE DEF j
    <3>. QED
      BY <3>2, <3>3 DEF Passes!KvSource
  <2>. QED
    BY <1>4, <2>2, <2>3, <2>4 DEF Passes!Owner
<1>5. CASE ~(f.engine = "gemma" /\ i > f.layers - f.shared)
  <2>1. j = i
    BY <1>3, <1>5 DEF Passes!KvSources
  <2>2. i <= i /\ i \in 1..f.layers
    BY <1>1
  <2>. QED
    BY <2>1, <2>2 DEF Passes!Owner
<1>. QED
  BY <1>4, <1>5

\* What is written: the layers that own rows, with the values they are read as.
LEMMA LayerIs ==
    ASSUME Passes!DenseAssumption, GemmaAsRead, NEW f \in Files, Passes!Accepted(f),
           NEW i \in 1..f.layers
    PROVE  LET l == Passes!LayerOf(f, i)
           IN  /\ l.kind = Passes!Kind(f, i) /\ l.src = Passes!KvSource(f, i)
               /\ l.writes <=> l.src = i
               /\ l.v = Passes!VTensor(f) /\ l.wants = Passes!VTensor(f)
               /\ l.exact = TRUE
<1>1. f.engine = "gemma" => /\ Passes!Has(f, "own_k") => f.shared = 0
                            /\ ~(Passes!Has(f, "v_proj") /\ Passes!Has(f, "int4"))
  BY DEF GemmaAsRead
<1>2. f.shared \in Nat
  BY FileTypes
<1>3. Passes!WritesKv(f, i) <=> Passes!KvSource(f, i) = i
  <2>1. Passes!KvSource(f, i) # i => f.engine = "gemma" /\ f.shared > 0
    BY SourceIs
  <2>. QED
    BY <1>1, <1>2, <2>1 DEF Passes!WritesKv
<1>4. Passes!VApplied(f) = Passes!VTensor(f)
  BY <1>1 DEF Passes!VApplied, Passes!VTensor
<1>5. Passes!Applied(f, i) = Passes!Adapters(f, i)
  <2>1. Passes!Qkv(f, i) => Passes!Adapters(f, i) = {}
    BY DEF Passes!Qkv, Passes!Fusable
  <2>2. Passes!GateUp(f, i) => Passes!Adapters(f, i) = {}
    BY DEF Passes!GateUp, Passes!Fusable
  <2>. QED
    BY <2>1, <2>2 DEF Passes!Applied
<1>. QED
  BY <1>3, <1>4, <1>5, Zenon DEF Passes!LayerOf

\* How much of h is in layer j behind layer i of a forward that began at p.
UpTo(h, p, i, j) == IF j <= i THEN Len(h) ELSE p

CellsAt(c, h, p, i) ==
  /\ DOMAIN c = {j \in 1..file.layers : Passes!Owner(file, j)}
  /\ \A j \in DOMAIN c : /\ DOMAIN c[j] = 1..Places
                         /\ RowsOf(c[j], h, UpTo(h, p, i, j), j, Passes!VTensor(file))

StateOf(s, j, h, n) ==
  /\ Passes!Kind(file, j) = "linear" => s = Passes!Begin(h, n)
  /\ Passes!Kind(file, j) = "conv" => WindowOf(s, h, n)

StatesAt(s, h, p, i) ==
  /\ DOMAIN s = 1..file.layers
  /\ \A j \in 1..file.layers : StateOf(s[j], j, h, UpTo(h, p, i, j))

\* Behind layer i: the rows of h, in memory as far as that layer.
Behind_(r, h, p, i) ==
  /\ r = [x |-> r.x, kv |-> r.kv, rec |-> r.rec]
  /\ r.x = Named(h, p, Len(h) - p)
  /\ CellsAt(r.kv, h, p, i) /\ StatesAt(r.rec, h, p, i)

\* A model that was accepted, and a block behind p tokens that fits.
Block_(h, p) ==
  /\ Passes!DenseAssumption /\ GemmaAsRead
  /\ file \in Files /\ Passes!Accepted(file)
  /\ h \in Seq(Nat) /\ p \in 0..Len(h) /\ p < Len(h) /\ Len(h) <= Places

\* What EXCEPT makes of rows, cells and states.
LEMMA ChangedIn ==
    ASSUME NEW A, NEW B, NEW D, NEW a \in A, NEW b \in B, NEW d \in D, NEW y \in A, NEW c \in B,
           NEW i, NEW s, NEW e \in D, e = [d EXCEPT ![i] = s], NEW q, NEW t,
           q = [[x |-> a, kv |-> b, rec |-> d] EXCEPT !.kv = c, !.x = y],
           t = [[x |-> a, kv |-> b, rec |-> d] EXCEPT !.x = y, !.rec[i] = s]
    PROVE  q = [x |-> y, kv |-> c, rec |-> d] /\ t = [x |-> y, kv |-> b, rec |-> e]
  BY Zenon

LEMMA Changed ==
    ASSUME NEW r, r = [x |-> r.x, kv |-> r.kv, rec |-> r.rec], NEW y, NEW c, NEW i, NEW s
    PROVE  /\ [r EXCEPT !.kv = c, !.x = y] = [x |-> y, kv |-> c, rec |-> r.rec]
           /\ [r EXCEPT !.x = y, !.rec[i] = s] = [x |-> y, kv |-> r.kv, rec |-> [r.rec EXCEPT ![i] = s]]
<1>. DEFINE a == r.x
            b == r.kv
            d == r.rec
            e == [d EXCEPT ![i] = s]
            q == [r EXCEPT !.kv = c, !.x = y]
            t == [r EXCEPT !.x = y, !.rec[i] = s]
<1>1. r = [x |-> a, kv |-> b, rec |-> d]
  OBVIOUS
<1>. HIDE DEF a, b, d
<1>2. q = [[x |-> a, kv |-> b, rec |-> d] EXCEPT !.kv = c, !.x = y]
  BY <1>1
<1>3. t = [[x |-> a, kv |-> b, rec |-> d] EXCEPT !.x = y, !.rec[i] = s]
  BY <1>1
<1>4. e = [d EXCEPT ![i] = s]
  OBVIOUS
<1>. DEFINE A == {a, y}
            B == {b, c}
            D == {d, e}
<1>5. a \in A /\ b \in B /\ d \in D /\ y \in A /\ c \in B /\ e \in D
  OBVIOUS
<1>. HIDE DEF A, B, D, e, q, t
<1>6. q = [x |-> y, kv |-> c, rec |-> d] /\ t = [x |-> y, kv |-> b, rec |-> e]
  BY <1>2, <1>3, <1>4, <1>5, ChangedIn, ZenonT(60)
<1>. QED
  BY <1>6 DEF q, t, e, b, d

LEMMA AttentionStep ==
    ASSUME NEW h, NEW p, Block_(h, p), NEW i \in 1..file.layers, NEW r, Behind_(r, h, p, i - 1),
           NEW window \in Nat, Passes!Kind(file, i) \in {"full", "sliding"}
    PROVE  Behind_(Passes!Attention(Passes!LayerOf(file, i), i, r, p, window), h, p, i)
<1>. DEFINE l == Passes!LayerOf(file, i)
            x == Named(h, p, Len(h) - p)
            v == Passes!VTensor(file)
            j == Passes!KvSource(file, i)
            laid == IF l.writes THEN [r.kv EXCEPT ![l.src] = Passes!Stored(@, r.x, p, i, l.v)] ELSE r.kv
            of == IF l.writes THEN i ELSE l.src
            q == [r EXCEPT !.kv = laid,
                           !.x = Passes!Attended(laid[l.src], @, p, window, of, l.wants)]
<1>1. /\ Passes!DenseAssumption /\ GemmaAsRead /\ file \in Files /\ Passes!Accepted(file)
      /\ h \in Seq(Nat) /\ p \in 0..Len(h) /\ p < Len(h) /\ Len(h) <= Places
      /\ Places \in Nat /\ file.layers \in Nat
  BY FileTypes DEF Block_, Passes!DenseAssumption
<1>2. /\ l.src = j /\ (l.writes <=> j = i) /\ l.v = v /\ l.wants = v
  BY <1>1, LayerIs, ZenonT(60)
<1>3. j \in 1..file.layers /\ j <= i /\ Passes!Owner(file, j)
  BY <1>1, SourceIs
<1>4. /\ r = [x |-> r.x, kv |-> r.kv, rec |-> r.rec]
      /\ r.x = x /\ CellsAt(r.kv, h, p, i - 1) /\ StatesAt(r.rec, h, p, i - 1)
  BY DEF Behind_
<1>5. Passes!Attention(l, i, r, p, window) = q
  BY DEF Passes!Attention
<1>. HIDE DEF l, x, v, j
<1>6. /\ q.kv = laid /\ q.rec = r.rec /\ q.x = Passes!Attended(laid[l.src], r.x, p, window, of, l.wants)
      /\ q = [x |-> q.x, kv |-> q.kv, rec |-> q.rec]
  <2>. DEFINE y == Passes!Attended(laid[l.src], r.x, p, window, of, l.wants)
  <2>. HIDE DEF laid, of
  <2>1. q = [r EXCEPT !.kv = laid, !.x = y]
    OBVIOUS
  <2>. HIDE DEF y, q
  <2>2. q = [x |-> y, kv |-> laid, rec |-> r.rec]
    BY <1>4, <2>1, Changed, Zenon
  <2>. QED
    BY <2>2 DEF y
<1>7. \A kk \in 1..file.layers : kk # i => UpTo(h, p, i - 1, kk) = UpTo(h, p, i, kk)
  BY <1>1 DEF UpTo
<1>8. UpTo(h, p, i - 1, i) = p /\ UpTo(h, p, i, i) = Len(h) /\ UpTo(h, p, i, j) = Len(h)
  BY <1>1, <1>3 DEF UpTo
<1>9. CellsAt(laid, h, p, i) /\ of = j
  <2>1. CASE j = i
    <3>. DEFINE s == Passes!Stored(r.kv[i], x, p, i, v)
    <3>1. laid = [r.kv EXCEPT ![i] = s] /\ of = i
      BY <1>2, <1>4, <2>1
    <3>2. i \in DOMAIN r.kv /\ DOMAIN r.kv[i] = 1..Places /\ RowsOf(r.kv[i], h, p, i, v)
      BY <1>3, <1>4, <1>8, <2>1 DEF CellsAt, v
    <3>3. DOMAIN s = 1..Places /\ RowsOf(s, h, Len(h), i, v)
      BY <1>1, <3>2, StoredIs DEF x
    <3>. HIDE DEF s
    <3>4. DOMAIN laid = DOMAIN r.kv /\ laid[i] = s /\ \A kk \in DOMAIN r.kv : kk # i => laid[kk] = r.kv[kk]
      BY <3>1, <3>2
    <3>. QED
      BY <1>4, <1>7, <1>8, <2>1, <3>1, <3>3, <3>4 DEF CellsAt, v
  <2>2. CASE j # i
    <3>1. laid = r.kv /\ of = j
      BY <1>2, <2>2
    <3>2. i \notin DOMAIN r.kv
      BY <1>4, <2>2 DEF CellsAt, Passes!Owner, j
    <3>. QED
      BY <1>4, <1>7, <3>1, <3>2 DEF CellsAt
  <2>. QED
    BY <2>1, <2>2
<1>10. q.x = x
  <2>1. RowsOf(laid[j], h, Len(h), j, v)
    BY <1>3, <1>8, <1>9 DEF CellsAt, v
  <2>. HIDE DEF laid, of
  <2>2. Passes!Attended(laid[j], x, p, window, j, v) = x
    BY <1>1, <2>1, AttendedIs DEF x
  <2>. QED
    BY <1>2, <1>4, <1>6, <1>9, <2>2
<1>11. StatesAt(r.rec, h, p, i)
  <2>1. Passes!Kind(file, i) # "linear" /\ Passes!Kind(file, i) # "conv"
    OBVIOUS
  <2>. QED
    BY <1>4, <1>7, <2>1 DEF StatesAt, StateOf
<1>. HIDE DEF q, laid
<1>. QED
  BY <1>5, <1>6, <1>9, <1>10, <1>11 DEF Behind_, x, l

LEMMA DeltaNetStep ==
    ASSUME NEW h, NEW p, Block_(h, p), NEW i \in 1..file.layers, NEW r, Behind_(r, h, p, i - 1),
           Passes!Kind(file, i) = "linear"
    PROVE  Behind_(Passes!DeltaNet(i, r), h, p, i)
<1>. DEFINE x == Named(h, p, Len(h) - p)
            y == Passes!Recurred(r.rec[i], r.x)
            q == [r EXCEPT !.x = y, !.rec[i] = y[Len(y)]]
<1>1. /\ h \in Seq(Nat) /\ p \in 0..Len(h) /\ p < Len(h) /\ file.layers \in Nat
  BY FileTypes DEF Block_
<1>2. /\ r = [x |-> r.x, kv |-> r.kv, rec |-> r.rec]
      /\ r.x = x /\ CellsAt(r.kv, h, p, i - 1) /\ StatesAt(r.rec, h, p, i - 1)
  BY DEF Behind_
<1>3. Passes!DeltaNet(i, r) = q
  BY DEF Passes!DeltaNet
<1>4. \A kk \in 1..file.layers : kk # i => UpTo(h, p, i - 1, kk) = UpTo(h, p, i, kk)
  BY <1>1 DEF UpTo
<1>5. UpTo(h, p, i - 1, i) = p /\ UpTo(h, p, i, i) = Len(h)
  BY <1>1 DEF UpTo
<1>6. r.rec[i] = Passes!Begin(h, p) /\ i \in DOMAIN r.rec /\ DOMAIN r.rec = 1..file.layers
  BY <1>2, <1>5 DEF StatesAt, StateOf
<1>7. y = x
  BY <1>1, <1>2, <1>6, RecurredIs
<1>8. y[Len(y)] = Passes!Begin(h, Len(h))
  <2>1. /\ Len(x) = Len(h) - p
        /\ \A s \in 1..Len(h) - p : x[s] = Passes!Begin(h, p + s)
    BY <1>1, NamedIs
  <2>2. Len(h) - p \in 1..Len(h) - p /\ p + (Len(h) - p) = Len(h)
    BY <1>1
  <2>. QED
    BY <1>7, <2>1, <2>2
<1>. HIDE DEF x, y
<1>9. /\ q.kv = r.kv /\ q.x = y /\ q.rec = [r.rec EXCEPT ![i] = y[Len(y)]]
      /\ q = [x |-> q.x, kv |-> q.kv, rec |-> q.rec]
  <2>. DEFINE z == y[Len(y)]
  <2>1. q = [r EXCEPT !.x = y, !.rec[i] = z]
    OBVIOUS
  <2>. HIDE DEF z, q
  <2>2. q = [x |-> y, kv |-> r.kv, rec |-> [r.rec EXCEPT ![i] = z]]
    BY <1>2, <2>1, Changed, Zenon
  <2>. QED
    BY <2>2 DEF z
<1>10. CellsAt(q.kv, h, p, i)
  <2>1. i \notin DOMAIN r.kv
    BY <1>2 DEF CellsAt, Passes!Owner
  <2>. QED
    BY <1>2, <1>4, <1>9, <2>1 DEF CellsAt
<1>11. StatesAt(q.rec, h, p, i)
  <2>1. q.rec[i] = Passes!Begin(h, Len(h)) /\ DOMAIN q.rec = 1..file.layers
        /\ \A kk \in 1..file.layers : kk # i => q.rec[kk] = r.rec[kk]
    BY <1>6, <1>8, <1>9, Zenon
  <2>. HIDE DEF q
  <2>. QED
    BY <1>2, <1>4, <1>5, <2>1 DEF StatesAt, StateOf
<1>. HIDE DEF q
<1>. QED
  BY <1>3, <1>7, <1>9, <1>10, <1>11 DEF Behind_, x

LEMMA ShortConvStep ==
    ASSUME NEW h, NEW p, Block_(h, p), NEW i \in 1..file.layers, NEW r, Behind_(r, h, p, i - 1),
           Passes!Kind(file, i) = "conv"
    PROVE  Behind_(Passes!ShortConv(i, r), h, p, i)
<1>. DEFINE x == Named(h, p, Len(h) - p)
            q == [r EXCEPT !.x = Passes!Convolved(r.rec[i], @), !.rec[i] = Passes!Shifted(@, r.x)]
<1>1. /\ h \in Seq(Nat) /\ p \in 0..Len(h) /\ p < Len(h) /\ file.layers \in Nat
      /\ ConvL \in Nat \ {0, 1}
  BY FileTypes DEF Block_, Passes!DenseAssumption
<1>2. /\ r = [x |-> r.x, kv |-> r.kv, rec |-> r.rec]
      /\ r.x = x /\ CellsAt(r.kv, h, p, i - 1) /\ StatesAt(r.rec, h, p, i - 1)
  BY DEF Behind_
<1>3. Passes!ShortConv(i, r) = q
  BY DEF Passes!ShortConv
<1>4. \A kk \in 1..file.layers : kk # i => UpTo(h, p, i - 1, kk) = UpTo(h, p, i, kk)
  BY <1>1 DEF UpTo
<1>5. UpTo(h, p, i - 1, i) = p /\ UpTo(h, p, i, i) = Len(h)
  BY <1>1 DEF UpTo
<1>6. WindowOf(r.rec[i], h, p) /\ i \in DOMAIN r.rec /\ DOMAIN r.rec = 1..file.layers
  BY <1>2, <1>5 DEF StatesAt, StateOf
<1>7. Passes!Convolved(r.rec[i], x) = x /\ WindowOf(Passes!Shifted(r.rec[i], x), h, Len(h))
  BY <1>1, <1>6, ConvolvedIs
<1>. HIDE DEF x
<1>9. /\ q.kv = r.kv /\ q.x = x /\ q.rec = [r.rec EXCEPT ![i] = Passes!Shifted(r.rec[i], x)]
      /\ q = [x |-> q.x, kv |-> q.kv, rec |-> q.rec]
  <2>. DEFINE y == Passes!Convolved(r.rec[i], r.x)
              z == Passes!Shifted(r.rec[i], r.x)
  <2>1. q = [r EXCEPT !.x = y, !.rec[i] = z]
    OBVIOUS
  <2>. HIDE DEF z, y, q
  <2>2. q = [x |-> y, kv |-> r.kv, rec |-> [r.rec EXCEPT ![i] = z]]
    BY <1>2, <2>1, Changed, Zenon
  <2>3. y = x /\ z = Passes!Shifted(r.rec[i], x)
    BY <1>2, <1>7 DEF y, z
  <2>. QED
    BY <2>2, <2>3
<1>10. CellsAt(q.kv, h, p, i)
  <2>1. i \notin DOMAIN r.kv
    BY <1>2 DEF CellsAt, Passes!Owner
  <2>. QED
    BY <1>2, <1>4, <1>9, <2>1 DEF CellsAt
<1>11. StatesAt(q.rec, h, p, i)
  <2>1. q.rec[i] = Passes!Shifted(r.rec[i], x) /\ DOMAIN q.rec = 1..file.layers
        /\ \A kk \in 1..file.layers : kk # i => q.rec[kk] = r.rec[kk]
    BY <1>6, <1>9, Zenon
  <2>. HIDE DEF q
  <2>. QED
    BY <1>2, <1>4, <1>5, <1>7, <2>1 DEF StatesAt, StateOf
<1>. HIDE DEF q
<1>. QED
  BY <1>3, <1>9, <1>10, <1>11 DEF Behind_, x

LEMMA LayerStep ==
    ASSUME NEW h, NEW p, Block_(h, p), NEW i \in 1..file.layers, NEW r, Behind_(r, h, p, i - 1)
    PROVE  Behind_(Passes!Layer(Passes!LayerOf(file, i), i, r, p), h, p, i)
<1>. DEFINE l == Passes!LayerOf(file, i)
<1>1. /\ Passes!DenseAssumption /\ GemmaAsRead /\ file \in Files /\ Passes!Accepted(file)
      /\ 0 \in Nat /\ Window \in Nat
  BY DEF Block_, Passes!DenseAssumption
<1>2. l.kind = Passes!Kind(file, i) /\ l.exact = TRUE
  BY <1>1, LayerIs, Zenon
<1>3. \A q : Passes!FeedForward(l, q) = q
  BY <1>2 DEF Passes!FeedForward
<1>. HIDE DEF l
<1>4. Passes!Kind(file, i) = "full" => Behind_(Passes!Attention(l, i, r, p, 0), h, p, i)
  BY <1>1, AttentionStep DEF l
<1>5. Passes!Kind(file, i) = "sliding" => Behind_(Passes!Attention(l, i, r, p, Window), h, p, i)
  BY <1>1, AttentionStep DEF l
<1>6. Passes!Kind(file, i) = "linear" => Behind_(Passes!DeltaNet(i, r), h, p, i)
  BY DeltaNetStep
<1>7. Passes!Kind(file, i) = "conv" => Behind_(Passes!ShortConv(i, r), h, p, i)
  BY ShortConvStep
<1>8. CASE file.engine = "qwen"
  <2>1. Passes!Kind(file, i) \in {"linear", "full"} /\ Passes!Layer(l, i, r, p) = Passes!QwenLayer(l, i, r, p)
    BY <1>1, <1>8, KindIs DEF Passes!Layer
  <2>. QED
    BY <1>2, <1>3, <1>4, <1>6, <2>1 DEF Passes!QwenLayer, l
<1>9. CASE file.engine = "lfm2"
  <2>1. Passes!Kind(file, i) \in {"conv", "full"} /\ Passes!Layer(l, i, r, p) = Passes!Lfm2Layer(l, i, r, p)
    BY <1>1, <1>9, KindIs DEF Passes!Layer
  <2>. QED
    BY <1>2, <1>3, <1>4, <1>7, <2>1 DEF Passes!Lfm2Layer, l
<1>10. CASE file.engine = "gemma"
  <2>1. Passes!Kind(file, i) \in {"sliding", "full"} /\ Passes!Layer(l, i, r, p) = Passes!GemmaLayer(l, i, r, p)
    BY <1>1, <1>10, KindIs DEF Passes!Layer
  <2>. QED
    BY <1>2, <1>3, <1>4, <1>5, <2>1 DEF Passes!GemmaLayer, l
<1>11. CASE file.engine = "qwenmoe"
  <2>1. Passes!Kind(file, i) \in {"linear", "full"} /\ Passes!Layer(l, i, r, p) = Passes!QwenmoeLayer(l, i, r, p)
    BY <1>1, <1>11, KindIs DEF Passes!Layer
  <2>. QED
    BY <1>2, <1>3, <1>4, <1>6, <2>1 DEF Passes!QwenmoeLayer, l
<1>12. CASE file.engine = "olmoe"
  <2>1. Passes!Kind(file, i) = "full" /\ Passes!Layer(l, i, r, p) = Passes!OlmoeLayer(l, i, r, p)
    BY <1>1, <1>12, KindIs DEF Passes!Layer
  <2>. QED
    BY <1>2, <1>3, <1>4, <2>1 DEF Passes!OlmoeLayer, l
<1>. QED
  BY <1>1, <1>8, <1>9, <1>10, <1>11, <1>12, FileTypes

-----------------------------------------------------------------------------
(* A forward.                                                                *)

LEMMA LaidBehind ==
    ASSUME NEW a \in Seq(Nat), NEW b \in Seq(Nat)
    PROVE  /\ a \o b \in Seq(Nat) /\ Len(a \o b) = Len(a) + Len(b) /\ Len(a) \in 0..Len(a \o b)
           /\ Passes!Begin(a \o b, Len(a)) = a
           /\ \A s \in 0..Len(b) : a \o Passes!Begin(b, s) = Passes!Begin(a \o b, Len(a) + s)
<1>. DEFINE c == a \o b
<1>1. /\ c \in Seq(Nat) /\ Len(c) = Len(a) + Len(b)
      /\ \A kk \in 1..Len(a) + Len(b) : c[kk] = IF kk <= Len(a) THEN a[kk] ELSE b[kk - Len(a)]
  <2>. HIDE DEF c
  <2>. QED
    BY ConcatProperties DEF c
<1>. HIDE DEF c
<1>2. Len(a) \in Nat /\ Len(b) \in Nat
  OBVIOUS
<1>3. Len(a) \in 0..Len(c)
  BY <1>1, <1>2
<1>4. ASSUME NEW s \in 0..Len(b) PROVE a \o Passes!Begin(b, s) = Passes!Begin(c, Len(a) + s)
  <2>. DEFINE d == Passes!Begin(b, s)
              e == a \o d
              g == Passes!Begin(c, Len(a) + s)
  <2>1. d \in Seq(Nat) /\ Len(d) = s /\ \A kk \in 1..s : d[kk] = b[kk]
    BY BeginIs
  <2>. HIDE DEF d
  <2>2. /\ e \in Seq(Nat) /\ Len(e) = Len(a) + s
        /\ \A kk \in 1..Len(a) + s : e[kk] = IF kk <= Len(a) THEN a[kk] ELSE d[kk - Len(a)]
    <3>. HIDE DEF e
    <3>. QED
      BY <2>1, ConcatProperties, Zenon DEF e
  <2>3. Len(a) + s \in 0..Len(c)
    BY <1>1, <1>2
  <2>4. g \in Seq(Nat) /\ Len(g) = Len(a) + s /\ \A kk \in 1..Len(a) + s : g[kk] = c[kk]
    BY <1>1, <2>3, BeginIs
  <2>. HIDE DEF e, g
  <2>5. ASSUME NEW kk \in 1..Len(a) + s PROVE e[kk] = g[kk]
    <3>1. kk \in 1..Len(a) + Len(b) /\ (~(kk <= Len(a)) => kk - Len(a) \in 1..s)
      BY <1>2
    <3>. QED
      BY <1>1, <2>1, <2>2, <2>4, <3>1, Zenon
  <2>6. e = g
    BY <2>2, <2>4, <2>5, SeqEqual
  <2>. QED
    BY <2>6 DEF e, g, d
<1>5. Passes!Begin(c, Len(a)) = a
  <2>. DEFINE g == Passes!Begin(c, Len(a))
  <2>1. g \in Seq(Nat) /\ Len(g) = Len(a) /\ \A kk \in 1..Len(a) : g[kk] = c[kk]
    BY <1>1, <1>3, BeginIs, Zenon
  <2>. HIDE DEF g
  <2>2. \A kk \in 1..Len(a) : kk \in 1..Len(a) + Len(b) /\ kk <= Len(a)
    BY <1>2
  <2>3. g = a
    BY <1>1, <2>1, <2>2, SeqEqual, Zenon
  <2>. QED
    BY <2>3 DEF g
<1>. QED
  BY <1>1, <1>3, <1>4, <1>5 DEF c

\* The placeholders of ids are the rows behind the first u, in their order.
Numbered(ids, u) ==
  \A s \in 1..Len(ids) :
    ids[s] >= Img => ids[s] = Img + u + Cardinality({r \in 1..s : ids[r] >= Img})

LEMMA EmbeddedIs ==
    ASSUME NEW ids \in Seq(Nat), history \in Seq(Nat), Numbered(ids, taken),
           Img \in Nat, taken \in Nat
    PROVE  LET h == history \o ids
           IN  Passes!Embedded(ids) = Named(h, Len(history), Len(h) - Len(history))
<1>. DEFINE h == history \o ids
            C(s) == Cardinality({r \in 1..s : ids[r] >= Img})
<1>1. /\ h \in Seq(Nat) /\ Len(h) = Len(history) + Len(ids)
      /\ \A s \in 0..Len(ids) : history \o Passes!Begin(ids, s) = Passes!Begin(h, Len(history) + s)
  BY LaidBehind, Zenon
<1>2. Len(h) - Len(history) = Len(ids)
  <2>1. Len(history) \in Nat /\ Len(ids) \in Nat
    OBVIOUS
  <2>. QED
    BY <1>1, <2>1
<1>. HIDE DEF h
<1>3. \A s \in 1..Len(ids) : C(s) \in Nat
  <2>1. ASSUME NEW s \in 1..Len(ids) PROVE C(s) \in Nat
    <3>1. IsFiniteSet({r \in 1..s : ids[r] >= Img})
      <4>1. IsFiniteSet(1..s)
        BY FS_Interval
      <4>. QED
        BY <4>1, FS_Subset
    <3>. QED
      BY <3>1, FS_CardinalityType
  <2>. QED
    BY <2>1
<1>4. \A s \in 1..Len(ids) : Passes!Placed(ids, s) = taken + C(s)
  BY DEF Passes!Placed, Passes!Cardinality, Cardinality
<1>. HIDE DEF C
<1>5. \A s \in 1..Len(ids) : ids[s] >= Img => ids[s] = Img + Passes!Placed(ids, s)
  <2>1. ASSUME NEW s \in 1..Len(ids), ids[s] >= Img PROVE ids[s] = Img + Passes!Placed(ids, s)
    <3>1. ids[s] = Img + taken + C(s)
      BY <2>1 DEF Numbered, C
    <3>2. Img + taken + C(s) = Img + (taken + C(s))
      BY <1>3
    <3>. QED
      BY <1>4, <3>1, <3>2
  <2>. QED
    BY <2>1
<1>6. Passes!Embedded(ids) = [s \in 1..Len(ids) |-> history \o Passes!Begin(ids, s)]
  BY <1>5 DEF Passes!Embedded
<1>7. \A s \in 1..Len(ids) : history \o Passes!Begin(ids, s) = Passes!Begin(h, Len(history) + s)
  <2>1. \A s \in 1..Len(ids) : s \in 0..Len(ids)
    OBVIOUS
  <2>. QED
    BY <1>1, <2>1, Zenon
<1>. QED
  BY <1>2, <1>6, <1>7, Zenon DEF Named, h

\* What is in memory is that of the conversation.
InMemory ==
  /\ Passes!DenseAssumption /\ GemmaAsRead
  /\ file \in Files /\ Passes!Accepted(file)
  /\ layers = [i \in 1..file.layers |-> Passes!LayerOf(file, i)]
  /\ history \in Seq(Nat) /\ taken \in Nat
  /\ CellsAt(cells, history, Len(history), 0)
  /\ StatesAt(rec, history, Len(history), 0)

LEMMA StateLonger ==
    ASSUME NEW h \in Seq(Nat), NEW p \in 0..Len(h), ConvL \in Nat \ {0, 1},
           NEW s, NEW j, NEW cache, NEW i, NEW v
    PROVE  /\ RowsOf(cache, Passes!Begin(h, p), p, i, v) <=> RowsOf(cache, h, p, i, v)
           /\ StateOf(s, j, Passes!Begin(h, p), p) <=> StateOf(s, j, h, p)
<1>1. \A t \in 1..p : Passes!Begin(Passes!Begin(h, p), t) = Passes!Begin(h, t)
  <2>1. \A t \in 1..p : t \in 0..p
    OBVIOUS
  <2>. QED
    BY <2>1, BeginBegin
<1>2. \A kk \in 1..ConvL - 1 :
        Passes!Begin(Passes!Begin(h, p), p - (ConvL - 1) + kk) = Passes!Begin(h, p - (ConvL - 1) + kk)
  <2>1. ASSUME NEW kk \in 1..ConvL - 1
        PROVE  Passes!Begin(Passes!Begin(h, p), p - (ConvL - 1) + kk) = Passes!Begin(h, p - (ConvL - 1) + kk)
    <3>. DEFINE m == p - (ConvL - 1) + kk
    <3>1. m \in Int /\ m <= p
      OBVIOUS
    <3>. HIDE DEF m
    <3>2. Passes!Begin(Passes!Begin(h, p), m) = Passes!Begin(h, m)
      BY <3>1, BeginBefore
    <3>. QED
      BY <3>2 DEF m
  <2>. QED
    BY <2>1, Zenon
<1>3. Passes!Begin(Passes!Begin(h, p), p) = Passes!Begin(h, p)
  BY BeginBegin
<1>4. RowsOf(cache, Passes!Begin(h, p), p, i, v) <=> RowsOf(cache, h, p, i, v)
  BY <1>1 DEF RowsOf
<1>5. WindowOf(s, Passes!Begin(h, p), p) <=> WindowOf(s, h, p)
  BY <1>2, Zenon DEF WindowOf
<1>. QED
  BY <1>3, <1>4, <1>5 DEF StateOf

LEMMA PassIs ==
    ASSUME InMemory, NEW ids \in Seq(Nat), ids # << >>, Numbered(ids, taken),
           Len(history) + Len(ids) <= Places
    PROVE  /\ Block_(history \o ids, Len(history))
           /\ Behind_(Passes!Pass(ids), history \o ids, Len(history), file.layers)
<1>. DEFINE h == history \o ids
            p == Len(history)
            L == file.layers
            base == [x |-> Passes!Embedded(ids), kv |-> cells, rec |-> rec]
            Step(i, r) == Passes!Layer(layers[i], i, r, p)
            After[i \in 0..L] == IF i = 0 THEN base ELSE Step(i, After[i - 1])
<1>1. /\ Passes!DenseAssumption /\ GemmaAsRead /\ file \in Files /\ Passes!Accepted(file)
      /\ L \in Nat /\ L > 0 /\ history \in Seq(Nat) /\ taken \in Nat /\ Img \in Nat
      /\ ConvL \in Nat \ {0, 1}
  BY FileTypes DEF InMemory, Passes!DenseAssumption
<1>2. /\ h \in Seq(Nat) /\ Len(h) = p + Len(ids) /\ p \in 0..Len(h) /\ Passes!Begin(h, p) = history
  BY <1>1, LaidBehind
<1>3. Block_(h, p)
  <2>1. Len(ids) \in Nat /\ Len(ids) # 0 /\ p \in Nat
    BY <1>1, EmptySeq
  <2>. QED
    BY <1>1, <1>2, <2>1 DEF Block_
<1>4. Passes!Pass(ids) = After[L]
  BY DEF Passes!Pass
<1>5. After = CHOOSE g : g = [i \in 0..L |-> IF i = 0 THEN base ELSE Step(i, g[i - 1])]
  OBVIOUS
<1>6. Behind_(base, h, p, 0)
  <2>1. base.x = Named(h, p, Len(h) - p)
    BY <1>1, EmbeddedIs
  <2>2. CellsAt(cells, h, p, 0)
    <3>1. CellsAt(cells, Passes!Begin(h, p), p, 0)
      BY <1>2 DEF InMemory
    <3>2. /\ \A j \in 1..L : UpTo(h, p, 0, j) = p
          /\ \A j \in 1..L : UpTo(Passes!Begin(h, p), p, 0, j) = p
      BY <1>1 DEF UpTo
    <3>. QED
      BY <1>1, <1>2, <3>1, <3>2, StateLonger, Zenon DEF CellsAt
  <2>3. StatesAt(rec, h, p, 0)
    <3>1. StatesAt(rec, Passes!Begin(h, p), p, 0)
      BY <1>2 DEF InMemory
    <3>2. /\ \A j \in 1..L : UpTo(h, p, 0, j) = p
          /\ \A j \in 1..L : UpTo(Passes!Begin(h, p), p, 0, j) = p
      BY <1>1 DEF UpTo
    <3>. QED
      BY <1>1, <1>2, <3>1, <3>2, StateLonger, Zenon DEF StatesAt
  <2>. QED
    BY <2>1, <2>2, <2>3 DEF Behind_
<1>7. ASSUME NEW i \in 1..L, NEW r, Behind_(r, h, p, i - 1) PROVE Behind_(Step(i, r), h, p, i)
  <2>1. layers[i] = Passes!LayerOf(file, i)
    BY DEF InMemory
  <2>. QED
    BY <1>3, <1>7, <2>1, LayerStep
<1>. HIDE DEF h, p, L, base, Step, After
<1>. DEFINE IsAfter(g, m) == /\ g = [i \in 0..m |-> g[i]] /\ g[0] = base
                             /\ \A i \in 1..m : g[i] = Step(i, g[i - 1])
            Bad == {m \in 0..L : \A g : ~IsAfter(g, m)}
<1>8. Bad = {}
  <2>1. SUFFICES ASSUME Bad # {} PROVE FALSE
    OBVIOUS
  <2>2. PICK m \in Bad : \A kk \in Bad : m <= kk
    <3>1. Bad \in SUBSET Nat
      BY <1>1
    <3>. HIDE DEF Bad
    <3>. QED
      BY <2>1, <3>1, LeastOf
  <2>3. m \in 0..L /\ \A g : ~IsAfter(g, m)
    BY <2>2
  <2>4. m # 0
    <3>1. IsAfter([i \in 0..0 |-> base], 0)
      OBVIOUS
    <3>. QED
      BY <2>3, <3>1, Zenon
  <2>5. m \in 1..L /\ m - 1 \in 0..L /\ m - 1 \in 0..m - 1 /\ ~(m <= m - 1)
    BY <1>1, <2>3, <2>4
  <2>6. PICK g : IsAfter(g, m - 1)
    <3>1. m - 1 \notin Bad
      BY <2>2, <2>5, Zenon
    <3>. QED
      BY <2>5, <3>1
  <2>. DEFINE f == [i \in 0..m |-> IF i = m THEN Step(m, g[m - 1]) ELSE g[i]]
  <2>7. f = [i \in 0..m |-> f[i]] /\ f[0] = base /\ \A i \in 1..m : f[i] = Step(i, f[i - 1])
    <3>1. f[0] = base
      BY <2>5, <2>6
    <3>2. ASSUME NEW i \in 1..m PROVE f[i] = Step(i, f[i - 1])
      <4>1. i \in 0..m /\ i - 1 \in 0..m /\ i - 1 # m /\ (i # m => i \in 1..m - 1)
        BY <2>5
      <4>2. f[i - 1] = g[i - 1]
        BY <4>1
      <4>. QED
        BY <2>6, <4>1, <4>2, Zenon
    <3>3. f = [i \in 0..m |-> f[i]]
      OBVIOUS
    <3>. HIDE DEF f
    <3>. QED
      BY <3>1, <3>2, <3>3, Zenon
  <2>. HIDE DEF f
  <2>. QED
    BY <2>3, <2>7, Zenon
<1>9. PICK g : IsAfter(g, L)
  <2>1. L \in 0..L
    BY <1>1
  <2>. QED
    BY <1>8, <2>1
<1>10. g = [i \in 0..L |-> IF i = 0 THEN base ELSE Step(i, g[i - 1])]
  <2>1. \A i \in 0..L : g[i] = IF i = 0 THEN base ELSE Step(i, g[i - 1])
    <3>1. \A i \in 0..L : i = 0 \/ i \in 1..L
      BY <1>1
    <3>. QED
      BY <1>1, <1>9, <3>1, Zenon
  <2>2. g = [i \in 0..L |-> g[i]]
    BY <1>9
  <2>. QED
    BY <2>1, <2>2, Zenon
<1>11. After = [i \in 0..L |-> IF i = 0 THEN base ELSE Step(i, After[i - 1])]
  BY <1>5, <1>10, ZenonT(60)
<1>12. \A i \in 0..L : Behind_(After[i], h, p, i)
  <2>. DEFINE Off == {i \in 0..L : ~Behind_(After[i], h, p, i)}
  <2>1. SUFFICES ASSUME Off # {} PROVE FALSE
    OBVIOUS
  <2>2. PICK m \in Off : \A kk \in Off : m <= kk
    <3>1. Off \in SUBSET Nat
      BY <1>1
    <3>. HIDE DEF Off
    <3>. QED
      BY <2>1, <3>1, LeastOf
  <2>3. m \in 0..L /\ ~Behind_(After[m], h, p, m)
    BY <2>2
  <2>4. m # 0
    <3>1. 0 \in 0..L
      BY <1>1
    <3>2. After[0] = base
      BY <1>11, <3>1
    <3>. QED
      BY <1>6, <2>3, <3>2
  <2>5. m \in 1..L /\ m - 1 \in 0..L /\ ~(m <= m - 1)
    BY <1>1, <2>3, <2>4
  <2>6. Behind_(After[m - 1], h, p, m - 1)
    BY <2>2, <2>5
  <2>7. After[m] = Step(m, After[m - 1])
    BY <1>11, <2>3, <2>4, Zenon
  <2>. QED
    BY <1>7, <2>3, <2>5, <2>6, <2>7
<1>13. Behind_(After[L], h, p, L)
  <2>1. L \in 0..L
    BY <1>1
  <2>. QED
    BY <1>12, <2>1
<1>. QED
  BY <1>3, <1>4, <1>13 DEF h, p, L

LEMMA CellsShorter ==
    ASSUME NEW h \in Seq(Nat), NEW p, NEW q \in 0..Len(h), NEW c, CellsAt(c, h, p, file.layers),
           file.layers \in Nat
    PROVE  CellsAt(c, Passes!Begin(h, q), q, 0)
<1>1. \A t \in 1..q : t \in 1..Len(h) /\ Passes!Begin(Passes!Begin(h, q), t) = Passes!Begin(h, t)
  <2>1. \A t \in 1..q : t \in 0..q /\ t \in 1..Len(h)
    OBVIOUS
  <2>. QED
    BY <2>1, BeginBegin
<1>2. ASSUME NEW j \in DOMAIN c
      PROVE  RowsOf(c[j], Passes!Begin(h, q), UpTo(Passes!Begin(h, q), q, 0, j), j, Passes!VTensor(file))
  <2>1. j \in 1..file.layers /\ UpTo(h, p, file.layers, j) = Len(h) /\ UpTo(Passes!Begin(h, q), q, 0, j) = q
    BY <1>2 DEF CellsAt, UpTo
  <2>2. RowsOf(c[j], h, Len(h), j, Passes!VTensor(file))
    BY <1>2, <2>1 DEF CellsAt
  <2>. QED
    BY <1>1, <2>1, <2>2 DEF RowsOf
<1>. QED
  BY <1>2 DEF CellsAt

LEMMA StatesShorter ==
    ASSUME NEW h \in Seq(Nat), NEW p, NEW q \in 0..Len(h), NEW s, StatesAt(s, h, p, file.layers),
           file.layers \in Nat,
           q = Len(h) \/ \A j \in 1..file.layers : Passes!Kind(file, j) \notin {"linear", "conv"}
    PROVE  StatesAt(s, Passes!Begin(h, q), q, 0)
<1>1. CASE q = Len(h)
  <2>1. Len(h) \in 0..Len(h)
    OBVIOUS
  <2>2. Passes!Begin(h, q) = h
    BY <1>1, WholeHead, Zenon DEF Passes!Begin
  <2>3. \A j \in 1..file.layers : UpTo(h, p, file.layers, j) = Len(h) /\ UpTo(h, q, 0, j) = Len(h)
    BY <1>1 DEF UpTo
  <2>. QED
    BY <2>2, <2>3 DEF StatesAt
<1>2. CASE \A j \in 1..file.layers : Passes!Kind(file, j) \notin {"linear", "conv"}
  BY <1>2 DEF StatesAt, StateOf
<1>. QED
  BY <1>1, <1>2

\* A forward of ids of which n are kept.
LEMMA MemoryAfter ==
    ASSUME InMemory, NEW ids \in Seq(Nat), ids # << >>, Numbered(ids, taken),
           Len(history) + Len(ids) <= Places,
           NEW n \in 1..Len(ids), history' = history \o Passes!Begin(ids, n),
           n = Len(ids) \/ \A j \in 1..file.layers : Passes!Kind(file, j) \notin {"linear", "conv"},
           Passes!Fed(Passes!Pass(ids), ids), UNCHANGED <<file, layers>>, taken' \in Nat
    PROVE  InMemory' /\ Passes!Pass(ids).x[n] = history' /\ Len(history') = Len(history) + n
<1>. DEFINE h == history \o ids
            p == Len(history)
            r == Passes!Pass(ids)
            q == p + n
<1>1. Block_(h, p) /\ Behind_(r, h, p, file.layers)
  BY PassIs
<1>2. /\ history \in Seq(Nat) /\ file.layers \in Nat
      /\ Passes!DenseAssumption /\ GemmaAsRead /\ file \in Files /\ Passes!Accepted(file)
      /\ layers = [i \in 1..file.layers |-> Passes!LayerOf(file, i)]
  BY FileTypes DEF InMemory
<1>3. /\ h \in Seq(Nat) /\ Len(h) = p + Len(ids) /\ p \in 0..Len(h)
      /\ \A s \in 0..Len(ids) : history \o Passes!Begin(ids, s) = Passes!Begin(h, p + s)
  BY <1>2, LaidBehind, Zenon
<1>4. /\ n \in 0..Len(ids) /\ q \in 0..Len(h) /\ (n = Len(ids) => q = Len(h)) /\ p \in Nat
      /\ Len(h) - p = Len(ids)
  <2>1. p \in Nat /\ Len(ids) \in Nat /\ n \in 1..Len(ids)
    BY <1>2
  <2>2. Len(h) = p + Len(ids)
    BY <1>3
  <2>. HIDE DEF h, p
  <2>. QED
    BY <2>1, <2>2
<1>5. history' = Passes!Begin(h, q)
  BY <1>3, <1>4, ZenonT(60)
<1>6. history' \in Seq(Nat) /\ Len(history') = q
  BY <1>3, <1>4, <1>5, BeginIs, ZenonT(60)
<1>7. r.x = Named(h, p, Len(h) - p) /\ CellsAt(r.kv, h, p, file.layers) /\ StatesAt(r.rec, h, p, file.layers)
  BY <1>1 DEF Behind_
<1>8. r.x[n] = history'
  <2>1. \A s \in 1..Len(h) - p : Named(h, p, Len(h) - p)[s] = Passes!Begin(h, p + s)
    BY <1>3, NamedIs, ZenonT(60)
  <2>. QED
    BY <1>4, <1>5, <1>7, <2>1
<1>9. CellsAt(r.kv, history', q, 0)
  BY <1>2, <1>3, <1>4, <1>5, <1>7, CellsShorter, ZenonT(60)
<1>10. StatesAt(r.rec, history', q, 0)
  BY <1>2, <1>3, <1>4, <1>5, <1>7, StatesShorter, ZenonT(60)
<1>11. cells' = r.kv /\ rec' = r.rec /\ file' = file /\ layers' = layers
  BY DEF Passes!Fed
<1>. HIDE DEF r, h, q
<1>12. InMemory'
  <2>1. CellsAt(cells, history, Len(history), 0)'
    BY <1>6, <1>9, <1>11 DEF CellsAt, UpTo
  <2>2. StatesAt(rec, history, Len(history), 0)'
    <3>1. StatesAt(r.rec, history', Len(history'), 0)
      BY <1>6, <1>10
    <3>2. \A j \in 1..file.layers : StateOf(r.rec[j], j, history', UpTo(history', Len(history'), 0, j))
      BY <3>1 DEF StatesAt
    <3>3. ASSUME NEW j \in 1..file'.layers
          PROVE  StateOf(rec[j], j, history, UpTo(history, Len(history), 0, j))'
      BY <1>11, <3>2 DEF StateOf, UpTo, WindowOf
    <3>. QED
      BY <1>11, <3>1, <3>3 DEF StatesAt
  <2>. QED
    BY <1>2, <1>6, <1>11, <2>1, <2>2 DEF InMemory
<1>. QED
  BY <1>6, <1>8, <1>12 DEF r, q

\* Nothing is in memory: rows of no history and the states of state_reset.
LEMMA MemoryAnew ==
    ASSUME Passes!DenseAssumption, GemmaAsRead, NEW f \in Files, Passes!Accepted(f)
    PROVE  \A j \in 1..f.layers :
             /\ Passes!Zeroed(f)[j] = Passes!StartOf(f, j)
             /\ Passes!Kind(f, j) = "linear" => Passes!StartOf(f, j) = Passes!Begin(<< >>, 0)
             /\ Passes!Kind(f, j) = "conv" => WindowOf(Passes!StartOf(f, j), << >>, 0)
<1>1. << >> \in Seq(Nat) /\ ConvL \in Nat \ {0, 1}
  BY DEF Passes!DenseAssumption
<1>2. Passes!Begin(<< >>, 0) = << >>
  <2>1. 0 \in Int /\ 0 <= 0
    OBVIOUS
  <2>. QED
    BY <1>1, <2>1, BeforeStart, Zenon
<1>3. WindowOf([j \in 1..ConvL - 1 |-> << >>], << >>, 0)
  <2>. DEFINE w == [j \in 1..ConvL - 1 |-> << >>]
  <2>1. w \in Seq(Seq(Nat)) /\ Len(w) = ConvL - 1 /\ \A j \in 1..ConvL - 1 : w[j] = << >>
    <3>1. ConvL - 1 \in Nat
      BY <1>1
    <3>. QED
      BY <1>1, <3>1
  <2>. HIDE DEF w
  <2>2. ASSUME NEW j \in 1..ConvL - 1 PROVE Passes!Begin(<< >>, 0 - (ConvL - 1) + j) = << >>
    <3>. DEFINE m == 0 - (ConvL - 1) + j
    <3>1. m \in Int /\ m <= 0
      BY <1>1
    <3>. HIDE DEF m
    <3>2. Passes!Begin(<< >>, m) = << >>
      BY <1>1, <3>1, BeforeStart, Zenon
    <3>. QED
      BY <3>2 DEF m
  <2>. QED
    BY <2>1, <2>2 DEF WindowOf
<1>4. \A j \in 1..f.layers : Passes!Zeroed(f)[j] = Passes!StartOf(f, j)
  BY DEF Passes!Zeroed
<1>. QED
  BY <1>2, <1>3, <1>4, Zenon DEF Passes!StartOf

LEMMA MemoryReset ==
    ASSUME InMemory, Passes!Restart PROVE InMemory'
<1>1. /\ rec' = Passes!Zeroed(file) /\ history' = << >> /\ taken' = 0
      /\ UNCHANGED <<file, layers, cells>>
  BY DEF Passes!Restart, Passes!StartedAnew
<1>2. /\ Passes!DenseAssumption /\ GemmaAsRead /\ file \in Files /\ Passes!Accepted(file)
      /\ DOMAIN cells = {j \in 1..file.layers : Passes!Owner(file, j)}
      /\ \A j \in DOMAIN cells : DOMAIN cells[j] = 1..Places
  BY DEF InMemory, CellsAt
<1>3. \A j \in 1..file.layers : UpTo(<< >>, 0, 0, j) = 0
  BY DEF UpTo
<1>4. CellsAt(cells, << >>, 0, 0)
  BY <1>2, <1>3 DEF CellsAt, RowsOf
<1>5. StatesAt(Passes!Zeroed(file), << >>, 0, 0)
  <2>1. DOMAIN Passes!Zeroed(file) = 1..file.layers
    BY DEF Passes!Zeroed
  <2>. QED
    BY <1>2, <1>3, <2>1, MemoryAnew, Zenon DEF StatesAt, StateOf
<1>6. Len(<< >>) = 0 /\ << >> \in Seq(Nat) /\ 0 \in Nat
  OBVIOUS
<1>7. CellsAt(cells, history, Len(history), 0)'
  BY <1>1, <1>4, <1>6 DEF CellsAt, UpTo
<1>8. StatesAt(rec, history, Len(history), 0)'
  <2>1. \A j \in 1..file.layers : StateOf(rec'[j], j, << >>, UpTo(<< >>, 0, 0, j))
    BY <1>1, <1>5 DEF StatesAt
  <2>2. ASSUME NEW j \in 1..file'.layers
        PROVE  StateOf(rec[j], j, history, UpTo(history, Len(history), 0, j))'
    BY <1>1, <1>6, <2>1 DEF StateOf, UpTo, WindowOf
  <2>. QED
    BY <1>1, <1>5, <2>2 DEF StatesAt
<1>. QED
  BY <1>1, <1>2, <1>6, <1>7, <1>8 DEF InMemory

-----------------------------------------------------------------------------
(* The conversation of the forward pass.                                     *)

LogitsOf == [of |-> history, head |-> Passes!HeadUsed(file)]

\* A pair of the cache is a state of the conversation and the token behind it;
\* the last one may be longer by that token, and then nothing follows.
PairOf(pair, f, h, of, more_) ==
  /\ pair \in Seq(Nat) /\ Len(pair) > 0 /\ Len(pair) <= Len(h) + 1
  /\ Passes!Front(pair) = Passes!Begin(h, Len(pair) - 1)
  /\ Len(pair) <= Len(h) => pair = Passes!Begin(h, Len(pair))
  /\ Len(pair) > Len(h) =>
       of = Passes!None /\ more_ = << >> /\ f.client = "turn" /\ h # << >>

RingOf(ring, f, h, of, more_) ==
  /\ ring \in Seq(Seq(Nat)) /\ Len(ring) <= TtaN
  /\ \A n \in 1..Len(ring) : PairOf(ring[n], f, h, of, more_)

TtaOf(c, f, h, of) ==
  /\ c = [alloc |-> c.alloc, valid |-> c.valid, h |-> c.h, head |-> c.head, ring |-> c.ring]
  /\ c.head \in 0..TtaN - 1
  /\ ~Passes!Has(f, "tta") => c = Passes!FreshTta
  /\ c.valid => c.alloc
  /\ of # Passes!None /\ Passes!Has(f, "tta") => c.alloc
  /\ c.valid /\ of # Passes!None => c.h = h

DenseInv ==
  /\ InMemory
  /\ todo \in Seq(Nat) /\ Len(history) + Len(todo) <= Places
  /\ taken <= Len(history) /\ Numbered(todo, taken)
  /\ todo # << >> => logits = Passes!None
  /\ logits # Passes!None => logits = LogitsOf /\ history # << >>
  /\ TtaOf(tta, file, history, logits)
  /\ RingOf(tta.ring, file, history, logits, todo)

LEMMA DenseBounds ==
    ASSUME Passes!DenseAssumption
    PROVE  /\ Places \in Nat /\ Places > 0 /\ TtaN \in Nat /\ TtaN > 0 /\ Block \in Nat
           /\ Img \in Nat /\ Img > 0
           /\ \A t \in Letters : t \in Nat /\ t < Img
  BY DEF Passes!DenseAssumption

\* How many placeholders there are in a part of a block.
Marks(ids, s) == Cardinality({r \in 1..s : ids[r] >= Img})

LEMMA MarksOf ==
    ASSUME NEW ids \in Seq(Nat), NEW s \in 0..Len(ids)
    PROVE  /\ IsFiniteSet({r \in 1..s : ids[r] >= Img})
           /\ Marks(ids, s) \in Nat /\ Marks(ids, s) <= s
<1>1. IsFiniteSet(1..s) /\ Cardinality(1..s) = s
  BY FS_Interval
<1>2. {r \in 1..s : ids[r] >= Img} \in SUBSET (1..s)
  OBVIOUS
<1>. DEFINE S == {r \in 1..s : ids[r] >= Img}
<1>. HIDE DEF S
<1>3. IsFiniteSet(S) /\ Cardinality(S) <= Cardinality(1..s)
  BY <1>1, <1>2, FS_Subset DEF S
<1>4. Cardinality(S) \in Nat
  BY <1>3, FS_CardinalityType
<1>. QED
  BY <1>1, <1>3, <1>4 DEF S, Marks

LEMMA MarksAdd ==
    ASSUME NEW ids \in Seq(Nat), NEW b \in 0..Len(ids), NEW s \in 0..Len(ids) - b
    PROVE  Marks(ids, b + s) = Marks(ids, b) + Marks(SubSeq(ids, b + 1, Len(ids)), s)
<1>. DEFINE tail == SubSeq(ids, b + 1, Len(ids))
            A == {r \in 1..b : ids[r] >= Img}
            B == {r \in 1..s : tail[r] >= Img}
            C == {b + r : r \in B}
            D == {r \in 1..b + s : ids[r] >= Img}
            f == [r \in B |-> b + r]
<1>1. tail \in Seq(Nat) /\ Len(tail) = Len(ids) - b /\ \A i \in 1..Len(ids) - b : tail[i] = ids[b + i]
  BY TailOf
<1>2. b + s \in 0..Len(ids) /\ s \in 0..Len(tail) /\ Len(ids) \in Nat
  BY <1>1
<1>3. IsFiniteSet(A) /\ Marks(ids, b) = Cardinality(A)
  BY MarksOf, Zenon DEF Marks
<1>4. IsFiniteSet(B) /\ Marks(tail, s) = Cardinality(B)
  BY <1>1, <1>2, MarksOf, Zenon DEF Marks
<1>5. C = {r \in b + 1..b + s : ids[r] >= Img}
  <2>. HIDE DEF tail
  <2>1. ASSUME NEW r \in B PROVE b + r \in b + 1..b + s /\ ids[b + r] >= Img
    <3>1. b \in Nat /\ s \in Nat /\ b + s <= Len(ids) /\ Len(ids) \in Nat
      BY <1>2
    <3>2. r \in 1..s /\ tail[r] >= Img
      OBVIOUS
    <3>3. r \in Nat /\ r >= 1 /\ r <= s /\ r \in 1..Len(ids) - b
      BY <3>1, <3>2
    <3>4. tail[r] = ids[b + r]
      BY <1>1, <3>3
    <3>. QED
      BY <3>1, <3>2, <3>3, <3>4
  <2>2. ASSUME NEW r \in b + 1..b + s, ids[r] >= Img PROVE r \in C
    <3>1. r - b \in 1..s /\ r - b \in 1..Len(ids) - b /\ r = b + (r - b)
      BY <1>2
    <3>2. tail[r - b] = ids[r]
      BY <1>1, <3>1, Zenon
    <3>. QED
      BY <2>2, <3>1, <3>2
  <2>. QED
    BY <2>1, <2>2
<1>6. A \cap C = {} /\ A \cup C = D
  <2>. HIDE DEF C
  <2>1. \A r : r \in 1..b + s <=> r \in 1..b \/ r \in b + 1..b + s
    BY <1>2
  <2>2. \A r : r \in 1..b => r \notin b + 1..b + s
    BY <1>2
  <2>. QED
    BY <1>5, <2>1, <2>2
<1>7. f \in Bijection(B, C)
  <2>1. \A r \in B : r \in Int
    OBVIOUS
  <2>2. f \in [B -> C] /\ (\A r, q \in B : f[r] = f[q] => r = q) /\ \A y \in C : \E r \in B : f[r] = y
    <3>. HIDE DEF B
    <3>1. b \in Int
      OBVIOUS
    <3>2. \A r, q \in B : b + r = b + q => r = q
      BY <2>1, <3>1
    <3>3. f \in [B -> C] /\ \A r \in B : f[r] = b + r
      OBVIOUS
    <3>. HIDE DEF f
    <3>. QED
      BY <3>2, <3>3
  <2>. HIDE DEF f, B, C
  <2>. QED
    BY <2>2 DEF Bijection, Injection, Surjection, IsInjective
<1>. HIDE DEF A, B, C, D, f, tail
<1>8. ExistsBijection(B, C)
  BY <1>7, Zenon DEF ExistsBijection
<1>9. IsFiniteSet(C) /\ Cardinality(C) = Cardinality(B)
  BY <1>4, <1>8, FS_Bijection, Zenon
<1>10. Cardinality(A \cup C) = Cardinality(A) + Cardinality(C) - Cardinality(A \cap C)
  BY <1>3, <1>9, FS_Union, Zenon
<1>11. Cardinality({}) = 0
  BY FS_EmptySet
<1>12. Cardinality(A) \in Nat /\ Cardinality(B) \in Nat
  BY <1>3, <1>4, FS_CardinalityType
<1>13. Cardinality(D) = Cardinality(A) + Cardinality(B)
  <2>1. Cardinality(D) = Cardinality(A) + Cardinality(B) - 0
    BY <1>6, <1>9, <1>10, <1>11, Zenon
  <2>. QED
    BY <1>12, <2>1
<1>. QED
  BY <1>3, <1>4, <1>13, Zenon DEF Marks, D, tail

\* A prompt that is numbered, cut in two.
LEMMA NumberedCut ==
    ASSUME NEW ids \in Seq(Nat), NEW b \in 1..Len(ids), NEW u \in Nat, Img \in Nat, Numbered(ids, u)
    PROVE  /\ Numbered(Passes!Begin(ids, b), u)
           /\ Marks(Passes!Begin(ids, b), b) = Marks(ids, b)
           /\ Numbered(SubSeq(ids, b + 1, Len(ids)), u + Marks(ids, b))
<1>. DEFINE a == Passes!Begin(ids, b)
            tail == SubSeq(ids, b + 1, Len(ids))
<1>1. b \in 0..Len(ids) /\ Len(ids) \in Nat
  OBVIOUS
<1>2. a \in Seq(Nat) /\ Len(a) = b /\ \A i \in 1..b : a[i] = ids[i]
  BY <1>1, BeginIs, Zenon
<1>3. tail \in Seq(Nat) /\ Len(tail) = Len(ids) - b /\ \A i \in 1..Len(ids) - b : tail[i] = ids[b + i]
  BY <1>1, TailOf, Zenon
<1>. HIDE DEF a, tail
<1>4. \A s \in 0..b : {r \in 1..s : a[r] >= Img} = {r \in 1..s : ids[r] >= Img}
  BY <1>2
<1>5. Numbered(a, u)
  <2>1. ASSUME NEW s \in 1..Len(a), a[s] >= Img
        PROVE  a[s] = Img + u + Cardinality({r \in 1..s : a[r] >= Img})
    <3>1. s \in 0..b /\ s \in 1..Len(ids) /\ a[s] = ids[s]
      BY <1>1, <1>2
    <3>2. {r \in 1..s : a[r] >= Img} = {r \in 1..s : ids[r] >= Img}
      BY <1>4, <3>1
    <3>3. ids[s] = Img + u + Cardinality({r \in 1..s : ids[r] >= Img})
      BY <2>1, <3>1 DEF Numbered
    <3>. QED
      BY <3>1, <3>2, <3>3, Zenon
  <2>. QED
    BY <2>1 DEF Numbered
<1>6. Marks(a, b) = Marks(ids, b)
  <2>1. b \in 0..b
    BY <1>1
  <2>. QED
    BY <1>4, <2>1, Zenon DEF Marks
<1>7. Numbered(tail, u + Marks(ids, b))
  <2>1. ASSUME NEW s \in 1..Len(tail), tail[s] >= Img
        PROVE  tail[s] = Img + (u + Marks(ids, b)) + Marks(tail, s)
    <3>1. b + s \in 1..Len(ids) /\ s \in 1..Len(ids) - b /\ s \in 0..Len(ids) - b /\ s \in 0..Len(tail)
      BY <1>1, <1>3
    <3>2. ids[b + s] = Img + u + Marks(ids, b + s)
      BY <1>3, <2>1, <3>1, Zenon DEF Numbered, Marks
    <3>3. Marks(ids, b + s) = Marks(ids, b) + Marks(tail, s)
      BY <1>1, <3>1, MarksAdd DEF tail
    <3>4. Marks(ids, b) \in Nat /\ Marks(tail, s) \in Nat
      BY <1>1, <1>3, <3>1, MarksOf, Zenon
    <3>. QED
      BY <1>3, <3>1, <3>2, <3>3, <3>4
  <2>. QED
    BY <2>1 DEF Numbered, Marks
<1>. QED
  BY <1>5, <1>6, <1>7 DEF a, tail

LEMMA RingGrows ==
    ASSUME NEW h \in Seq(Nat), NEW g \in Seq(Nat), Len(h) \in 0..Len(g), Passes!Begin(g, Len(h)) = h,
           NEW f, NEW of, NEW td, of # Passes!None \/ td # << >>,
           NEW ring, RingOf(ring, f, h, of, td), NEW of2, NEW td2
    PROVE  RingOf(ring, f, g, of2, td2)
<1>1. ASSUME NEW n \in 1..Len(ring) PROVE PairOf(ring[n], f, g, of2, td2)
  <2>. DEFINE pair == ring[n]
              l == Len(pair)
  <2>1. PairOf(pair, f, h, of, td)
    BY DEF RingOf
  <2>2. pair \in Seq(Nat) /\ l > 0 /\ l <= Len(h)
    BY <2>1 DEF PairOf
  <2>3. l \in 0..Len(h) /\ l - 1 \in 0..Len(h) /\ l <= Len(g) /\ Len(g) \in Nat
    BY <2>2
  <2>4. \A m \in 0..Len(h) : Passes!Begin(g, m) = Passes!Begin(h, m)
    BY BeginBegin
  <2>5. Passes!Front(pair) = Passes!Begin(g, l - 1) /\ pair = Passes!Begin(g, l)
    BY <2>1, <2>2, <2>3, <2>4 DEF PairOf
  <2>. HIDE DEF pair, l
  <2>6. ~(l > Len(g)) /\ l <= Len(g) + 1
    BY <2>2, <2>3
  <2>. QED
    BY <2>2, <2>3, <2>5, <2>6 DEF PairOf, pair, l
<1>. QED
  BY <1>1 DEF RingOf

LEMMA RingPut ==
    ASSUME NEW f, NEW h, NEW of, NEW td, NEW ring, RingOf(ring, f, h, of, td),
           NEW pair, PairOf(pair, f, h, of, td), NEW kk \in 0..TtaN - 1, TtaN \in Nat
    PROVE  RingOf(IF Len(ring) < TtaN THEN Append(ring, pair) ELSE [ring EXCEPT ![kk + 1] = pair],
                  f, h, of, td)
<1>1. /\ ring \in Seq(Seq(Nat)) /\ Len(ring) <= TtaN /\ Len(ring) \in Nat
      /\ pair \in Seq(Nat)
      /\ \A n \in 1..Len(ring) : PairOf(ring[n], f, h, of, td)
  BY DEF RingOf, PairOf
<1>2. CASE Len(ring) < TtaN
  <2>. DEFINE new == Append(ring, pair)
  <2>1. /\ new \in Seq(Seq(Nat)) /\ Len(new) = Len(ring) + 1 /\ new[Len(ring) + 1] = pair
        /\ \A n \in 1..Len(ring) : new[n] = ring[n]
    <3>. HIDE DEF new
    <3>. QED
      BY <1>1, AppendProperties DEF new
  <2>. HIDE DEF new
  <2>2. ASSUME NEW n \in 1..Len(new) PROVE PairOf(new[n], f, h, of, td)
    <3>1. n = Len(ring) + 1 \/ n \in 1..Len(ring)
      BY <1>1, <2>1
    <3>. QED
      BY <1>1, <2>1, <3>1
  <2>. QED
    BY <1>1, <1>2, <2>1, <2>2 DEF RingOf, new
<1>3. CASE ~(Len(ring) < TtaN)
  <2>. DEFINE new == [ring EXCEPT ![kk + 1] = pair]
  <2>1. kk + 1 \in 1..Len(ring)
    BY <1>1, <1>3
  <2>2. /\ new \in Seq(Seq(Nat)) /\ Len(new) = Len(ring)
        /\ \A n \in 1..Len(ring) : new[n] = IF n = kk + 1 THEN pair ELSE ring[n]
    <3>. HIDE DEF new
    <3>. QED
      BY <1>1, <2>1, ExceptSeq DEF new
  <2>. HIDE DEF new
  <2>3. \A n \in 1..Len(new) : PairOf(new[n], f, h, of, td)
    BY <1>1, <2>2, Zenon
  <2>. QED
    BY <1>1, <1>3, <2>2, <2>3 DEF RingOf, new
<1>. QED
  BY <1>2, <1>3

\* tta_observe behind the state that predicts.
LEMMA ObservedIs ==
    ASSUME NEW t, NEW h, NEW of, TtaOf(tta, file, h, of), of # Passes!None, TtaN \in Nat, TtaN > 0,
           NEW f, NEW g, NEW of2, NEW td2, RingOf(tta.ring, f, g, of2, td2),
           PairOf(Append(h, t), f, g, of2, td2)
    PROVE  LET c == Passes!Observed(t)
           IN  /\ c = [alloc |-> c.alloc, valid |-> c.valid, h |-> c.h, head |-> c.head, ring |-> c.ring]
               /\ c.head \in 0..TtaN - 1 /\ c.alloc = tta.alloc /\ c.valid = tta.valid /\ c.h = tta.h
               /\ ~Passes!Has(file, "tta") => c = tta
               /\ RingOf(c.ring, f, g, of2, td2)
<1>. DEFINE c == Passes!Observed(t)
            pair == Append(h, t)
            a == tta.alloc
            v == tta.valid
            s == tta.h
            kk == tta.head
            ring == tta.ring
            new == IF Len(ring) < TtaN THEN Append(ring, pair) ELSE [ring EXCEPT ![kk + 1] = pair]
<1>1. /\ tta = [alloc |-> a, valid |-> v, h |-> s, head |-> kk, ring |-> ring]
      /\ kk \in 0..TtaN - 1 /\ (v => s = h)
  BY DEF TtaOf
<1>2. RingOf(new, f, g, of2, td2)
  <2>. HIDE DEF ring, kk, pair
  <2>. QED
    BY <1>1, RingPut, Zenon DEF ring, pair
<1>3. CASE Passes!Has(file, "tta") /\ a /\ v
  <2>1. c = [tta EXCEPT !.head = (@ + 1) % TtaN,
                        !.ring = IF Len(@) < TtaN THEN Append(@, Append(s, t))
                                 ELSE [@ EXCEPT ![kk + 1] = Append(s, t)]]
    BY <1>3 DEF Passes!Observed
  <2>2. c = [alloc |-> a, valid |-> v, h |-> s, head |-> (kk + 1) % TtaN, ring |-> new]
    <3>1. Append(s, t) = pair
      BY <1>1, <1>3
    <3>. QED
      BY <1>1, <2>1, <3>1, Zenon
  <2>3. (kk + 1) % TtaN \in 0..TtaN - 1
    BY <1>1
  <2>. QED
    BY <1>2, <1>3, <2>2, <2>3
<1>4. CASE ~(Passes!Has(file, "tta") /\ a /\ v)
  <2>1. c = tta
    BY <1>4 DEF Passes!Observed
  <2>. QED
    BY <1>1, <2>1
<1>. QED
  BY <1>3, <1>4

-----------------------------------------------------------------------------
(* The steps of Dense keep what its invariant says.                          *)

LEMMA PromptIs ==
    ASSUME Passes!DenseAssumption, NEW ids \in Passes!Prompts
    PROVE  ids \in Seq(Nat) /\ Numbered(ids, 0)
<1>1. Img \in Nat /\ Img > 0 /\ \A t \in Letters : t \in Nat /\ t < Img
  BY DenseBounds
<1>2. CASE ids \in Passes!Texts(3)
  <2>1. PICK kk \in 1..3 : ids \in [1..kk -> Letters]
    BY <1>2 DEF Passes!Texts
  <2>2. ids \in Seq(Nat) /\ Len(ids) = kk
    BY <1>1, <2>1
  <2>3. \A s \in 1..Len(ids) : ~(ids[s] >= Img)
    BY <1>1, <2>1, <2>2
  <2>. QED
    BY <2>2, <2>3 DEF Numbered
<1>3. CASE ids = <<Img + 1>>
  <2>1. ids \in Seq(Nat) /\ Len(ids) = 1 /\ ids[1] = Img + 1
    BY <1>1, <1>3
  <2>2. {r \in 1..1 : ids[r] >= Img} = {1}
    BY <1>1, <2>1
  <2>3. Cardinality({1}) = 1
    BY FS_Singleton, Zenon
  <2>4. \A s \in 1..Len(ids) : s = 1
    BY <2>1
  <2>5. Img + 1 = Img + 0 + 1
    BY <1>1
  <2>. QED
    BY <2>1, <2>2, <2>3, <2>4, <2>5, Zenon DEF Numbered
<1>4. CASE ids = <<Img + 1, 0, Img + 2>>
  <2>1. /\ ids \in Seq(Nat) /\ Len(ids) = 3
        /\ ids[1] = Img + 1 /\ ids[2] = 0 /\ ids[3] = Img + 2
    BY <1>1, <1>4
  <2>2. {r \in 1..1 : ids[r] >= Img} = {1} /\ {r \in 1..3 : ids[r] >= Img} = {1, 3}
    BY <1>1, <2>1
  <2>3. Cardinality({1}) = 1 /\ IsFiniteSet({1})
    BY FS_Singleton, Zenon
  <2>4. Cardinality({1} \cup {3}) = 1 + 1
    <3>1. 3 \notin {1}
      OBVIOUS
    <3>. QED
      BY <2>3, <3>1, FS_AddElement
  <2>5. {1} \cup {3} = {1, 3}
    OBVIOUS
  <2>6. Cardinality({1, 3}) = 2
    BY <2>4, <2>5
  <2>7. \A s \in 1..Len(ids) : s = 1 \/ s = 2 \/ s = 3
    BY <2>1
  <2>8. Img + 1 = Img + 0 + 1 /\ Img + 2 = Img + 0 + 2 /\ ~(0 >= Img)
    BY <1>1
  <2>. QED
    BY <2>1, <2>2, <2>3, <2>6, <2>7, <2>8, Zenon DEF Numbered
<1>. QED
  BY <1>2, <1>3, <1>4 DEF Passes!Prompts

LEMMA DenseInit ==
    ASSUME Passes!DenseAssumption, GemmaAsRead, Passes!Init
    PROVE  DenseInv
<1>1. /\ file \in Files /\ Passes!Accepted(file)
      /\ layers = [i \in 1..file.layers |-> Passes!LayerOf(file, i)]
      /\ cells = [i \in {j \in 1..file.layers : Passes!Owner(file, j)} |->
                    [t \in 1..Places |-> Passes!Hole]]
      /\ rec = Passes!Zeroed(file)
      /\ history = << >> /\ todo = << >> /\ taken = 0 /\ logits = Passes!None /\ tta = Passes!FreshTta
  BY DEF Passes!Init
<1>2. \A j \in 1..file.layers : UpTo(<< >>, 0, 0, j) = 0
  BY DEF UpTo
<1>3. CellsAt(cells, << >>, 0, 0)
  BY <1>1, <1>2 DEF CellsAt, RowsOf
<1>4. StatesAt(Passes!Zeroed(file), << >>, 0, 0)
  <2>1. DOMAIN Passes!Zeroed(file) = 1..file.layers
    BY DEF Passes!Zeroed
  <2>. QED
    BY <1>1, <1>2, <2>1, MemoryAnew, Zenon DEF StatesAt, StateOf
<1>5. Len(<< >>) = 0 /\ << >> \in Seq(Nat) /\ 0 \in Nat
  OBVIOUS
<1>6. InMemory
  BY <1>1, <1>3, <1>4, <1>5 DEF InMemory
<1>7. Numbered(<< >>, 0)
  BY DEF Numbered
<1>8. Places \in Nat /\ TtaN \in Nat /\ TtaN > 0
  BY DenseBounds
<1>9. TtaOf(tta, file, history, logits)
  BY <1>1, <1>8 DEF TtaOf, Passes!FreshTta
<1>10. RingOf(tta.ring, file, history, logits, todo)
  <2>1. tta.ring = << >> /\ << >> \in Seq(Seq(Nat)) /\ Len(<< >>) <= TtaN
    BY <1>1, <1>8 DEF Passes!FreshTta
  <2>. QED
    BY <2>1 DEF RingOf
<1>11. Len(history) + Len(todo) <= Places /\ taken <= Len(history)
  BY <1>1, <1>5, <1>8
<1>. QED
  BY <1>1, <1>5, <1>6, <1>7, <1>9, <1>10, <1>11 DEF DenseInv

\* What the invariant and the assumptions say of the types.
LEMMA DenseTypes ==
    ASSUME DenseInv
    PROVE  /\ Passes!DenseAssumption /\ file \in Files /\ file.layers \in Nat
           /\ history \in Seq(Nat) /\ todo \in Seq(Nat) /\ taken \in Nat
           /\ Len(history) \in Nat /\ Len(todo) \in Nat
           /\ Places \in Nat /\ TtaN \in Nat /\ TtaN > 0 /\ Block \in Nat /\ Img \in Nat
           /\ \A t \in Letters : t \in Nat /\ t < Img
<1>1. InMemory /\ todo \in Seq(Nat)
  BY DEF DenseInv
<1>2. /\ Passes!DenseAssumption /\ file \in Files /\ history \in Seq(Nat) /\ taken \in Nat
  BY <1>1 DEF InMemory
<1>. QED
  BY <1>1, <1>2, DenseBounds, FileTypes

\* With all pairs within the history it does not matter what comes next.
LEMMA RingWithin ==
    ASSUME NEW f, NEW h \in Seq(Nat), NEW of, NEW td, NEW ring, RingOf(ring, f, h, of, td),
           of # Passes!None \/ td # << >> \/ f.client # "turn" \/ h = << >>, NEW of2, NEW td2
    PROVE  RingOf(ring, f, h, of2, td2)
<1>1. ASSUME NEW n \in 1..Len(ring) PROVE PairOf(ring[n], f, h, of2, td2)
  <2>1. PairOf(ring[n], f, h, of, td)
    BY DEF RingOf
  <2>. QED
    BY <2>1 DEF PairOf
<1>. QED
  BY <1>1 DEF RingOf

LEMMA AskStep ==
    ASSUME DenseInv, NEW ids \in Passes!Prompts, Passes!Ask(ids)
    PROVE  DenseInv'
<1>1. /\ todo = << >> /\ ids # << >> /\ Len(history) + Len(ids) <= Places
      /\ (file.client = "turn" => history = << >>)
      /\ todo' = ids /\ taken' = 0 /\ logits' = Passes!None
      /\ UNCHANGED <<file, layers, cells, rec, history, tta>>
  BY DEF Passes!Ask
<1>2. ids \in Seq(Nat) /\ Numbered(ids, 0) /\ history \in Seq(Nat) /\ Len(history) \in Nat
  BY PromptIs, DenseTypes
<1>3. InMemory'
  BY <1>1 DEF DenseInv, InMemory, CellsAt, StatesAt, StateOf, UpTo, WindowOf
<1>4. TtaOf(tta, file, history, Passes!None)
  BY DEF DenseInv, TtaOf
<1>5. RingOf(tta.ring, file, history, Passes!None, ids)
  BY <1>1, <1>2, RingWithin DEF DenseInv
<1>6. Numbered(todo, taken)'
  BY <1>1, <1>2, Zenon DEF Numbered
<1>7. TtaOf(tta, file, history, logits)' /\ RingOf(tta.ring, file, history, logits, todo)'
  BY <1>1, <1>4, <1>5 DEF TtaOf, RingOf, PairOf
<1>. QED
  BY <1>1, <1>2, <1>3, <1>6, <1>7 DEF DenseInv

\* The logits behind a forward are some.
LEMMA SomeLogits ==
    ASSUME NEW h \in Seq(Nat), h # << >>, NEW w
    PROVE  [of |-> h, head |-> w] # Passes!None
<1>1. Passes!None.of = << >> /\ [of |-> h, head |-> w].of = h
  BY DEF Passes!None
<1>. QED
  BY <1>1

LEMMA DensePrefillStep ==
    ASSUME DenseInv, Passes!Prefill
    PROVE  DenseInv'
<1>. DEFINE b == Passes!BlockLen
            ids == Passes!Begin(todo, b)
            tail == SubSeq(todo, b + 1, Len(todo))
            r == Passes!Pass(ids)
            h == history
            g == history'
            u == taken
            new == [of |-> r.x[Len(ids)], head |-> Passes!HeadUsed(file)]
<1>1. /\ todo # << >> /\ Passes!Fed(r, ids) /\ g = h \o ids /\ todo' = tail
      /\ UNCHANGED <<file, layers>>
      /\ IF todo' = << >> THEN logits' = new /\ tta' = Passes!Stashed(r.x[Len(ids)])
         ELSE UNCHANGED <<logits, tta>>
  BY DEF Passes!Prefill
<1>2. /\ Passes!DenseAssumption /\ file \in Files /\ file.layers \in Nat
      /\ h \in Seq(Nat) /\ todo \in Seq(Nat) /\ u \in Nat /\ Len(h) \in Nat /\ Len(todo) \in Nat
      /\ Places \in Nat /\ TtaN \in Nat /\ Block \in Nat /\ Img \in Nat
  BY DenseTypes
<1>3. /\ InMemory /\ Len(h) + Len(todo) <= Places /\ u <= Len(h) /\ Numbered(todo, u)
      /\ logits = Passes!None
      /\ TtaOf(tta, file, h, logits) /\ RingOf(tta.ring, file, h, logits, todo)
  BY <1>1 DEF DenseInv
<1>4. b \in 1..Len(todo) /\ b \in 0..Len(todo)
  <2>1. Len(todo) # 0
    BY <1>1, <1>2, EmptySeq
  <2>. QED
    BY <1>2, <2>1 DEF Passes!BlockLen
<1>. HIDE DEF b
<1>5. ids \in Seq(Nat) /\ Len(ids) = b
  BY <1>2, <1>4, BeginIs
<1>6. tail \in Seq(Nat) /\ Len(tail) = Len(todo) - b
  BY <1>2, <1>4, TailOf
<1>7. /\ Numbered(ids, u) /\ Marks(ids, b) = Marks(todo, b)
      /\ Numbered(tail, u + Marks(todo, b))
  BY <1>2, <1>3, <1>4, NumberedCut
<1>8. Marks(todo, b) \in Nat /\ Marks(todo, b) <= b
  BY <1>2, <1>4, MarksOf, Zenon
<1>. HIDE DEF ids, tail, r
<1>9. taken' = u + Marks(todo, b)
  <2>1. taken' = u + Passes!Cardinality({s \in 1..Len(ids) : ids[s] >= Img})
    BY <1>1 DEF Passes!Fed
  <2>2. Passes!Cardinality({s \in 1..Len(ids) : ids[s] >= Img}) = Marks(ids, b)
    BY <1>5 DEF Passes!Cardinality, Cardinality, Marks
  <2>. QED
    BY <1>7, <2>1, <2>2
<1>10. ids # << >>
  BY <1>4, <1>5
<1>11. Passes!Begin(ids, b) = ids
  BY <1>5, WholeHead, Zenon DEF Passes!Begin
<1>12. InMemory' /\ r.x[b] = g /\ Len(g) = Len(h) + b
  <2>1. Len(h) + Len(ids) <= Places /\ b \in 1..Len(ids) /\ taken' \in Nat
    BY <1>2, <1>3, <1>4, <1>5, <1>8, <1>9
  <2>2. g = h \o Passes!Begin(ids, b) /\ Passes!Fed(Passes!Pass(ids), ids)
    BY <1>1, <1>11 DEF r
  <2>. QED
    BY <1>1, <1>3, <1>5, <1>7, <1>10, <2>1, <2>2, MemoryAfter, Zenon DEF r
<1>13. g \in Seq(Nat) /\ Len(h) \in 0..Len(g) /\ Passes!Begin(g, Len(h)) = h /\ Len(g) \in Nat /\ g # << >>
  <2>1. /\ h \o ids \in Seq(Nat) /\ Len(h) \in 0..Len(h \o ids)
        /\ Passes!Begin(h \o ids, Len(h)) = h
    BY <1>2, <1>5, LaidBehind
  <2>2. Len(g) \in Nat /\ Len(g) > 0
    BY <1>2, <1>4, <1>12
  <2>3. g \in Seq(Nat)
    BY <1>1, <2>1
  <2>. QED
    BY <1>1, <2>1, <2>2, <2>3, EmptySeq
<1>. HIDE DEF g, h, u
<1>14. /\ Len(g) + Len(tail) <= Places /\ taken' <= Len(g) /\ taken' \in Nat
  BY <1>2, <1>3, <1>4, <1>6, <1>8, <1>9, <1>12
<1>18. Numbered(todo', taken')
  BY <1>1, <1>7, <1>9
<1>19. Numbered(todo, taken)' /\ todo' \in Seq(Nat) /\ Len(todo') = Len(tail)
  BY <1>1, <1>6, <1>18 DEF Numbered
<1>15. RingOf(tta.ring, file, g, logits', todo')
  BY <1>1, <1>2, <1>3, <1>13, RingGrows, Zenon
<1>16. CASE todo' = << >>
  <2>1. logits' = [of |-> g, head |-> Passes!HeadUsed(file)] /\ tta' = Passes!Stashed(g)
    BY <1>1, <1>5, <1>12, <1>16
  <2>2. logits' # Passes!None
    BY <1>13, <2>1, SomeLogits
  <2>3. TtaOf(tta', file, g, logits') /\ tta'.ring = tta.ring
    <3>. DEFINE a == tta.alloc
                v == tta.valid
                s == tta.h
                kk == tta.head
                ring == tta.ring
    <3>1. /\ tta = [alloc |-> a, valid |-> v, h |-> s, head |-> kk, ring |-> ring]
          /\ kk \in 0..TtaN - 1 /\ (v => a)
          /\ (~Passes!Has(file, "tta") => tta = Passes!FreshTta)
      BY <1>3 DEF TtaOf
    <3>2. CASE Passes!Has(file, "tta")
      <4>1. tta' = [tta EXCEPT !.alloc = TRUE, !.valid = @ \/ a, !.h = IF a THEN g ELSE @]
        BY <2>1, <3>2 DEF Passes!Stashed
      <4>2. tta' = [alloc |-> TRUE, valid |-> v \/ a, h |-> IF a THEN g ELSE s, head |-> kk, ring |-> ring]
        BY <3>1, <4>1, ZenonT(60)
      <4>. QED
        BY <3>1, <3>2, <4>2, Zenon DEF TtaOf
    <3>3. CASE ~Passes!Has(file, "tta")
      <4>1. tta' = tta /\ tta = Passes!FreshTta
        BY <2>1, <3>1, <3>3 DEF Passes!Stashed
      <4>2. tta.valid = FALSE
        BY <4>1 DEF Passes!FreshTta
      <4>. QED
        BY <3>1, <3>3, <4>1, <4>2 DEF TtaOf
    <3>. QED
      BY <3>2, <3>3
  <2>4. logits' = LogitsOf'
    BY <1>1, <2>1 DEF LogitsOf, Passes!HeadUsed, Passes!Has, g
  <2>5. TtaOf(tta, file, history, logits)' /\ RingOf(tta.ring, file, history, logits, todo)'
    BY <1>1, <1>15, <2>3 DEF TtaOf, RingOf, PairOf, g, Passes!Has
  <2>. QED
    BY <1>12, <1>14, <1>16, <1>19, <2>4, <2>5, <1>13 DEF DenseInv, g
<1>17. CASE todo' # << >>
  <2>1. logits' = Passes!None /\ tta' = tta
    BY <1>1, <1>3, <1>17
  <2>2. TtaOf(tta', file, g, logits')
    BY <1>3, <2>1 DEF TtaOf
  <2>5. TtaOf(tta, file, history, logits)' /\ RingOf(tta.ring, file, history, logits, todo)'
    BY <1>1, <1>15, <2>1, <2>2 DEF TtaOf, RingOf, PairOf, g, Passes!Has
  <2>6. Len(history') + Len(todo') <= Places /\ taken' <= Len(history')
    BY <1>14, <1>19 DEF g
  <2>7. /\ todo' # << >> => logits' = Passes!None
        /\ logits' # Passes!None => logits' = LogitsOf' /\ history' # << >>
    BY <2>1
  <2>. QED
    BY <1>12, <1>19, <2>5, <2>6, <2>7 DEF DenseInv
<1>. QED
  BY <1>16, <1>17

LEMMA DenseRestartStep ==
    ASSUME DenseInv, Passes!Restart
    PROVE  DenseInv'
<1>1. /\ history' = << >> /\ todo' = << >> /\ taken' = 0 /\ logits' = Passes!None
      /\ tta' = Passes!ResetTta /\ file' = file
  BY DEF Passes!Restart
<1>2. InMemory'
  BY MemoryReset DEF DenseInv
<1>3. << >> \in Seq(Nat) /\ Len(<< >>) = 0 /\ << >> \in Seq(Seq(Nat)) /\ Numbered(<< >>, 0)
  BY DEF Numbered
<1>4. Places \in Nat /\ TtaN \in Nat /\ TtaN > 0
  BY DenseTypes
<1>5. TtaOf(tta', file, << >>, Passes!None) /\ tta'.ring = << >>
  <2>. DEFINE a == tta.alloc
              s == tta.h
              v == tta.valid
              kk == tta.head
              ring == tta.ring
  <2>1. /\ tta = [alloc |-> a, valid |-> v, h |-> s, head |-> kk, ring |-> ring]
        /\ (~Passes!Has(file, "tta") => tta = Passes!FreshTta)
    BY DEF DenseInv, TtaOf
  <2>2. tta' = [alloc |-> a, valid |-> FALSE, h |-> s, head |-> 0, ring |-> << >>]
    BY <1>1, <2>1, Zenon DEF Passes!ResetTta
  <2>3. ASSUME ~Passes!Has(file, "tta") PROVE tta' = Passes!FreshTta
    <3>1. tta = Passes!FreshTta
      BY <2>1, <2>3
    <3>2. a = FALSE /\ s = << >>
      BY <3>1 DEF Passes!FreshTta
    <3>. HIDE DEF a, s
    <3>. QED
      BY <2>2, <3>2, Zenon DEF Passes!FreshTta
  <2>. QED
    BY <1>4, <2>2, <2>3 DEF TtaOf
<1>6. RingOf(<< >>, file, << >>, Passes!None, << >>)
  BY <1>3, <1>4 DEF RingOf
<1>7. TtaOf(tta, file, history, logits)' /\ RingOf(tta.ring, file, history, logits, todo)'
  BY <1>1, <1>5, <1>6 DEF TtaOf, RingOf, PairOf, Passes!Has
<1>. QED
  BY <1>1, <1>2, <1>3, <1>4, <1>7 DEF DenseInv

\* One token behind the conversation.
LEMMA FedOne ==
    ASSUME DenseInv, NEW t \in Letters, Len(history) < Places, Passes!Fed(Passes!Pass(<<t>>), <<t>>),
           history' = Append(history, t), UNCHANGED <<file, layers>>
    PROVE  /\ InMemory' /\ Passes!Pass(<<t>>).x[1] = history' /\ taken' = taken
           /\ history' \in Seq(Nat) /\ history' # << >> /\ Len(history') = Len(history) + 1
           /\ Len(history) \in 0..Len(history') /\ Passes!Begin(history', Len(history)) = history
<1>. DEFINE ids == <<t>>
            h == history
            u == taken
<1>1. /\ h \in Seq(Nat) /\ u \in Nat /\ Len(h) \in Nat /\ Places \in Nat /\ Img \in Nat
      /\ t \in Nat /\ t < Img
  BY DenseTypes
<1>2. ids \in Seq(Nat) /\ Len(ids) = 1 /\ ids[1] = t /\ ids # << >>
  BY <1>1
<1>3. {r \in 1..1 : ids[r] >= Img} = {}
  BY <1>1, <1>2
<1>. HIDE DEF ids
<1>4. taken' = u
  <2>1. taken' = u + Passes!Cardinality({s \in 1..Len(ids) : ids[s] >= Img})
    BY DEF Passes!Fed, ids
  <2>2. Passes!Cardinality({s \in 1..Len(ids) : ids[s] >= Img}) = Cardinality({})
    BY <1>2, <1>3, Zenon DEF Passes!Cardinality, Cardinality
  <2>3. Cardinality({}) = 0
    BY FS_EmptySet
  <2>. QED
    BY <1>1, <2>1, <2>2, <2>3
<1>5. Numbered(ids, u)
  <2>1. \A s \in 1..Len(ids) : ~(ids[s] >= Img)
    BY <1>1, <1>2
  <2>. QED
    BY <2>1 DEF Numbered
<1>6. Passes!Begin(ids, 1) = ids
  BY <1>2, WholeHead, Zenon DEF Passes!Begin
<1>7. history' = h \o ids
  <2>1. Append(h, t) = h \o <<t>>
    BY <1>1
  <2>. QED
    BY <2>1 DEF ids
<1>8. InMemory' /\ Passes!Pass(ids).x[1] = history' /\ Len(history') = Len(h) + 1
  <2>1. InMemory /\ Len(h) + Len(ids) <= Places /\ 1 \in 1..Len(ids) /\ 1 = Len(ids) /\ taken' \in Nat
    BY <1>1, <1>2, <1>4 DEF DenseInv
  <2>2. history' = h \o Passes!Begin(ids, 1) /\ Passes!Fed(Passes!Pass(ids), ids)
    BY <1>6, <1>7, Zenon DEF ids
  <2>. QED
    BY <1>2, <1>5, <2>1, <2>2, MemoryAfter, Zenon
<1>9. h \o ids \in Seq(Nat) /\ Len(h) \in 0..Len(h \o ids) /\ Passes!Begin(h \o ids, Len(h)) = h
  BY <1>1, <1>2, LaidBehind
<1>10. Len(history') > 0
  BY <1>1, <1>8
<1>. QED
  BY <1>4, <1>7, <1>8, <1>9, <1>10, EmptySeq, SMTT(60) DEF ids

LEMMA PairPut ==
    ASSUME NEW h \in Seq(Nat), NEW t \in Nat, NEW f, NEW of, NEW td
    PROVE  /\ PairOf(Append(h, t), f, Append(h, t), of, td)
           /\ h # << >> /\ f.client = "turn" => PairOf(Append(h, t), f, h, Passes!None, << >>)
<1>. DEFINE g == Append(h, t)
<1>1. /\ g \in Seq(Nat) /\ Len(g) = Len(h) + 1 /\ Len(h) \in Nat
      /\ \A i \in 1..Len(h) : g[i] = h[i]
  <2>. HIDE DEF g
  <2>. QED
    BY AppendProperties DEF g
<1>. HIDE DEF g
<1>2. Passes!Begin(g, Len(h)) = h
  <2>. DEFINE a == Passes!Begin(g, Len(h))
  <2>1. a \in Seq(Nat) /\ Len(a) = Len(h) /\ \A i \in 1..Len(h) : a[i] = g[i]
    <3>1. Len(h) \in 0..Len(g)
      BY <1>1
    <3>. QED
      BY <1>1, <3>1, BeginIs, Zenon
  <2>. HIDE DEF a
  <2>2. a = h
    BY <1>1, <2>1, SeqEqual
  <2>. QED
    BY <2>2 DEF a
<1>3. Passes!Begin(h, Len(h)) = h /\ Passes!Begin(g, Len(g)) = g
  BY <1>1, WholeHead, Zenon DEF Passes!Begin
<1>4. Passes!Front(g) = h
  <2>1. Len(g) - 1 = Len(h)
    BY <1>1
  <2>. QED
    BY <1>2, <2>1 DEF Passes!Front, Passes!Begin
<1>5. Len(g) > 0 /\ Len(g) - 1 = Len(h) /\ Len(g) <= Len(g) + 1 /\ Len(g) <= Len(h) + 1
      /\ ~(Len(g) > Len(g)) /\ ~(Len(g) <= Len(h))
  BY <1>1
<1>6. PairOf(g, f, g, of, td)
  BY <1>1, <1>2, <1>3, <1>4, <1>5 DEF PairOf
<1>7. h # << >> /\ f.client = "turn" => PairOf(g, f, h, Passes!None, << >>)
  BY <1>1, <1>3, <1>4, <1>5 DEF PairOf
<1>. QED
  BY <1>6, <1>7 DEF g

LEMMA DenseDecodeStep ==
    ASSUME DenseInv, NEW t \in Letters, Passes!Decode(t)
    PROVE  DenseInv'
<1>. DEFINE h == history
            g == history'
            c == Passes!Observed(t)
<1>1. /\ logits # Passes!None /\ Len(h) < Places
      /\ Passes!Fed(Passes!Pass(<<t>>), <<t>>) /\ g = Append(h, t)
      /\ logits' = [of |-> Passes!Pass(<<t>>).x[1], head |-> Passes!HeadUsed(file)]
      /\ tta' = IF Passes!Has(file, "tta")
                THEN [c EXCEPT !.h = Passes!Pass(<<t>>).x[1], !.valid = TRUE] ELSE c
      /\ UNCHANGED <<file, layers, todo>>
  BY DEF Passes!Decode
<1>2. /\ InMemory' /\ Passes!Pass(<<t>>).x[1] = g /\ taken' = taken
      /\ g \in Seq(Nat) /\ g # << >> /\ Len(g) = Len(h) + 1
      /\ Len(h) \in 0..Len(g) /\ Passes!Begin(g, Len(h)) = h
  BY <1>1, FedOne, Zenon
<1>3. /\ h \in Seq(Nat) /\ Len(h) \in Nat /\ Places \in Nat /\ t \in Nat /\ taken \in Nat
      /\ TtaN \in Nat /\ TtaN > 0 /\ todo \in Seq(Nat)
  BY DenseTypes
<1>4. /\ todo = << >> /\ TtaOf(tta, file, h, logits) /\ RingOf(tta.ring, file, h, logits, todo)
      /\ taken <= Len(h) /\ Numbered(todo, taken)
  BY <1>1 DEF DenseInv
<1>5. logits' = [of |-> g, head |-> Passes!HeadUsed(file)] /\ logits' # Passes!None
  BY <1>1, <1>2, SomeLogits, Zenon
<1>6. logits' = LogitsOf'
  BY <1>1, <1>5, Zenon DEF LogitsOf, Passes!HeadUsed, Passes!Has
<1>. HIDE DEF h, g
<1>7. RingOf(tta.ring, file, g, logits', todo')
  BY <1>1, <1>2, <1>3, <1>4, RingGrows, Zenon
<1>8. PairOf(Append(h, t), file, g, logits', todo')
  BY <1>1, <1>3, PairPut
<1>9. /\ c = [alloc |-> c.alloc, valid |-> c.valid, h |-> c.h, head |-> c.head, ring |-> c.ring]
      /\ c.head \in 0..TtaN - 1 /\ c.alloc = tta.alloc /\ c.valid = tta.valid /\ c.h = tta.h
      /\ (~Passes!Has(file, "tta") => c = tta)
      /\ RingOf(c.ring, file, g, logits', todo')
  BY <1>1, <1>3, <1>4, <1>7, <1>8, ObservedIs
<1>. HIDE DEF c
<1>10. TtaOf(tta', file, g, logits') /\ tta'.ring = c.ring
  <2>1. CASE Passes!Has(file, "tta")
    <3>. DEFINE a == c.alloc
                k1 == c.head
                s == c.h
                v == c.valid
                ring == c.ring
    <3>1. tta' = [c EXCEPT !.h = g, !.valid = TRUE]
      BY <1>1, <1>2, <2>1, Zenon
    <3>2. c = [alloc |-> a, valid |-> v, h |-> s, head |-> k1, ring |-> ring] /\ k1 \in 0..TtaN - 1
      BY <1>9
    <3>3. tta' = [alloc |-> a, valid |-> TRUE, h |-> g, head |-> k1, ring |-> ring]
      BY <3>1, <3>2, ZenonT(60)
    <3>4. a
      BY <1>1, <1>4, <1>9, <2>1 DEF TtaOf
    <3>. QED
      BY <2>1, <3>2, <3>3, <3>4 DEF TtaOf
  <2>2. CASE ~Passes!Has(file, "tta")
    <3>1. tta' = tta /\ c = tta /\ tta = Passes!FreshTta
      BY <1>1, <1>4, <1>9, <2>2 DEF TtaOf
    <3>2. tta.valid = FALSE
      BY <3>1 DEF Passes!FreshTta
    <3>3. tta' = [alloc |-> tta'.alloc, valid |-> tta'.valid, h |-> tta'.h, head |-> tta'.head, ring |-> tta'.ring]
      BY <1>9, <3>1
    <3>. QED
      BY <1>9, <2>2, <3>1, <3>2, <3>3 DEF TtaOf
  <2>. QED
    BY <2>1, <2>2
<1>11. TtaOf(tta, file, history, logits)' /\ RingOf(tta.ring, file, history, logits, todo)'
  BY <1>1, <1>9, <1>10, ZenonT(60) DEF TtaOf, RingOf, PairOf, g, Passes!Has
<1>12. Numbered(todo, taken)' /\ todo' = << >> /\ Len(todo') = 0 /\ todo' \in Seq(Nat)
  BY <1>1, <1>2, <1>3, <1>4 DEF Numbered
<1>13. Len(history') + Len(todo') <= Places /\ taken' <= Len(history')
  BY <1>1, <1>2, <1>3, <1>4, <1>12 DEF g
<1>. QED
  BY <1>2, <1>5, <1>6, <1>11, <1>12, <1>13 DEF DenseInv, g

LEMMA DenseLastStep ==
    ASSUME DenseInv, NEW t \in Letters, Passes!LastPick(t)
    PROVE  DenseInv'
<1>. DEFINE h == history
            c == Passes!Observed(t)
            none == Passes!None
<1>1. /\ logits # none /\ file.client = "turn" /\ logits' = none /\ tta' = c
      /\ UNCHANGED <<file, layers, cells, rec, history, todo, taken>>
  BY DEF Passes!LastPick
<1>3. /\ h \in Seq(Nat) /\ Len(h) \in Nat /\ t \in Nat /\ TtaN \in Nat /\ TtaN > 0
  BY DenseTypes
<1>4. /\ todo = << >> /\ TtaOf(tta, file, h, logits) /\ RingOf(tta.ring, file, h, logits, todo)
      /\ h # << >>
  BY <1>1 DEF DenseInv
<1>5. RingOf(tta.ring, file, h, none, << >>)
  BY <1>1, <1>3, <1>4, RingWithin
<1>6. PairOf(Append(h, t), file, h, none, << >>)
  BY <1>1, <1>3, <1>4, PairPut, Zenon
<1>. HIDE DEF h
<1>9. /\ c = [alloc |-> c.alloc, valid |-> c.valid, h |-> c.h, head |-> c.head, ring |-> c.ring]
      /\ c.head \in 0..TtaN - 1 /\ c.alloc = tta.alloc /\ c.valid = tta.valid /\ c.h = tta.h
      /\ (~Passes!Has(file, "tta") => c = tta)
      /\ RingOf(c.ring, file, h, none, << >>)
  BY <1>1, <1>3, <1>4, <1>5, <1>6, ObservedIs
<1>. HIDE DEF c
<1>10. TtaOf(tta', file, h, none)
  BY <1>1, <1>4, <1>9 DEF TtaOf
<1>11. TtaOf(tta, file, history, logits)' /\ RingOf(tta.ring, file, history, logits, todo)'
  BY <1>1, <1>4, <1>9, <1>10 DEF TtaOf, RingOf, PairOf, h, Passes!Has
<1>12. InMemory'
  BY <1>1, Zenon DEF DenseInv, InMemory, CellsAt, StatesAt, StateOf, UpTo, WindowOf
<1>. QED
  BY <1>1, <1>11, <1>12 DEF DenseInv, Numbered

LEMMA DenseVerifyStep ==
    ASSUME DenseInv, NEW ids \in [1..2 -> Letters], NEW n \in 1..2, Passes!Verify(ids, n)
    PROVE  DenseInv'
<1>. DEFINE h == history
            g == history'
            r == Passes!Pass(ids)
<1>1. /\ logits # Passes!None /\ Passes!VerifyOk /\ Len(h) + Len(ids) <= Places
      /\ Passes!Fed(r, ids) /\ g = h \o Passes!Begin(ids, n)
      /\ logits' = [of |-> r.x[n], head |-> Passes!FullHead]
      /\ UNCHANGED <<file, layers, todo, tta>>
  BY DEF Passes!Verify
<1>2. /\ h \in Seq(Nat) /\ Len(h) \in Nat /\ Places \in Nat /\ taken \in Nat /\ Img \in Nat
      /\ TtaN \in Nat /\ TtaN > 0 /\ todo \in Seq(Nat) /\ Passes!DenseAssumption /\ file \in Files
      /\ \A t \in Letters : t \in Nat /\ t < Img
  BY DenseTypes
<1>3. /\ todo = << >> /\ TtaOf(tta, file, h, logits) /\ RingOf(tta.ring, file, h, logits, todo)
      /\ taken <= Len(h) /\ Numbered(todo, taken) /\ InMemory
  BY <1>1 DEF DenseInv
<1>4. /\ ids \in Seq(Nat) /\ Len(ids) = 2 /\ n \in 1..Len(ids) /\ ids # << >> /\ n \in 0..Len(ids)
      /\ n \in Nat /\ n > 0 /\ n <= 2 /\ \A s \in 1..Len(ids) : ~(ids[s] >= Img)
  <2>. DEFINE m == 2
  <2>1. ids \in [1..m -> Nat] /\ m \in Nat /\ m > 0
    BY <1>2
  <2>. HIDE DEF m
  <2>6. ids \in Seq(Nat) /\ Len(ids) = m
    BY <2>1
  <2>2. ids \in Seq(Nat) /\ Len(ids) = 2
    BY <2>6 DEF m
  <2>3. ids # << >>
    BY <2>1, <2>6
  <2>4. \A s \in 1..Len(ids) : ids[s] \in Letters
    BY <2>2
  <2>5. \A s \in 1..Len(ids) : ~(ids[s] >= Img)
    BY <1>2, <2>4
  <2>. QED
    BY <2>2, <2>3, <2>5
<1>5. Numbered(ids, taken)
  BY <1>4 DEF Numbered
<1>6. taken' = taken
  <2>1. taken' = taken + Passes!Cardinality({s \in 1..Len(ids) : ids[s] >= Img})
    BY <1>1 DEF Passes!Fed
  <2>2. {s \in 1..Len(ids) : ids[s] >= Img} = {}
    BY <1>4
  <2>3. Passes!Cardinality({s \in 1..Len(ids) : ids[s] >= Img}) = Cardinality({})
    BY <2>2, Zenon DEF Passes!Cardinality, Cardinality
  <2>4. Cardinality({}) = 0
    BY FS_EmptySet
  <2>. QED
    BY <1>2, <2>1, <2>3, <2>4
<1>7. /\ file.engine = "qwen" /\ {"shortlist", "lm_lora", "tta"} \cap file.with = {}
      /\ \A j \in 1..file.layers : Passes!Kind(file, j) # "linear"
  BY <1>1 DEF Passes!VerifyOk
<1>8. \A j \in 1..file.layers : Passes!Kind(file, j) \notin {"linear", "conv"}
  <2>1. ASSUME NEW j \in 1..file.layers PROVE Passes!Kind(file, j) \in {"linear", "full"}
    BY <1>2, <1>7, KindIs
  <2>. QED
    BY <1>7, <2>1
<1>. HIDE DEF r
<1>9. InMemory' /\ r.x[n] = g /\ Len(g) = Len(h) + n
  <2>1. taken' \in Nat
    BY <1>2, <1>6
  <2>2. Passes!Fed(Passes!Pass(ids), ids)
    BY <1>1 DEF r
  <2>. QED
    BY <1>1, <1>3, <1>4, <1>5, <1>8, <2>1, <2>2, MemoryAfter, Zenon DEF r
<1>10. g \in Seq(Nat) /\ Len(h) \in 0..Len(g) /\ Passes!Begin(g, Len(h)) = h /\ g # << >>
  <2>. DEFINE b == Passes!Begin(ids, n)
  <2>1. b \in Seq(Nat)
    BY <1>4, BeginIs, Zenon
  <2>. HIDE DEF b
  <2>2. h \o b \in Seq(Nat) /\ Len(h) \in 0..Len(h \o b) /\ Passes!Begin(h \o b, Len(h)) = h
    BY <1>2, <2>1, LaidBehind
  <2>3. g = h \o b
    BY <1>1 DEF b
  <2>4. Len(g) > 0
    BY <1>2, <1>4, <1>9
  <2>5. g \in Seq(Nat)
    BY <2>2, <2>3
  <2>. QED
    BY <2>2, <2>3, <2>4, <2>5, EmptySeq
<1>. HIDE DEF h, g
<1>11. Passes!HeadUsed(file) = Passes!FullHead /\ ~Passes!Has(file, "tta")
  BY <1>7 DEF Passes!HeadUsed, Passes!FullHead, Passes!Has
<1>12. logits' = [of |-> g, head |-> Passes!HeadUsed(file)] /\ logits' # Passes!None
  BY <1>1, <1>9, <1>10, <1>11, SomeLogits, Zenon
<1>13. logits' = LogitsOf'
  BY <1>1, <1>12, Zenon DEF LogitsOf, Passes!HeadUsed, Passes!Has, g
<1>14. RingOf(tta.ring, file, g, logits', todo')
  BY <1>1, <1>2, <1>3, <1>10, RingGrows, Zenon
<1>15. TtaOf(tta, file, g, logits')
  <2>1. tta = Passes!FreshTta
    BY <1>3, <1>11 DEF TtaOf
  <2>2. tta.valid = FALSE
    BY <2>1 DEF Passes!FreshTta
  <2>. QED
    BY <1>3, <1>11, <2>2 DEF TtaOf
<1>16. TtaOf(tta, file, history, logits)' /\ RingOf(tta.ring, file, history, logits, todo)'
  BY <1>1, <1>14, <1>15 DEF TtaOf, RingOf, PairOf, g, Passes!Has
<1>17. Numbered(todo, taken)' /\ todo' = << >> /\ Len(todo') = 0 /\ todo' \in Seq(Nat)
  BY <1>1, <1>2, <1>3, <1>6 DEF Numbered
<1>18. Len(history') + Len(todo') <= Places /\ taken' <= Len(history')
  BY <1>1, <1>2, <1>3, <1>4, <1>6, <1>9, <1>17 DEF g
<1>. QED
  BY <1>9, <1>10, <1>12, <1>13, <1>16, <1>17, <1>18 DEF DenseInv, g

LEMMA DenseNext ==
    ASSUME DenseInv, [Passes!Next]_passVars
    PROVE  DenseInv'
<1>1. CASE UNCHANGED passVars
  BY <1>1 DEF passVars, DenseInv, InMemory, CellsAt, StatesAt, StateOf, UpTo, WindowOf, LogitsOf,
              TtaOf, RingOf, PairOf, Numbered, Passes!HeadUsed, Passes!Has
<1>2. ASSUME NEW ids \in Passes!Prompts, Passes!Ask(ids) PROVE DenseInv'
  BY <1>2, AskStep
<1>3. CASE Passes!Prefill
  BY <1>3, DensePrefillStep
<1>4. CASE Passes!Abort \/ Passes!Reset
  BY <1>4, DenseRestartStep DEF Passes!Abort, Passes!Reset
<1>5. ASSUME NEW t \in Letters, Passes!Decode(t) PROVE DenseInv'
  BY <1>5, DenseDecodeStep
<1>6. ASSUME NEW t \in Letters, Passes!LastPick(t) PROVE DenseInv'
  BY <1>6, DenseLastStep
<1>7. ASSUME NEW ids \in [1..2 -> Letters], NEW n \in 1..2, Passes!Verify(ids, n) PROVE DenseInv'
  BY <1>7, DenseVerifyStep
<1>. QED
  BY <1>1, <1>2, <1>3, <1>4, <1>5, <1>6, <1>7 DEF Passes!Next

LEMMA DenseConsequences ==
    ASSUME DenseInv
    PROVE  Passes!TypeOK /\ Passes!LogitsTrue /\ Passes!PairsTrue
<1>1. /\ Passes!DenseAssumption /\ file \in Files /\ file.layers \in Nat
      /\ history \in Seq(Nat) /\ todo \in Seq(Nat) /\ taken \in Nat
      /\ Len(history) \in Nat /\ Len(todo) \in Nat /\ Places \in Nat /\ TtaN \in Nat
  BY DenseTypes
<1>2. /\ InMemory /\ Len(history) + Len(todo) <= Places /\ taken <= Len(history)
      /\ TtaOf(tta, file, history, logits) /\ RingOf(tta.ring, file, history, logits, todo)
      /\ (logits # Passes!None => logits = LogitsOf)
  BY DEF DenseInv
<1>3. Len(layers) = file.layers /\ DOMAIN rec = 1..file.layers
  <2>1. layers = [i \in 1..file.layers |-> Passes!LayerOf(file, i)] /\ DOMAIN rec = 1..file.layers
    BY <1>2 DEF InMemory, StatesAt
  <2>. DEFINE L == file.layers
              R == {Passes!LayerOf(file, i) : i \in 1..L}
  <2>2. layers \in [1..L -> R] /\ L \in Nat
    BY <1>1, <2>1
  <2>. HIDE DEF L, R
  <2>3. Len(layers) = L
    BY <2>2
  <2>. QED
    BY <2>1, <2>3, Zenon DEF L
<1>4. taken \in 0..Places
  BY <1>1, <1>2
<1>5. Len(tta.ring) <= TtaN /\ tta.head \in 0..TtaN - 1 /\ tta.ring \in Seq(Seq(Nat))
  BY <1>2 DEF TtaOf, RingOf
<1>6. Passes!TypeOK
  BY <1>1, <1>2, <1>3, <1>4, <1>5 DEF Passes!TypeOK
<1>7. Passes!LogitsTrue
  BY <1>2 DEF Passes!LogitsTrue, LogitsOf
<1>8. tta.valid /\ logits # Passes!None => tta.h = history
  BY <1>2 DEF TtaOf
<1>9. ASSUME NEW n \in 1..Len(tta.ring)
      PROVE  LET pair == tta.ring[n]
             IN  /\ Passes!IsPrefix(Passes!Front(pair), history)
                 /\ Len(pair) <= Len(history) => Passes!IsPrefix(pair, history)
  <2>. DEFINE pair == tta.ring[n]
  <2>1. PairOf(pair, file, history, logits, todo)
    BY <1>2 DEF RingOf
  <2>2. /\ pair \in Seq(Nat) /\ Len(pair) \in Nat /\ Len(pair) > 0 /\ Len(pair) <= Len(history) + 1
        /\ Passes!Front(pair) = Passes!Begin(history, Len(pair) - 1)
        /\ Len(pair) <= Len(history) => pair = Passes!Begin(history, Len(pair))
    BY <2>1 DEF PairOf
  <2>. HIDE DEF pair
  <2>3. ASSUME NEW m \in 0..Len(history) PROVE Passes!IsPrefix(Passes!Begin(history, m), history)
    <3>. DEFINE a == Passes!Begin(history, m)
    <3>1. a \in Seq(Nat) /\ Len(a) = m /\ m <= Len(history) /\ a = SubSeq(history, 1, m)
      BY <1>1, BeginIs DEF Passes!Begin
    <3>. HIDE DEF a
    <3>2. SubSeq(history, 1, Len(a)) = a
      BY <3>1
    <3>. QED
      BY <3>1, <3>2 DEF Passes!IsPrefix, a
  <2>4. Len(pair) - 1 \in 0..Len(history) /\ (Len(pair) <= Len(history) => Len(pair) \in 0..Len(history))
    BY <1>1, <2>2
  <2>. QED
    BY <2>2, <2>3, <2>4 DEF pair
<1>. QED
  BY <1>6, <1>7, <1>8, <1>9 DEF Passes!PairsTrue

LEMMA DenseAlways == ASSUME GemmaAsRead PROVE Spec => []DenseInv
<1>1. Init => DenseInv
  BY DenseInit, TurnsAssumption DEF Init
<1>2. DenseInv /\ [Next]_vars => DenseInv'
  <2>1. [Next]_vars => [Passes!Next]_passVars
    BY DEF Next, vars, GlmTurns, GramTurns, ChatTurns, Forward, GlmForwards, Training
  <2>. QED
    BY <2>1, DenseNext
<1>. QED
  BY <1>1, <1>2, PTL DEF Spec

(* The forward pass of glm.                                                  *)

Unit == Steps!Slots
KeyLayers == {j \in 1..net.layers : net.dsa /\ net.full[j]}

LEMMA SameNames ==
    /\ \A h, n : Steps!Begin(h, n) = Passes!Begin(h, n)
    /\ Steps!Wrong = Passes!Wrong
BY DEF Steps!Begin, Passes!Begin, Steps!Wrong, Passes!Wrong

LEMMA LenIs ==
    ASSUME NEW m \in Nat, NEW x, x = [s \in 1..m |-> x[s]]
    PROVE  Len(x) = m /\ x \in Seq({x[s] : s \in 1..m}) /\ DOMAIN x = 1..m
<1>. DEFINE R == {x[s] : s \in 1..m}
<1>1. x \in [1..m -> R] /\ DOMAIN x = 1..m
  OBVIOUS
<1>. HIDE DEF R
<1>. QED
  BY <1>1 DEF R

LEMMA MadeIs ==
    ASSUME NEW m \in Nat, NEW x, x = [s \in 1..m |-> x[s]]
    PROVE  Steps!Made(x) = x
<1>. DEFINE R == {x[s] : s \in 1..m}
<1>1. x \in Seq(R)
  BY LenIs
<1>. HIDE DEF R
<1>2. x \o << >> = x
  BY <1>1, ConcatEmptySeq
<1>. QED
  BY <1>2 DEF Steps!Made

LEMMA GreatestIs ==
    ASSUME NEW S \in SUBSET Int, NEW s \in S, \A r \in S : r <= s
    PROVE  Steps!Max(S) = s
<1>1. \A a \in S : (\A b \in S : a >= b) => a = s
  <2>1. ASSUME NEW a \in S, \A b \in S : a >= b PROVE a = s
    <3>1. a >= s /\ a <= s /\ a \in Int /\ s \in Int
      BY <2>1
    <3>. QED
      BY <3>1
  <2>. QED
    BY <2>1
<1>2. \A b \in S : s >= b
  <2>1. \A b \in S : b \in Int /\ b <= s /\ s \in Int
    OBVIOUS
  <2>. QED
    BY <2>1
<1>3. Steps!Max(S) = CHOOSE a \in S : \A b \in S : a >= b
  BY DEF Steps!Max
<1>. QED
  BY <1>1, <1>2, <1>3, Zenon

\* A batch x at the places b.at, behind p[c] rows of each conversation, of which
\* g[c] is the whole.
Sent(b, x, g, p) ==
  /\ g \in [Unit -> Seq(Nat)] /\ p \in [Unit -> Nat]
  /\ \A c \in Unit : p[c] <= Len(g[c]) /\ Len(g[c]) <= Held
  /\ Len(x) \in Nat /\ Len(x) > 0 /\ x = [s \in 1..Len(x) |-> x[s]]
  /\ DOMAIN b.at = 1..Len(x)
  /\ \A s \in 1..Len(x) :
       \E c \in Unit : \E t \in p[c] + 1..Len(g[c]) :
         b.at[s] = <<c, t>> /\ x[s] = Steps!Begin(g[c], t)
  /\ \A s, r \in 1..Len(x) : b.at[s] = b.at[r] => s = r
  /\ \A c \in Unit : \A t \in p[c] + 1..Len(g[c]) : \E s \in 1..Len(x) : b.at[s] = <<c, t>>
  /\ \A s \in 1..Len(x) : Steps!ReadAt(b, s) = b.at[s]

\* Caches with the rows of g as far as layer i, behind it those before the batch.
RowsAt(cache, J, g, p, i) ==
  /\ DOMAIN cache = Unit
  /\ \A c \in Unit :
       /\ DOMAIN cache[c] = J
       /\ \A j \in J :
            /\ DOMAIN cache[c][j] = 1..Held
            /\ j <= net.layers =>
                 \A t \in 1..UpTo(g[c], p[c], i, j) :
                   cache[c][j][t] = Steps!Row(Steps!Begin(g[c], t), j, "v")

LEMMA WrittenIs ==
    ASSUME NEW b, NEW x, NEW g, NEW p, Sent(b, x, g, p), Held \in Nat, net.layers \in Nat,
           NEW cache, NEW J \in SUBSET Nat, NEW i \in J, i >= 1, i <= net.layers,
           RowsAt(cache, J, g, p, i - 1)
    PROVE  /\ RowsAt(Steps!Written(cache, b, x, i), J, g, p, i)
           /\ \A c \in Unit : \A j \in J : j # i => Steps!Written(cache, b, x, i)[c][j] = cache[c][j]
<1>. DEFINE W == Steps!Written(cache, b, x, i)
            Mine(c, t) == {s \in DOMAIN b.at : b.at[s] = <<c, t>>}
            New(c) == [t \in 1..Held |-> IF Mine(c, t) = {} THEN cache[c][i][t]
                                         ELSE Steps!Row(x[Steps!Max(Mine(c, t))], i, "v")]
<1>1. W = [c \in Unit |-> [cache[c] EXCEPT ![i] = Steps!Made(New(c))]]
  BY DEF Steps!Written, Unit
<1>2. ASSUME NEW c \in Unit PROVE W[c] = [cache[c] EXCEPT ![i] = New(c)]
  <2>. DEFINE f == New(c)
  <2>1. f = [t \in 1..Held |-> f[t]]
    OBVIOUS
  <2>. HIDE DEF f
  <2>2. Steps!Made(f) = f
    BY <2>1, MadeIs
  <2>. QED
    BY <1>1, <2>2, ZenonT(60) DEF f
<1>3. DOMAIN W = Unit
  BY <1>1
<1>4. /\ g \in [Unit -> Seq(Nat)] /\ p \in [Unit -> Nat] /\ Len(x) \in Nat
      /\ \A c \in Unit : p[c] <= Len(g[c]) /\ Len(g[c]) <= Held
      /\ DOMAIN b.at = 1..Len(x)
  BY DEF Sent
<1>5. ASSUME NEW c \in Unit, NEW t \in 1..Len(g[c])
      PROVE  New(c)[t] = Steps!Row(Steps!Begin(g[c], t), i, "v")
  <2>1. p[c] \in Nat /\ Len(g[c]) \in Nat /\ t \in 1..Held
    BY <1>4
  <2>2. CASE t <= p[c]
    <3>1. Mine(c, t) = {}
      <4>1. ASSUME NEW s \in 1..Len(x), b.at[s] = <<c, t>> PROVE FALSE
        <5>1. PICK d \in Unit : \E u \in p[d] + 1..Len(g[d]) : b.at[s] = <<d, u>>
          BY ZenonT(60) DEF Sent
        <5>2. PICK u \in p[d] + 1..Len(g[d]) : b.at[s] = <<d, u>>
          BY <5>1
        <5>3. d = c /\ u = t
          BY <4>1, <5>2
        <5>4. t \in p[c] + 1..Len(g[c])
          BY <5>2, <5>3
        <5>. QED
          BY <2>1, <2>2, <5>4
      <4>. QED
        BY <1>4, <4>1
    <3>2. cache[c][i][t] = Steps!Row(Steps!Begin(g[c], t), i, "v")
      <4>1. UpTo(g[c], p[c], i - 1, i) = p[c] /\ t \in 1..p[c]
        BY <2>1, <2>2 DEF UpTo
      <4>. QED
        BY <4>1 DEF RowsAt
    <3>. QED
      BY <2>1, <3>1, <3>2
  <2>3. CASE ~(t <= p[c])
    <3>1. t \in p[c] + 1..Len(g[c])
      BY <2>1, <2>3
    <3>2. PICK s \in 1..Len(x) : b.at[s] = <<c, t>>
      BY <3>1, Zenon DEF Sent
    <3>3. Mine(c, t) = {s}
      BY <1>4, <3>2, Zenon DEF Sent
    <3>4. Steps!Max({s}) = s
      <4>1. s \in Int /\ {s} \in SUBSET Int /\ s <= s
        BY <1>4
      <4>. QED
        BY <4>1, GreatestIs, Zenon
    <3>5. x[s] = Steps!Begin(g[c], t)
      <4>1. PICK d \in Unit : \E u \in p[d] + 1..Len(g[d]) : b.at[s] = <<d, u>> /\ x[s] = Steps!Begin(g[d], u)
        BY Zenon DEF Sent
      <4>. QED
        BY <3>2, <4>1
    <3>. QED
      BY <2>1, <3>3, <3>4, <3>5, Zenon
  <2>. QED
    BY <2>2, <2>3
<1>. HIDE DEF W, New
<1>6. ASSUME NEW c \in Unit
      PROVE  /\ DOMAIN W[c] = J /\ W[c][i] = New(c)
             /\ \A j \in J : j # i => W[c][j] = cache[c][j]
  <2>1. DOMAIN cache[c] = J
    BY DEF RowsAt
  <2>. QED
    BY <1>2, <2>1, Zenon
<1>7. \A c \in Unit : DOMAIN New(c) = 1..Held
  BY DEF New
<1>8. ASSUME NEW c \in Unit, NEW j \in J
      PROVE  /\ DOMAIN W[c][j] = 1..Held
             /\ j <= net.layers =>
                  \A t \in 1..UpTo(g[c], p[c], i, j) :
                    W[c][j][t] = Steps!Row(Steps!Begin(g[c], t), j, "v")
  <2>1. CASE j = i
    <3>1. UpTo(g[c], p[c], i, i) = Len(g[c])
      BY DEF UpTo
    <3>. QED
      BY <1>5, <1>6, <1>7, <2>1, <3>1
  <2>2. CASE j # i
    <3>1. UpTo(g[c], p[c], i, j) = UpTo(g[c], p[c], i - 1, j)
      <4>1. i \in Nat /\ j \in Nat
        OBVIOUS
      <4>2. j <= i <=> j <= i - 1
        BY <2>2, <4>1
      <4>. QED
        BY <4>2 DEF UpTo
    <3>. QED
      BY <1>6, <2>2, <3>1 DEF RowsAt
  <2>. QED
    BY <2>1, <2>2
<1>9. RowsAt(W, J, g, p, i)
  BY <1>3, <1>6, <1>8 DEF RowsAt
<1>. QED
  BY <1>6, <1>9 DEF W

LEMMA WholeIs ==
    ASSUME NEW b, NEW x, NEW g, NEW p, Sent(b, x, g, p),
           NEW cache, NEW J, NEW i \in J, i <= net.layers, RowsAt(cache, J, g, p, i), i \in Nat,
           NEW s \in 1..Len(x)
    PROVE  /\ Steps!Whole(cache[b.at[s][1]][i], x[s], i, b.at[s][2])
           /\ Len(x[s]) = b.at[s][2] /\ b.at[s][1] \in Unit
<1>1. PICK c \in Unit : \E t \in p[c] + 1..Len(g[c]) : b.at[s] = <<c, t>> /\ x[s] = Steps!Begin(g[c], t)
  BY DEF Sent
<1>2. PICK q \in p[c] + 1..Len(g[c]) : b.at[s] = <<c, q>> /\ x[s] = Steps!Begin(g[c], q)
  BY <1>1
<1>3. g[c] \in Seq(Nat) /\ p[c] \in Nat
  BY DEF Sent
<1>4. q \in 0..Len(g[c]) /\ Len(g[c]) \in Nat
  BY <1>3
<1>5. x[s] = Passes!Begin(g[c], q)
  BY <1>2, SameNames
<1>6. Len(x[s]) = q /\ x[s] # Steps!Wrong
  BY <1>3, <1>4, <1>5, BeginIs, BeginNotWrong, SameNames
<1>7. ASSUME NEW t \in 1..q PROVE cache[c][i][t] = Steps!Row(Steps!Begin(x[s], t), i, "v")
  <2>1. t \in 0..q /\ t \in 1..Len(g[c])
    BY <1>4
  <2>2. UpTo(g[c], p[c], i, i) = Len(g[c])
    BY DEF UpTo
  <2>3. Steps!Begin(x[s], t) = Steps!Begin(g[c], t)
    BY <1>3, <1>4, <1>5, <2>1, BeginBegin, SameNames
  <2>. QED
    BY <2>1, <2>2, <2>3 DEF RowsAt
<1>. QED
  BY <1>2, <1>6, <1>7 DEF Steps!Whole

LEMMA SelectedIs ==
    ASSUME NEW b, NEW x, NEW g, NEW p, Sent(b, x, g, p), NEW r, r.x = x,
           NEW J, NEW i \in J, i <= net.layers, i \in Nat, RowsAt(r.keys, J, g, p, i),
           Len(r.sel) \in Nat
    PROVE  LET N == Steps!Selected(r, b, i)
           IN  /\ Len(N) \in Nat
               /\ \A s \in 1..Len(x) : N[s] = Steps!TopOf(x[s], i)
<1>. DEFINE New(s) == LET c == b.at[s][1]
                          q == b.at[s][2]
                      IN  IF q <= TopK THEN <<>>
                          ELSE IF Steps!Whole(r.keys[c][i], r.x[s], i, q) THEN Steps!TopOf(r.x[s], i)
                               ELSE Steps!Wrong
            m == Steps!Max({Len(r.sel), Len(r.x)})
            f == [s \in 1..m |-> IF s <= Len(r.x) THEN New(s) ELSE r.sel[s]]
<1>1. Steps!Selected(r, b, i) = Steps!Made(f)
  BY DEF Steps!Selected
<1>2. Len(x) \in Nat
  BY DEF Sent
<1>3. m \in Nat /\ Len(x) <= m
  <2>. DEFINE u == Len(r.sel)
              v == Len(r.x)
  <2>1. u \in Nat /\ v \in Nat /\ v = Len(x)
    BY <1>2
  <2>. HIDE DEF u, v
  <2>2. CASE u <= v
    <3>1. {u, v} \in SUBSET Int /\ v \in {u, v} /\ \A r_ \in {u, v} : r_ <= v
      BY <2>1, <2>2
    <3>2. Steps!Max({u, v}) = v
      BY <3>1, GreatestIs, Zenon
    <3>. QED
      BY <2>1, <3>2 DEF u, v
  <2>3. CASE ~(u <= v)
    <3>1. v <= u
      BY <2>1, <2>3
    <3>2. {u, v} \in SUBSET Int /\ u \in {u, v} /\ \A r_ \in {u, v} : r_ <= u
      BY <2>1, <3>1
    <3>3. Steps!Max({u, v}) = u
      BY <3>2, GreatestIs, Zenon
    <3>. QED
      BY <2>1, <3>1, <3>3 DEF u, v
  <2>. QED
    BY <2>2, <2>3
<1>. HIDE DEF m
<1>4. ASSUME NEW s \in 1..Len(x) PROVE f[s] = Steps!TopOf(x[s], i)
  <2>1. /\ Steps!Whole(r.keys[b.at[s][1]][i], x[s], i, b.at[s][2])
        /\ Len(x[s]) = b.at[s][2]
    BY WholeIs
  <2>2. s \in 1..m /\ s <= Len(x)
    BY <1>2, <1>3
  <2>3. f[s] = New(s)
    BY <2>2
  <2>. QED
    BY <2>1, <2>3 DEF Steps!TopOf
<1>5. f = [s \in 1..m |-> f[s]]
  OBVIOUS
<1>. HIDE DEF f
<1>6. Len(f) = m /\ Steps!Made(f) = f
  BY <1>3, <1>5, LenIs, MadeIs
<1>. QED
  BY <1>1, <1>3, <1>4, <1>6

LEMMA LastFullIs ==
    ASSUME net.layers \in Nat, NEW i \in 1..net.layers
    PROVE  /\ net.full[i] => Steps!LastFull(i) = i
           /\ ~net.full[i] => Steps!LastFull(i) = Steps!LastFull(i - 1)
<1>. DEFINE S == {j \in 1..i : net.full[j]}
<1>1. i \in Nat /\ i > 0
  OBVIOUS
<1>2. ASSUME net.full[i] PROVE Steps!LastFull(i) = i
  <2>1. i \in S /\ S \in SUBSET Int /\ \A j \in S : j <= i
    BY <1>1, <1>2
  <2>. HIDE DEF S
  <2>2. Steps!Max(S) = i
    BY <2>1, GreatestIs
  <2>. QED
    BY <2>2 DEF Steps!LastFull, S
<1>3. ASSUME ~net.full[i] PROVE Steps!LastFull(i) = Steps!LastFull(i - 1)
  <2>1. \A j : j \in 1..i <=> j \in 1..i - 1 \/ j = i
    BY <1>1
  <2>2. S = {j \in 1..i - 1 : net.full[j]}
    BY <1>3, <2>1
  <2>. QED
    BY <2>2 DEF Steps!LastFull
<1>. QED
  BY <1>2, <1>3

\* What EXCEPT makes of a record of four fields.
LEMMA Put ==
    ASSUME NEW a, NEW b, NEW c, NEW d, NEW r, r = [x |-> a, kv |-> b, keys |-> c, sel |-> d], NEW z
    PROVE  /\ [r EXCEPT !.x = z] = [x |-> z, kv |-> b, keys |-> c, sel |-> d]
           /\ [r EXCEPT !.kv = z] = [x |-> a, kv |-> z, keys |-> c, sel |-> d]
           /\ [r EXCEPT !.keys = z] = [x |-> a, kv |-> b, keys |-> z, sel |-> d]
           /\ [r EXCEPT !.sel = z] = [x |-> a, kv |-> b, keys |-> c, sel |-> z]
<1>1. \A S : a \in S /\ b \in S /\ c \in S /\ d \in S /\ z \in S =>
        /\ [r EXCEPT !.x = z] = [x |-> z, kv |-> b, keys |-> c, sel |-> d]
        /\ [r EXCEPT !.kv = z] = [x |-> a, kv |-> z, keys |-> c, sel |-> d]
        /\ [r EXCEPT !.keys = z] = [x |-> a, kv |-> b, keys |-> z, sel |-> d]
        /\ [r EXCEPT !.sel = z] = [x |-> a, kv |-> b, keys |-> c, sel |-> z]
  <2>. SUFFICES ASSUME NEW S, a \in S, b \in S, c \in S, d \in S, z \in S
                PROVE  /\ [r EXCEPT !.x = z] = [x |-> z, kv |-> b, keys |-> c, sel |-> d]
                       /\ [r EXCEPT !.kv = z] = [x |-> a, kv |-> z, keys |-> c, sel |-> d]
                       /\ [r EXCEPT !.keys = z] = [x |-> a, kv |-> b, keys |-> z, sel |-> d]
                       /\ [r EXCEPT !.sel = z] = [x |-> a, kv |-> b, keys |-> c, sel |-> z]
    OBVIOUS
  <2>. QED
    OBVIOUS
<1>2. a \in {a, b, c, d, z} /\ b \in {a, b, c, d, z} /\ c \in {a, b, c, d, z}
        /\ d \in {a, b, c, d, z} /\ z \in {a, b, c, d, z}
  OBVIOUS
<1>. QED
  BY <1>1, <1>2, Zenon

\* A batch behind layer i: its rows are still those of the histories, the
\* caches have theirs and the selection is that of the last full layer.
After_(r, x, g, p, i) ==
  /\ r = [x |-> x, kv |-> r.kv, keys |-> r.keys, sel |-> r.sel]
  /\ RowsAt(r.kv, 1..net.layers + 1, g, p, i)
  /\ \A c \in Unit : r.kv[c][net.layers + 1] = caches[c][net.layers + 1]
  /\ RowsAt(r.keys, KeyLayers, g, p, i)
  /\ Len(r.sel) \in Nat
  /\ (net.dsa /\ i >= 1) => \A s \in 1..Len(x) : r.sel[s] = Steps!TopOf(x[s], Steps!LastFull(i))

LEMMA RowsPassed ==
    ASSUME NEW cache, NEW J, NEW g, NEW p, NEW i \in Nat, i >= 1, J \subseteq Nat, i \notin J,
           RowsAt(cache, J, g, p, i - 1)
    PROVE  RowsAt(cache, J, g, p, i)
<1>1. ASSUME NEW c \in Unit, NEW j \in J PROVE UpTo(g[c], p[c], i, j) = UpTo(g[c], p[c], i - 1, j)
  <2>1. j \in Nat /\ j # i
    OBVIOUS
  <2>2. j <= i <=> j <= i - 1
    BY <2>1
  <2>. QED
    BY <2>2 DEF UpTo
<1>. QED
  BY <1>1 DEF RowsAt

LEMMA IndexedIs ==
    ASSUME NEW b, NEW x, NEW g, NEW p, Sent(b, x, g, p), Held \in Nat, net.layers \in Nat, TopK \in Nat,
           net.full[1], NEW i \in 1..net.layers,
           NEW kv_, NEW keys_, NEW sel_, NEW r,
           r = [x |-> x, kv |-> kv_, keys |-> keys_, sel |-> sel_],
           RowsAt(keys_, KeyLayers, g, p, i - 1), Len(sel_) \in Nat,
           (net.dsa /\ i - 1 >= 1) => \A s \in 1..Len(x) : sel_[s] = Steps!TopOf(x[s], Steps!LastFull(i - 1))
    PROVE  LET w == Steps!Indexed(r, b, i)
           IN  /\ w = [x |-> x, kv |-> kv_, keys |-> w.keys, sel |-> w.sel]
               /\ RowsAt(w.keys, KeyLayers, g, p, i)
               /\ Len(w.sel) \in Nat
               /\ net.dsa => \A s \in 1..Len(x) : w.sel[s] = Steps!TopOf(x[s], Steps!LastFull(i))
<1>0. i \in Nat /\ i >= 1 /\ i <= net.layers /\ KeyLayers \subseteq Nat
  BY DEF KeyLayers
<1>1. CASE net.dsa /\ net.full[i]
  <2>. DEFINE N == Steps!Written(keys_, b, x, i)
              k0 == [r EXCEPT !.keys = N]
              S == Steps!Selected(k0, b, i)
              w == Steps!Indexed(r, b, i)
  <2>1. r.keys = keys_ /\ r.x = x
    OBVIOUS
  <2>2. w = [k0 EXCEPT !.sel = S]
    BY <1>0, <1>1, <2>1 DEF Steps!Indexed
  <2>3. i \in KeyLayers
    BY <1>1 DEF KeyLayers
  <2>4. RowsAt(N, KeyLayers, g, p, i)
    BY <1>0, <2>3, WrittenIs, Zenon
  <2>. HIDE DEF N, w
  <2>5. k0 = [x |-> x, kv |-> kv_, keys |-> N, sel |-> sel_]
    BY Put
  <2>. HIDE DEF k0
  <2>6. k0.x = x /\ k0.keys = N /\ k0.sel = sel_
    BY <2>5
  <2>7. Len(S) \in Nat /\ \A s \in 1..Len(x) : S[s] = Steps!TopOf(x[s], i)
    BY <1>0, <2>3, <2>4, <2>6, SelectedIs
  <2>. HIDE DEF S
  <2>8. w = [x |-> x, kv |-> kv_, keys |-> N, sel |-> S]
    BY <2>2, <2>5, Put, Zenon
  <2>9. Steps!LastFull(i) = i
    BY <1>1, LastFullIs
  <2>. QED
    BY <2>4, <2>7, <2>8, <2>9 DEF w
<1>2. CASE ~(net.dsa /\ net.full[i])
  <2>1. Steps!Indexed(r, b, i) = r
    BY <1>2 DEF Steps!Indexed
  <2>2. i \notin KeyLayers
    BY <1>2 DEF KeyLayers
  <2>3. RowsAt(keys_, KeyLayers, g, p, i)
    BY <1>0, <2>2, RowsPassed, Zenon
  <2>4. ASSUME net.dsa, NEW s \in 1..Len(x) PROVE sel_[s] = Steps!TopOf(x[s], Steps!LastFull(i))
    <3>1. ~net.full[i] /\ i # 1
      BY <1>2, <2>4
    <3>2. i - 1 >= 1
      BY <1>0, <3>1
    <3>3. Steps!LastFull(i) = Steps!LastFull(i - 1)
      BY <3>1, LastFullIs
    <3>. QED
      BY <2>4, <3>2, <3>3
  <2>. QED
    BY <2>1, <2>3, <2>4
<1>. QED
  BY <1>1, <1>2

LEMMA GlmLayerStep ==
    ASSUME NEW b, NEW x, NEW g, NEW p, Sent(b, x, g, p), Held \in Nat, net.layers \in Nat, TopK \in Nat,
           net.full[1], NEW i \in 1..net.layers, NEW r, After_(r, x, g, p, i - 1)
    PROVE  After_(Steps!Layer(r, b, i), x, g, p, i)
<1>. DEFINE K == Steps!Written(r.kv, b, x, i)
            a0 == [r EXCEPT !.kv = K]
            w == Steps!Indexed(a0, b, i)
            Looked(s) == IF net.dsa /\ i <= net.layers THEN w.sel[s] ELSE <<>>
            Due(s) == IF net.dsa /\ i <= net.layers THEN Steps!TopOf(w.x[s], Steps!LastFull(i)) ELSE <<>>
            Good(s) == Steps!Whole(w.kv[Steps!ReadAt(b, s)[1]][i], w.x[s], i, Steps!ReadAt(b, s)[2])
                       /\ Looked(s) = Due(s)
            y == Steps!Made([s \in DOMAIN w.x |-> IF Good(s) THEN w.x[s] ELSE Steps!Wrong])
            q == [w EXCEPT !.x = y]
            J == 1..net.layers + 1
<1>0. i \in Nat /\ i >= 1 /\ i <= net.layers /\ i \in J /\ net.layers + 1 \in J /\ net.layers + 1 # i
      /\ J \in SUBSET Nat
  OBVIOUS
<1>1. /\ r = [x |-> x, kv |-> r.kv, keys |-> r.keys, sel |-> r.sel]
      /\ RowsAt(r.kv, J, g, p, i - 1)
      /\ \A c \in Unit : r.kv[c][net.layers + 1] = caches[c][net.layers + 1]
      /\ RowsAt(r.keys, KeyLayers, g, p, i - 1)
      /\ Len(r.sel) \in Nat
      /\ (net.dsa /\ i - 1 >= 1) => \A s \in 1..Len(x) : r.sel[s] = Steps!TopOf(x[s], Steps!LastFull(i - 1))
  BY DEF After_
<1>2. Steps!Layer(r, b, i) = q
  <2>1. r.x = x
    BY <1>1
  <2>. QED
    BY <2>1 DEF Steps!Layer, Steps!Attention
<1>. HIDE DEF J
<1>3. RowsAt(K, J, g, p, i) /\ \A c \in Unit : K[c][net.layers + 1] = caches[c][net.layers + 1]
  <2>1. /\ RowsAt(K, J, g, p, i)
        /\ \A c \in Unit : \A j \in J : j # i => K[c][j] = r.kv[c][j]
    <3>. DEFINE c0 == r.kv
    <3>1. RowsAt(c0, J, g, p, i - 1)
      BY <1>1
    <3>. HIDE DEF c0
    <3>2. /\ RowsAt(Steps!Written(c0, b, x, i), J, g, p, i)
          /\ \A c \in Unit : \A j \in J : j # i => Steps!Written(c0, b, x, i)[c][j] = c0[c][j]
      BY <1>0, <3>1, WrittenIs
    <3>. QED
      BY <3>2 DEF c0
  <2>. HIDE DEF K
  <2>. DEFINE m == net.layers + 1
  <2>2. m \in J /\ m # i
    BY <1>0
  <2>. HIDE DEF m
  <2>3. \A c \in Unit : K[c][m] = r.kv[c][m]
    BY <2>1, <2>2
  <2>. QED
    BY <1>1, <2>1, <2>3 DEF m
<1>. HIDE DEF K
<1>4. a0 = [x |-> x, kv |-> K, keys |-> r.keys, sel |-> r.sel]
  BY <1>1, Put
<1>. HIDE DEF a0
<1>5. /\ w = [x |-> x, kv |-> K, keys |-> w.keys, sel |-> w.sel]
      /\ RowsAt(w.keys, KeyLayers, g, p, i)
      /\ Len(w.sel) \in Nat
      /\ net.dsa => \A s \in 1..Len(x) : w.sel[s] = Steps!TopOf(x[s], Steps!LastFull(i))
  BY <1>1, <1>4, IndexedIs
<1>. HIDE DEF w
<1>6. w.x = x /\ w.kv = K
  BY <1>5
<1>7. ASSUME NEW s \in 1..Len(x) PROVE Good(s)
  <2>1. Steps!ReadAt(b, s) = b.at[s]
    BY DEF Sent
  <2>2. Steps!Whole(K[b.at[s][1]][i], x[s], i, b.at[s][2])
    BY <1>0, <1>3, WholeIs
  <2>. QED
    BY <1>5, <1>6, <2>1, <2>2
<1>. HIDE DEF Good
<1>8. y = x
  <2>1. Len(x) \in Nat /\ x = [s \in 1..Len(x) |-> x[s]]
    BY DEF Sent
  <2>2. DOMAIN x = 1..Len(x)
    BY <2>1
  <2>3. [s \in DOMAIN w.x |-> IF Good(s) THEN w.x[s] ELSE Steps!Wrong] = [s \in 1..Len(x) |-> x[s]]
    BY <1>6, <1>7, <2>2
  <2>4. Steps!Made(x) = x
    BY <2>1, MadeIs
  <2>. QED
    BY <2>1, <2>3, <2>4
<1>. HIDE DEF y
<1>9. q = [x |-> x, kv |-> K, keys |-> w.keys, sel |-> w.sel]
  BY <1>5, <1>8, Put
<1>. HIDE DEF q
<1>10. q.x = x /\ q.kv = K /\ q.keys = w.keys /\ q.sel = w.sel
  BY <1>9
<1>11. After_(q, x, g, p, i)
  BY <1>3, <1>5, <1>9, <1>10 DEF After_, J
<1>. QED
  BY <1>2, <1>11

LEMMA GlmPassIs ==
    ASSUME NEW b, NEW x, NEW g, NEW p, Sent(b, x, g, p), Held \in Nat, net.layers \in Nat, TopK \in Nat,
           net.full[1], RowsAt(caches, 1..net.layers + 1, g, p, 0), RowsAt(keys, KeyLayers, g, p, 0),
           Len(sel) \in Nat
    PROVE  After_(Steps!Pass(x, b), x, g, p, net.layers)
<1>. DEFINE L == net.layers
            base == [x |-> x, kv |-> caches, keys |-> keys, sel |-> sel]
            Step(i, r) == Steps!Layer(r, b, i)
            After[i \in 0..L] == IF i = 0 THEN base ELSE Step(i, After[i - 1])
<1>1. L \in Nat
  OBVIOUS
<1>4. Steps!Pass(x, b) = After[L]
  BY DEF Steps!Pass
<1>5. After = CHOOSE d : d = [i \in 0..L |-> IF i = 0 THEN base ELSE Step(i, d[i - 1])]
  OBVIOUS
<1>6. After_(base, x, g, p, 0)
  BY DEF After_
<1>7. ASSUME NEW i \in 1..L, NEW r, After_(r, x, g, p, i - 1) PROVE After_(Step(i, r), x, g, p, i)
  BY <1>7, GlmLayerStep
<1>. HIDE DEF L, base, Step, After
<1>. DEFINE IsAfter(d, m) == /\ d = [i \in 0..m |-> d[i]] /\ d[0] = base
                             /\ \A i \in 1..m : d[i] = Step(i, d[i - 1])
            Bad == {m \in 0..L : \A d : ~IsAfter(d, m)}
<1>8. Bad = {}
  <2>1. SUFFICES ASSUME Bad # {} PROVE FALSE
    OBVIOUS
  <2>2. PICK m \in Bad : \A kk \in Bad : m <= kk
    <3>1. Bad \in SUBSET Nat
      BY <1>1
    <3>. HIDE DEF Bad
    <3>. QED
      BY <2>1, <3>1, LeastOf
  <2>3. m \in 0..L /\ \A d : ~IsAfter(d, m)
    BY <2>2
  <2>4. m # 0
    <3>1. IsAfter([i \in 0..0 |-> base], 0)
      OBVIOUS
    <3>. QED
      BY <2>3, <3>1, Zenon
  <2>5. m \in 1..L /\ m - 1 \in 0..L /\ m - 1 \in 0..m - 1 /\ ~(m <= m - 1)
    BY <1>1, <2>3, <2>4
  <2>6. PICK d : IsAfter(d, m - 1)
    <3>1. m - 1 \notin Bad
      BY <2>2, <2>5
    <3>. QED
      BY <2>5, <3>1
  <2>. DEFINE f == [i \in 0..m |-> IF i = m THEN Step(m, d[m - 1]) ELSE d[i]]
  <2>7. f = [i \in 0..m |-> f[i]] /\ f[0] = base /\ \A i \in 1..m : f[i] = Step(i, f[i - 1])
    <3>1. f[0] = base
      BY <2>5, <2>6
    <3>2. ASSUME NEW i \in 1..m PROVE f[i] = Step(i, f[i - 1])
      <4>1. i \in 0..m /\ i - 1 \in 0..m /\ i - 1 # m /\ (i # m => i \in 1..m - 1)
        BY <2>5
      <4>2. f[i - 1] = d[i - 1]
        BY <4>1
      <4>. QED
        BY <2>6, <4>1, <4>2, Zenon
    <3>3. f = [i \in 0..m |-> f[i]]
      OBVIOUS
    <3>. HIDE DEF f
    <3>. QED
      BY <3>1, <3>2, <3>3, Zenon
  <2>. HIDE DEF f
  <2>. QED
    BY <2>3, <2>7, Zenon
<1>9. PICK d : IsAfter(d, L)
  <2>1. L \in 0..L
    BY <1>1
  <2>. QED
    BY <1>8, <2>1
<1>10. d = [i \in 0..L |-> IF i = 0 THEN base ELSE Step(i, d[i - 1])]
  <2>1. \A i \in 0..L : d[i] = IF i = 0 THEN base ELSE Step(i, d[i - 1])
    <3>1. \A i \in 0..L : i = 0 \/ i \in 1..L
      BY <1>1
    <3>. QED
      BY <1>1, <1>9, <3>1, Zenon
  <2>2. d = [i \in 0..L |-> d[i]]
    BY <1>9
  <2>. QED
    BY <2>1, <2>2, Zenon
<1>11. After = [i \in 0..L |-> IF i = 0 THEN base ELSE Step(i, After[i - 1])]
  BY <1>5, <1>10, ZenonT(60)
<1>12. \A i \in 0..L : After_(After[i], x, g, p, i)
  <2>. DEFINE Off == {i \in 0..L : ~After_(After[i], x, g, p, i)}
  <2>1. SUFFICES ASSUME Off # {} PROVE FALSE
    OBVIOUS
  <2>2. PICK m \in Off : \A kk \in Off : m <= kk
    <3>1. Off \in SUBSET Nat
      BY <1>1
    <3>. HIDE DEF Off
    <3>. QED
      BY <2>1, <3>1, LeastOf
  <2>3. m \in 0..L /\ ~After_(After[m], x, g, p, m)
    BY <2>2
  <2>4. m # 0
    <3>1. 0 \in 0..L
      BY <1>1
    <3>2. After[0] = base
      BY <1>11, <3>1
    <3>. QED
      BY <1>6, <2>3, <3>2
  <2>5. m \in 1..L /\ m - 1 \in 0..L /\ ~(m <= m - 1)
    BY <1>1, <2>3, <2>4
  <2>6. After_(After[m - 1], x, g, p, m - 1)
    BY <2>2, <2>5
  <2>7. After[m] = Step(m, After[m - 1])
    BY <1>11, <2>3, <2>4, Zenon
  <2>. QED
    BY <1>7, <2>3, <2>5, <2>6, <2>7
<1>13. After_(After[L], x, g, p, L)
  <2>1. L \in 0..L
    BY <1>1
  <2>. QED
    BY <1>12, <2>1
<1>. QED
  BY <1>4, <1>13 DEF L

-----------------------------------------------------------------------------
(* What is sent to a forward of glm, and what it leaves in the caches.       *)

Lens(h) == [c \in Unit |-> Len(h[c])]
HeadAt == net.layers + 1

LEMMA NetFacts ==
    ASSUME Steps!GlmForwardAssumption, net \in {Steps!LoadedNet(f) : f \in Models}
    PROVE  /\ net.layers \in Nat /\ net.layers >= 1 /\ net.full[1]
           /\ net.slots \in Nat /\ net.slots >= 1 /\ net.mtp \in BOOLEAN /\ net.plain \in BOOLEAN
<1>1. PICK f \in Models : net = Steps!LoadedNet(f)
  OBVIOUS
<1>2. /\ f.layers \in Nat \ {0} /\ {f.mtp, f.plain} \subseteq BOOLEAN /\ f.slots \in Nat \ {0}
      /\ Steps!Full(f, 1)
  BY DEF Steps!GlmForwardAssumption, Steps!ModelOK
<1>3. /\ net.layers = f.layers /\ net.full = [i \in 1..f.layers |-> Steps!Full(f, i)]
      /\ net.mtp = f.mtp /\ net.plain = f.plain /\ net.slots = f.slots
  BY <1>1 DEF Steps!LoadedNet
<1>4. 1 \in 1..f.layers
  BY <1>2
<1>5. net.full[1]
  BY <1>2, <1>3, <1>4
<1>. QED
  BY <1>2, <1>3, <1>5

LEMMA GlmForwardBounds ==
    ASSUME Steps!GlmForwardAssumption
    PROVE  /\ Held \in Nat /\ Held >= 1 /\ TopK \in Nat /\ DraftK \in Nat /\ MaxFed \in Nat
           /\ Longest \in 1..Held /\ BatchPlaces \in 1..Held
           /\ Vocab \subseteq Nat /\ Letters \subseteq Vocab
BY DEF Steps!GlmForwardAssumption

LEMMA RowsFrom ==
    ASSUME NEW cache, NEW J, J \subseteq Nat \ {0}, NEW h, RowsAt(cache, J, h, Lens(h), 0),
           NEW g, NEW p,
           \A c \in Unit : /\ Len(h[c]) \in Nat /\ p[c] \in 0..Len(h[c])
                           /\ \A t \in 1..p[c] : Steps!Begin(g[c], t) = Steps!Begin(h[c], t)
    PROVE  RowsAt(cache, J, g, p, 0)
<1>1. ASSUME NEW c \in Unit, NEW j \in J, j <= net.layers, NEW t \in 1..UpTo(g[c], p[c], 0, j)
      PROVE  cache[c][j][t] = Steps!Row(Steps!Begin(g[c], t), j, "v")
  <2>1. j \in Nat /\ ~(j <= 0)
    OBVIOUS
  <2>2. UpTo(g[c], p[c], 0, j) = p[c] /\ UpTo(h[c], Lens(h)[c], 0, j) = Len(h[c])
    BY <2>1 DEF UpTo, Lens
  <2>3. t \in 1..p[c] /\ t \in 1..Len(h[c])
    BY <2>2
  <2>4. cache[c][j][t] = Steps!Row(Steps!Begin(h[c], t), j, "v")
    BY <1>1, <2>2, <2>3 DEF RowsAt
  <2>. QED
    BY <2>3, <2>4
<1>. QED
  BY <1>1 DEF RowsAt

LEMMA RowsTo ==
    ASSUME NEW cache, NEW J, J \subseteq Nat \ {0}, NEW g, NEW p, RowsAt(cache, J, g, p, net.layers),
           NEW h,
           \A c \in Unit : /\ Len(g[c]) \in Nat /\ Len(h[c]) \in 0..Len(g[c])
                           /\ \A t \in 1..Len(h[c]) : Steps!Begin(g[c], t) = Steps!Begin(h[c], t)
    PROVE  RowsAt(cache, J, h, Lens(h), 0)
<1>1. ASSUME NEW c \in Unit, NEW j \in J, j <= net.layers, NEW t \in 1..UpTo(h[c], Lens(h)[c], 0, j)
      PROVE  cache[c][j][t] = Steps!Row(Steps!Begin(h[c], t), j, "v")
  <2>1. j \in Nat /\ ~(j <= 0)
    OBVIOUS
  <2>2. UpTo(g[c], p[c], net.layers, j) = Len(g[c]) /\ UpTo(h[c], Lens(h)[c], 0, j) = Len(h[c])
    BY <1>1, <2>1 DEF UpTo, Lens
  <2>3. t \in 1..Len(h[c]) /\ t \in 1..Len(g[c])
    BY <2>2
  <2>4. cache[c][j][t] = Steps!Row(Steps!Begin(g[c], t), j, "v")
    BY <1>1, <2>2, <2>3 DEF RowsAt
  <2>. QED
    BY <2>3, <2>4
<1>. QED
  BY <1>1 DEF RowsAt

\* The rows of the draft head are no rows of a layer.
HeadRows(cache, c, f) == [cache EXCEPT ![c][HeadAt] = f]

LEMMA HeadPut ==
    ASSUME NEW cache, NEW J, NEW h, NEW q, NEW i, RowsAt(cache, J, h, q, i),
           NEW c \in Unit, HeadAt \in J, ~(HeadAt <= net.layers), NEW f, DOMAIN f = 1..Held
    PROVE  /\ RowsAt(HeadRows(cache, c, f), J, h, q, i) /\ HeadRows(cache, c, f)[c][HeadAt] = f
           /\ \A d \in Unit : d # c => HeadRows(cache, c, f)[d] = cache[d]
<1>. DEFINE a == HeadAt
            new == [cache EXCEPT ![c][a] = f]
<1>0. HeadRows(cache, c, f) = new /\ a \in J /\ ~(a <= net.layers)
  BY DEF HeadRows
<1>. HIDE DEF a
<1>1. DOMAIN cache = Unit /\ \A d \in Unit : DOMAIN cache[d] = J
  BY DEF RowsAt
<1>2. /\ DOMAIN new = Unit /\ DOMAIN new[c] = J /\ new[c][a] = f
      /\ \A j \in J : j # a => new[c][j] = cache[c][j]
      /\ \A d \in Unit : d # c => new[d] = cache[d]
  BY <1>0, <1>1
<1>3. ASSUME NEW d \in Unit, NEW j \in J
      PROVE  /\ DOMAIN new[d][j] = 1..Held
             /\ j <= net.layers =>
                  \A t \in 1..UpTo(h[d], q[d], i, j) : new[d][j][t] = Steps!Row(Steps!Begin(h[d], t), j, "v")
  <2>1. CASE d = c /\ j = a
    BY <1>0, <1>2, <2>1
  <2>2. CASE ~(d = c /\ j = a)
    <3>1. new[d][j] = cache[d][j]
      BY <1>2, <2>2
    <3>. QED
      BY <3>1, ZenonT(60) DEF RowsAt
  <2>. QED
    BY <2>1, <2>2
<1>4. \A d \in Unit : DOMAIN new[d] = J
  BY <1>1, <1>2
<1>. HIDE DEF new
<1>5. RowsAt(new, J, h, q, i)
  BY <1>2, <1>3, <1>4 DEF RowsAt
<1>. QED
  BY <1>0, <1>2, <1>5 DEF a

LEMMA JoinedIs ==
    ASSUME NEW a \in Seq(Nat), NEW b \in Seq(Nat)
    PROVE  /\ a \o b \in Seq(Nat) /\ Len(a \o b) = Len(a) + Len(b) /\ Len(a) \in 0..Len(a \o b)
           /\ Steps!Begin(a \o b, Len(a)) = a
           /\ \A s \in 0..Len(b) : a \o Steps!Begin(b, s) = Steps!Begin(a \o b, Len(a) + s)
           /\ \A t \in 1..Len(a) : Steps!Begin(a \o b, t) = Steps!Begin(a, t)
<1>. DEFINE c == a \o b
<1>1. /\ c \in Seq(Nat) /\ Len(c) = Len(a) + Len(b) /\ Len(a) \in 0..Len(c)
      /\ Passes!Begin(c, Len(a)) = a
      /\ \A s \in 0..Len(b) : a \o Passes!Begin(b, s) = Passes!Begin(c, Len(a) + s)
  BY LaidBehind, Zenon
<1>. HIDE DEF c
<1>2. ASSUME NEW t \in 1..Len(a) PROVE Passes!Begin(c, t) = Passes!Begin(a, t)
  <2>1. t \in 0..Len(a) /\ Len(a) \in 0..Len(c)
    BY <1>1
  <2>2. Passes!Begin(Passes!Begin(c, Len(a)), t) = Passes!Begin(c, t)
    BY <1>1, <2>1, BeginBegin, Zenon
  <2>. QED
    BY <1>1, <2>2
<1>. QED
  BY <1>1, <1>2, SameNames, Zenon DEF c

Longer(h, c, p, ids) == [h EXCEPT ![c] = Steps!Begin(h[c], p) \o ids]
Shares(h, c, p) == [d \in Unit |-> IF d = c THEN p ELSE Len(h[d])]

\* A block of one conversation.
OneBlock(h, c, p, ids) ==
  LET a == Steps!Begin(h[c], p)
      x == Steps!Named(a, ids)
      g == Longer(h, c, p, ids)
  IN  /\ Sent(Steps!Contiguous(c, p, Len(ids)), x, g, Shares(h, c, p))
      /\ Len(ids) \in Nat /\ Len(ids) >= 1 /\ Len(x) = Len(ids)
      /\ a \o ids \in Seq(Nat) /\ Len(a \o ids) = p + Len(ids)
      /\ g \in [Unit -> Seq(Nat)] /\ g[c] = a \o ids /\ \A d \in Unit : d # c => g[d] = h[d]
      /\ \A s \in 1..Len(ids) : x[s] = Steps!Begin(g[c], p + s)
      /\ \A d \in Unit : /\ Shares(h, c, p)[d] \in 0..Len(h[d])
                         /\ \A t \in 1..Shares(h, c, p)[d] : Steps!Begin(g[d], t) = Steps!Begin(h[d], t)

LEMMA OneSent ==
    ASSUME NEW h, h \in [Unit -> Seq(Nat)], \A c \in Unit : Len(h[c]) <= Held, Held \in Nat,
           NEW c \in Unit, NEW p \in 0..Len(h[c]), NEW ids \in Seq(Nat), ids # << >>,
           p + Len(ids) <= Held
    PROVE  OneBlock(h, c, p, ids)
<1>. DEFINE a == Steps!Begin(h[c], p)
            n == Len(ids)
            x == Steps!Named(a, ids)
            w == a \o ids
            g == Longer(h, c, p, ids)
            q == Shares(h, c, p)
            b == Steps!Contiguous(c, p, n)
<1>1. h[c] \in Seq(Nat) /\ n \in Nat /\ n # 0 /\ p \in Nat /\ \A d \in Unit : Len(h[d]) \in Nat
  BY EmptySeq
<1>2. a = Passes!Begin(h[c], p) /\ a \in Seq(Nat) /\ Len(a) = p
  BY <1>1, BeginIs, SameNames
<1>3. \A t \in 1..p : Steps!Begin(a, t) = Steps!Begin(h[c], t)
  <2>1. \A t \in 1..p : t \in 0..p
    BY <1>1
  <2>. HIDE DEF a
  <2>. QED
    BY <1>1, <1>2, <2>1, BeginBegin, SameNames
<1>4. /\ w \in Seq(Nat) /\ Len(w) = p + n
      /\ \A s \in 0..n : a \o Steps!Begin(ids, s) = Steps!Begin(w, p + s)
      /\ \A t \in 1..p : Steps!Begin(w, t) = Steps!Begin(a, t)
  <2>. HIDE DEF a
  <2>1. /\ a \o ids \in Seq(Nat) /\ Len(a \o ids) = Len(a) + Len(ids)
        /\ \A s \in 0..Len(ids) : a \o Steps!Begin(ids, s) = Steps!Begin(a \o ids, Len(a) + s)
        /\ \A t \in 1..Len(a) : Steps!Begin(a \o ids, t) = Steps!Begin(a, t)
    BY <1>2, JoinedIs, ZenonT(60)
  <2>. QED
    BY <1>2, <2>1
<1>5. x = [s \in 1..n |-> a \o Steps!Begin(ids, s)]
  BY DEF Steps!Named
<1>6. g = [h EXCEPT ![c] = w]
  BY DEF Longer
<1>7. q = [d \in Unit |-> IF d = c THEN p ELSE Len(h[d])]
  BY DEF Shares
<1>8. /\ b.at = [s \in 1..n |-> <<c, p + s>>] /\ b.own = c /\ b.base = p
  BY DEF Steps!Contiguous
<1>. HIDE DEF a, w, x, g, q, b, n
<1>9. /\ Len(x) = n /\ x = [s \in 1..n |-> x[s]]
      /\ \A s \in 1..n : x[s] = Steps!Begin(w, p + s)
  <2>1. \A s \in 1..n : s \in 0..n
    BY <1>1
  <2>2. x = [s \in 1..n |-> x[s]] /\ \A s \in 1..n : x[s] = Steps!Begin(w, p + s)
    BY <1>4, <1>5, <2>1, Zenon
  <2>. QED
    BY <1>1, <2>2, LenIs
<1>10. g \in [Unit -> Seq(Nat)] /\ g[c] = w /\ \A d \in Unit : d # c => g[d] = h[d]
  BY <1>4, <1>6
<1>11. q \in [Unit -> Nat] /\ q[c] = p /\ \A d \in Unit : d # c => q[d] = Len(h[d])
  BY <1>1, <1>7
<1>12. \A d \in Unit : q[d] <= Len(g[d]) /\ Len(g[d]) <= Held
  <2>1. ASSUME NEW d \in Unit, d = c PROVE q[d] <= Len(g[d]) /\ Len(g[d]) <= Held
    BY <1>1, <1>4, <1>10, <1>11, <2>1 DEF n
  <2>2. ASSUME NEW d \in Unit, d # c PROVE q[d] <= Len(g[d]) /\ Len(g[d]) <= Held
    BY <1>1, <1>10, <1>11, <2>2
  <2>. QED
    BY <2>1, <2>2
<1>13. ASSUME NEW s \in 1..n
       PROVE  \E d \in Unit : \E t \in q[d] + 1..Len(g[d]) : b.at[s] = <<d, t>> /\ x[s] = Steps!Begin(g[d], t)
  <2>1. p + s \in q[c] + 1..Len(g[c])
    BY <1>1, <1>4, <1>10, <1>11
  <2>2. b.at[s] = <<c, p + s>> /\ x[s] = Steps!Begin(g[c], p + s)
    BY <1>8, <1>9, <1>10
  <2>. QED
    BY <2>1, <2>2
<1>14. \A s, r \in 1..n : b.at[s] = b.at[r] => s = r
  <2>1. ASSUME NEW s \in 1..n, NEW r \in 1..n, b.at[s] = b.at[r] PROVE s = r
    <3>1. p + s = p + r
      BY <1>8, <2>1
    <3>. QED
      BY <1>1, <3>1
  <2>. QED
    BY <2>1
<1>15. ASSUME NEW d \in Unit, NEW t \in q[d] + 1..Len(g[d]) PROVE \E s \in 1..n : b.at[s] = <<d, t>>
  <2>1. CASE d = c
    <3>1. t \in p + 1..p + n
      BY <1>4, <1>10, <1>11, <2>1
    <3>2. t - p \in 1..n /\ p + (t - p) = t
      BY <1>1, <3>1
    <3>. QED
      BY <1>8, <2>1, <3>2
  <2>2. CASE d # c
    <3>1. t \in Len(h[d]) + 1..Len(h[d])
      BY <1>10, <1>11, <2>2
    <3>. QED
      BY <1>1, <3>1
  <2>. QED
    BY <2>1, <2>2
<1>16. ASSUME NEW s \in 1..n PROVE Steps!ReadAt(b, s) = b.at[s]
  BY <1>8 DEF Steps!ReadAt
<1>17. Sent(b, x, g, q)
  <2>1. DOMAIN b.at = 1..n
    BY <1>8
  <2>. QED
    <3>1. Len(x) \in Nat /\ Len(x) > 0 /\ x = [s \in 1..Len(x) |-> x[s]] /\ DOMAIN b.at = 1..Len(x)
      BY <1>1, <1>9, <2>1
    <3>2. /\ \A s \in 1..Len(x) :
               \E d \in Unit : \E t \in q[d] + 1..Len(g[d]) :
                 b.at[s] = <<d, t>> /\ x[s] = Steps!Begin(g[d], t)
          /\ \A s, r \in 1..Len(x) : b.at[s] = b.at[r] => s = r
          /\ \A d \in Unit : \A t \in q[d] + 1..Len(g[d]) : \E s \in 1..Len(x) : b.at[s] = <<d, t>>
          /\ \A s \in 1..Len(x) : Steps!ReadAt(b, s) = b.at[s]
      BY <1>9, <1>13, <1>14, <1>15, <1>16, Zenon
    <3>. QED
      BY <1>10, <1>11, <1>12, <3>1, <3>2, Zenon DEF Sent
<1>18. ASSUME NEW d \in Unit
       PROVE  q[d] \in 0..Len(h[d]) /\ \A t \in 1..q[d] : Steps!Begin(g[d], t) = Steps!Begin(h[d], t)
  <2>1. CASE d = c
    BY <1>3, <1>4, <1>10, <1>11, <2>1
  <2>2. CASE d # c
    BY <1>1, <1>10, <1>11, <2>2
  <2>. QED
    BY <2>1, <2>2
<1>. QED
  BY <1>1, <1>4, <1>9, <1>10, <1>17, <1>18 DEF OneBlock, a, w, x, g, q, b, n

\* What holds between two forwards: every layer has the rows of every
\* conversation, and the draft head those that kv_start promises.
StepsInv ==
  /\ Steps!GlmForwardAssumption
  /\ net \in {Steps!LoadedNet(f) : f \in Models}
  /\ told \in [Unit -> Seq(Vocab)] /\ \A c \in Unit : Len(told[c]) <= Held
  /\ bound \in Unit /\ asked \in 0..MaxFed /\ start \in -1..Held - 1 /\ Len(sel) \in Nat
  /\ DOMAIN scores = Unit
  /\ RowsAt(caches, 1..HeadAt, told, Lens(told), 0)
  /\ RowsAt(keys, KeyLayers, told, Lens(told), 0)
  /\ Steps!LogitsTrue
  /\ (start >= 0 => net.slots = 1 /\ net.mtp /\ DraftK > 0)
  /\ Steps!RowsTrue

LEMMA StepsTypes ==
    ASSUME StepsInv
    PROVE  /\ told \in [Unit -> Seq(Nat)] /\ \A c \in Unit : Len(told[c]) \in Nat /\ Len(told[c]) <= Held
           /\ Held \in Nat /\ Held >= 1 /\ TopK \in Nat /\ DraftK \in Nat
           /\ net.layers \in Nat /\ net.layers >= 1 /\ net.full[1]
           /\ net.slots \in Nat /\ net.slots >= 1 /\ net.mtp \in BOOLEAN /\ net.plain \in BOOLEAN
           /\ 1..HeadAt \subseteq Nat \ {0} /\ KeyLayers \subseteq Nat \ {0} /\ HeadAt \in 1..HeadAt
           /\ ~(HeadAt <= net.layers) /\ Unit = 1..net.slots /\ 1 \in Unit /\ HeadAt = Steps!Head1
<1>1. /\ net.layers \in Nat /\ net.layers >= 1 /\ net.full[1]
      /\ net.slots \in Nat /\ net.slots >= 1 /\ net.mtp \in BOOLEAN /\ net.plain \in BOOLEAN
  BY NetFacts DEF StepsInv
<1>2. Held \in Nat /\ Held >= 1 /\ TopK \in Nat /\ DraftK \in Nat /\ Vocab \subseteq Nat
  BY GlmForwardBounds DEF StepsInv
<1>3. \A c \in Unit : told[c] \in Seq(Vocab) /\ Len(told[c]) <= Held
  BY DEF StepsInv
<1>4. \A z \in Seq(Vocab) : z \in Seq(Nat) /\ Len(z) \in Nat
  <2>1. ASSUME NEW z \in Seq(Vocab) PROVE z \in Seq(Nat) /\ Len(z) \in Nat
    <3>1. z \in Seq(Nat)
      BY <1>2, SeqMonotonic, Zenon
    <3>. QED
      BY <3>1
  <2>. QED
    BY <2>1
<1>5. told \in [Unit -> Seq(Nat)] /\ \A c \in Unit : Len(told[c]) \in Nat /\ Len(told[c]) <= Held
  BY <1>3, <1>4 DEF StepsInv
<1>6. 1..HeadAt \subseteq Nat \ {0} /\ HeadAt \in 1..HeadAt /\ ~(HeadAt <= net.layers)
  BY <1>1 DEF HeadAt
<1>7. KeyLayers \subseteq Nat \ {0}
  BY <1>1 DEF KeyLayers
<1>8. Unit = 1..net.slots /\ 1 \in Unit /\ HeadAt = Steps!Head1
  BY <1>1 DEF Unit, Steps!Slots, HeadAt, Steps!Head1
<1>. QED
  BY <1>1, <1>2, <1>5, <1>6, <1>7, <1>8

\* What a forward does to the caches.
LEMMA Forwarded ==
    ASSUME StepsInv, NEW b, NEW x, NEW g, NEW q, Sent(b, x, g, q),
           \A d \in Unit : /\ q[d] \in 0..Len(told[d])
                           /\ \A t \in 1..q[d] : Steps!Begin(g[d], t) = Steps!Begin(told[d], t)
    PROVE  LET r == Steps!Pass(x, b)
           IN  /\ r.x = x /\ Len(r.sel) \in Nat
               /\ RowsAt(r.kv, 1..HeadAt, g, Lens(g), 0)
               /\ RowsAt(r.keys, KeyLayers, g, Lens(g), 0)
               /\ \A c \in Unit : r.kv[c][HeadAt] = caches[c][HeadAt]
<1>. DEFINE r == Steps!Pass(x, b)
<1>1. /\ RowsAt(caches, 1..HeadAt, told, Lens(told), 0)
      /\ RowsAt(keys, KeyLayers, told, Lens(told), 0) /\ Len(sel) \in Nat
  BY DEF StepsInv
<1>2. /\ Held \in Nat /\ TopK \in Nat /\ net.layers \in Nat /\ net.full[1]
      /\ 1..HeadAt \subseteq Nat \ {0} /\ KeyLayers \subseteq Nat \ {0}
      /\ \A c \in Unit : Len(told[c]) \in Nat
  BY StepsTypes
<1>3. RowsAt(caches, 1..HeadAt, g, q, 0) /\ RowsAt(keys, KeyLayers, g, q, 0)
  <2>1. RowsAt(caches, 1..HeadAt, g, q, 0)
    BY <1>1, <1>2, RowsFrom, Zenon
  <2>2. RowsAt(keys, KeyLayers, g, q, 0)
    BY <1>1, <1>2, RowsFrom, Zenon
  <2>. QED
    BY <2>1, <2>2
<1>4. After_(r, x, g, q, net.layers)
  <2>1. RowsAt(caches, 1..net.layers + 1, g, q, 0)
    BY <1>3 DEF HeadAt
  <2>. QED
    BY <1>1, <1>2, <1>3, <2>1, GlmPassIs
<1>. HIDE DEF r
<1>5. /\ r = [x |-> x, kv |-> r.kv, keys |-> r.keys, sel |-> r.sel] /\ Len(r.sel) \in Nat
      /\ RowsAt(r.kv, 1..HeadAt, g, q, net.layers) /\ RowsAt(r.keys, KeyLayers, g, q, net.layers)
      /\ \A c \in Unit : r.kv[c][HeadAt] = caches[c][HeadAt]
  BY <1>4 DEF After_, HeadAt
<1>6. r.x = x
  BY <1>5
<1>7. \A d \in Unit : Len(g[d]) \in Nat /\ Len(g[d]) \in 0..Len(g[d])
  BY DEF Sent
<1>8. RowsAt(r.kv, 1..HeadAt, g, Lens(g), 0)
  BY <1>2, <1>5, <1>7, RowsTo, Zenon
<1>9. RowsAt(r.keys, KeyLayers, g, Lens(g), 0)
  BY <1>2, <1>5, <1>7, RowsTo
<1>. QED
  BY <1>5, <1>6, <1>8, <1>9 DEF r

\* mtp_absorb writes pairs of the conversation.
Paired(w, p, x, next, old) ==
  LET R == Steps!AbsorbedPairs(old, x, next, p)
  IN  /\ DOMAIN R = 1..Held
      /\ \A t \in p + 1..p + Len(next) : R[t] = Steps!Row(Steps!Begin(w, t + 1), HeadAt, "v")
      /\ \A t \in 1..Held : t <= p => R[t] = old[t]

LEMMA PairsAre ==
    ASSUME NEW w \in Seq(Nat), NEW p \in Nat, NEW x, NEW next, Len(next) \in Nat,
           p + 1 + Len(next) <= Len(w), Len(w) <= Held, Held \in Nat,
           \A s \in 1..Len(next) : x[s] = Steps!Begin(w, p + s) /\ next[s] = w[p + s + 1],
           NEW old
    PROVE  Paired(w, p, x, next, old)
<1>. DEFINE m == Len(next)
            R == Steps!AbsorbedPairs(old, x, next, p)
<1>1. R = [t \in 1..Held |->
             IF t - p \in 1..m
             THEN Steps!Row(IF x[t - p] = Steps!Wrong THEN Steps!Wrong ELSE Append(x[t - p], next[t - p]),
                            HeadAt, "v")
             ELSE old[t]]
  BY DEF Steps!AbsorbedPairs, Steps!Head1, HeadAt
<1>2. m \in Nat /\ Len(w) \in Nat /\ p + 1 + m <= Len(w) /\ Len(w) <= Held
      /\ \A s \in 1..m : x[s] = Steps!Begin(w, p + s) /\ next[s] = w[p + s + 1]
  BY SMTT(60)
<1>. HIDE DEF R, m
<1>3. ASSUME NEW t \in p + 1..p + m PROVE R[t] = Steps!Row(Steps!Begin(w, t + 1), HeadAt, "v")
  <2>1. t - p \in 1..m /\ t \in 1..Held /\ p + (t - p) = t /\ t \in 0..Len(w) /\ t < Len(w)
    BY <1>2
  <2>2. x[t - p] = Steps!Begin(w, t) /\ next[t - p] = w[t + 1]
    BY <1>2, <2>1, Zenon
  <2>3. Steps!Begin(w, t) # Steps!Wrong
    BY <2>1, BeginNotWrong, SameNames
  <2>4. Append(Steps!Begin(w, t), w[t + 1]) = Steps!Begin(w, t + 1)
    BY <2>1, HeadGrows, Zenon DEF Steps!Begin
  <2>. QED
    BY <1>1, <2>1, <2>2, <2>3, <2>4, Zenon
<1>4. ASSUME NEW t \in 1..Held, t <= p PROVE R[t] = old[t]
  <2>1. t - p \notin 1..m
    BY <1>2, <1>4
  <2>. QED
    BY <1>1, <2>1
<1>5. DOMAIN R = 1..Held
  BY <1>1
<1>. QED
  BY <1>3, <1>4, <1>5 DEF Paired, R, m

\* Another state with the same model loaded.
LEMMA RowsNext ==
    ASSUME net' = net, NEW z, NEW y, z = caches', y = told', NEW u, u = keys',
           RowsAt(z, 1..HeadAt, y, Lens(y), 0), RowsAt(u, KeyLayers, y, Lens(y), 0)
    PROVE  /\ RowsAt(caches, 1..HeadAt, told, Lens(told), 0)'
           /\ RowsAt(keys, KeyLayers, told, Lens(told), 0)'
<1>1. Unit' = Unit /\ HeadAt' = HeadAt /\ KeyLayers' = KeyLayers /\ net'.layers = net.layers
  BY DEF Unit, Steps!Slots, HeadAt, KeyLayers
<1>2. Lens(told)' = Lens(y)
  BY <1>1 DEF Lens
<1>3. RowsAt(caches, 1..HeadAt, told, Lens(told), 0)'
  BY <1>1, <1>2 DEF RowsAt, UpTo
<1>4. RowsAt(keys, KeyLayers, told, Lens(told), 0)'
  BY <1>1, <1>2 DEF RowsAt, UpTo
<1>. QED
  BY <1>3, <1>4

LEMMA NeverAhead ==
    ASSUME NEW p \in 0..Held - 1, NEW s \in -1..Held - 1, Held \in Nat
    PROVE  Steps!StartAt(s, p) \in 0..p
BY DEF Steps!StartAt

\* A prompt.
LEMMA FeedStep ==
    ASSUME StepsInv, NEW c \in Unit, NEW p \in 0..Len(told[c]), NEW ids \in Seq(Vocab), Steps!Feed(c, p, ids)
    PROVE  StepsInv'
<1>. DEFINE a == Steps!Begin(told[c], p)
            n == Len(ids)
            x == Steps!Named(a, ids)
            g == Longer(told, c, p, ids)
            b == Steps!Contiguous(c, p, n)
            r == Steps!Pass(x, b)
            w == g[c]
            from == IF p < Len(told[c]) THEN -1 ELSE start
            absorbs == Steps!DraftsOf > 0 /\ n >= 2
            old == caches[c][HeadAt]
            pairs == Steps!AbsorbedPairs(old, x, Tail(ids), p)
<1>1. /\ ids # << >> /\ p + n <= Longest /\ asked < MaxFed /\ asked' = asked + 1
      /\ net.plain => p < Len(told[c]) \/ p = 0
      /\ bound' = c
      /\ told' = [told EXCEPT ![c] = a \o ids]
      /\ caches' = IF absorbs
                   THEN [r.kv EXCEPT ![c][Steps!Head1] = Steps!AbsorbedPairs(@, r.x, Tail(ids), p)]
                   ELSE r.kv
      /\ start' = IF absorbs THEN Steps!StartAt(from, p) ELSE from
      /\ keys' = r.keys /\ sel' = r.sel
      /\ hidden' = r.x[n] /\ scores' = [scores EXCEPT ![c] = r.x[n]]
      /\ net' = net
  BY DEF Steps!Feed
<1>2. /\ told \in [Unit -> Seq(Nat)] /\ \A d \in Unit : Len(told[d]) \in Nat /\ Len(told[d]) <= Held
      /\ Held \in Nat /\ Held >= 1 /\ DraftK \in Nat /\ net.plain \in BOOLEAN
      /\ HeadAt \in 1..HeadAt /\ ~(HeadAt <= net.layers) /\ HeadAt = Steps!Head1
      /\ Unit = 1..net.slots /\ net.slots \in Nat /\ net.slots >= 1 /\ 1 \in Unit
  BY StepsTypes, Zenon
<1>3. /\ Longest \in 1..Held /\ Vocab \subseteq Nat /\ MaxFed \in Nat
      /\ told \in [Unit -> Seq(Vocab)] /\ start \in -1..Held - 1 /\ asked \in 0..MaxFed
      /\ DOMAIN scores = Unit /\ Steps!LogitsTrue /\ Steps!RowsTrue
      /\ (start >= 0 => net.slots = 1 /\ net.mtp /\ DraftK > 0)
  BY GlmForwardBounds, Zenon DEF StepsInv
<1>4. ids \in Seq(Nat) /\ n \in Nat
  <2>1. ids \in Seq(Nat)
    BY <1>3, SeqMonotonic, Zenon
  <2>. QED
    BY <2>1
<1>5. p + n <= Held /\ p \in Nat
  BY <1>1, <1>2, <1>3, <1>4
<1>6. /\ Sent(b, x, g, Shares(told, c, p))
      /\ n >= 1 /\ Len(x) = n /\ a \o ids \in Seq(Nat) /\ Len(a \o ids) = p + n
      /\ g \in [Unit -> Seq(Nat)] /\ w = a \o ids /\ \A d \in Unit : d # c => g[d] = told[d]
      /\ \A s \in 1..n : x[s] = Steps!Begin(w, p + s)
      /\ \A d \in Unit : /\ Shares(told, c, p)[d] \in 0..Len(told[d])
                         /\ \A t \in 1..Shares(told, c, p)[d] : Steps!Begin(g[d], t) = Steps!Begin(told[d], t)
  <2>1. /\ told \in [Unit -> Seq(Nat)] /\ \A d \in Unit : Len(told[d]) <= Held
        /\ Held \in Nat /\ ids \in Seq(Nat) /\ ids # << >> /\ p + Len(ids) <= Held
    BY <1>1, <1>2, <1>4, <1>5, Zenon
  <2>2. OneBlock(told, c, p, ids)
    BY <2>1, OneSent
  <2>. QED
    BY <2>2 DEF OneBlock
<1>7. told' = g
  BY <1>1 DEF Longer
<1>8. a \o ids \in Seq(Vocab)
  <2>1. told[c] \in Seq(Vocab)
    BY <1>3
  <2>2. a \in Seq(Vocab)
    BY <2>1, HeadOf DEF Steps!Begin
  <2>. HIDE DEF a
  <2>. QED
    BY <2>2, ConcatProperties
<1>. HIDE DEF a, x, b, g
<1>9. /\ r.x = x /\ Len(r.sel) \in Nat
      /\ RowsAt(r.kv, 1..HeadAt, g, Lens(g), 0)
      /\ RowsAt(r.keys, KeyLayers, g, Lens(g), 0)
      /\ \A d \in Unit : r.kv[d][HeadAt] = caches[d][HeadAt]
  BY <1>6, Forwarded
<1>. HIDE DEF r
<1>10. /\ told' \in [Unit -> Seq(Vocab)] /\ \A d \in Unit : Len(told'[d]) <= Held
  <2>1. told' \in [Unit -> Seq(Vocab)]
    BY <1>1, <1>3, <1>8
  <2>2. ASSUME NEW d \in Unit PROVE Len(told'[d]) <= Held
    <3>1. CASE d = c
      BY <1>5, <1>6, <1>7, <3>1, Zenon
    <3>2. CASE d # c
      BY <1>2, <1>6, <1>7, <3>2
    <3>. QED
      BY <3>1, <3>2
  <2>. QED
    BY <2>1, <2>2
<1>11. w \in Seq(Nat) /\ Len(w) = p + n /\ x[n] = w
  <2>1. n \in 1..n /\ Len(w) = p + n /\ w \in Seq(Nat)
    BY <1>4, <1>6
  <2>2. Steps!Begin(w, Len(w)) = w
    BY <2>1, WholeHead, Zenon DEF Steps!Begin
  <2>. QED
    BY <1>6, <2>1, <2>2, Zenon
<1>12. absorbs => /\ DOMAIN pairs = 1..Held
                  /\ \A t \in p + 1..p + n - 1 : pairs[t] = Steps!Row(Steps!Begin(w, t + 1), HeadAt, "v")
  <2>. SUFFICES ASSUME absorbs
                PROVE  /\ DOMAIN pairs = 1..Held
                       /\ \A t \in p + 1..p + n - 1 :
                            pairs[t] = Steps!Row(Steps!Begin(w, t + 1), HeadAt, "v")
    OBVIOUS
  <2>. DEFINE next == Tail(ids)
  <2>1. Len(next) = n - 1 /\ \A s \in 1..n - 1 : next[s] = ids[s + 1]
    BY <1>1, <1>4
  <2>2. ASSUME NEW s \in 1..n - 1 PROVE x[s] = Steps!Begin(w, p + s) /\ next[s] = w[p + s + 1]
    <3>1. s \in 1..n /\ s + 1 \in 1..n /\ p + s + 1 = p + (s + 1)
      BY <1>4, <1>5
    <3>2. w[p + (s + 1)] = ids[s + 1]
      <4>1. Len(a) = p /\ a \in Seq(Nat)
        <5>1. told[c] \in Seq(Nat)
          BY <1>2, Zenon
        <5>. QED
          BY <5>1, BeginIs, SameNames DEF a
      <4>2. p + (s + 1) \in 1..Len(a) + Len(ids) /\ ~(p + (s + 1) <= Len(a))
            /\ p + (s + 1) - Len(a) = s + 1
        BY <1>4, <1>5, <3>1, <4>1
      <4>3. (a \o ids)[p + (s + 1)] = ids[p + (s + 1) - Len(a)]
        <5>. HIDE DEF a
        <5>. DEFINE k0 == p + (s + 1)
        <5>1. k0 \in 1..Len(a) + Len(ids) /\ ~(k0 <= Len(a))
          BY <4>2
        <5>. HIDE DEF k0
        <5>2. (a \o ids)[k0] = ids[k0 - Len(a)]
          BY <1>4, <4>1, <5>1, ConcatProperties, Zenon
        <5>. QED
          BY <5>2 DEF k0
      <4>. QED
        BY <1>6, <4>2, <4>3, Zenon
    <3>. QED
      BY <1>6, <2>1, <3>1, <3>2, Zenon
  <2>. HIDE DEF next
  <2>3. n - 1 \in Nat /\ p + 1 + (n - 1) <= Len(w) /\ Len(w) <= Held /\ Len(next) \in Nat
    BY <1>4, <1>5, <1>6, <2>1
  <2>4. /\ DOMAIN Steps!AbsorbedPairs(old, x, next, p) = 1..Held
        /\ \A t \in p + 1..p + Len(next) :
             Steps!AbsorbedPairs(old, x, next, p)[t] = Steps!Row(Steps!Begin(w, t + 1), HeadAt, "v")
    <3>. HIDE DEF w, old
    <3>1. \A s \in 1..Len(next) : x[s] = Steps!Begin(w, p + s) /\ next[s] = w[p + s + 1]
      BY <2>1, <2>2, Zenon
    <3>2. p + 1 + Len(next) <= Len(w)
      BY <2>1, <2>3
    <3>3. Paired(w, p, x, next, old)
      BY <1>2, <1>5, <1>11, <2>3, <3>1, <3>2, PairsAre, Zenon
    <3>. QED
      BY <3>3 DEF Paired
  <2>5. p + Len(next) = p + n - 1
    BY <1>4, <1>5, <2>1
  <2>. QED
    BY <2>4, <2>5 DEF next
<1>13. /\ RowsAt(caches', 1..HeadAt, g, Lens(g), 0)
       /\ absorbs => caches'[c][HeadAt] = pairs
  <2>1. CASE absorbs
    <3>1. caches' = [r.kv EXCEPT ![c][HeadAt] = pairs]
      <4>1. caches' = [r.kv EXCEPT ![c][HeadAt] = Steps!AbsorbedPairs(r.kv[c][HeadAt], x, Tail(ids), p)]
        BY <1>1, <1>2, <1>9, <2>1
      <4>. QED
        BY <1>9, <4>1
    <3>. DEFINE k0 == r.kv
    <3>2. RowsAt(k0, 1..HeadAt, g, Lens(g), 0) /\ DOMAIN pairs = 1..Held /\ caches' = HeadRows(k0, c, pairs)
      BY <1>9, <1>12, <2>1, <3>1 DEF HeadRows
    <3>. HIDE DEF pairs, k0
    <3>3. /\ RowsAt(HeadRows(k0, c, pairs), 1..HeadAt, g, Lens(g), 0)
          /\ HeadRows(k0, c, pairs)[c][HeadAt] = pairs
      BY <1>2, <3>2, HeadPut
    <3>. QED
      BY <3>2, <3>3
  <2>2. CASE ~absorbs
    BY <1>1, <1>9, <2>2
  <2>. QED
    BY <2>1, <2>2
<1>14. /\ RowsAt(caches, 1..HeadAt, told, Lens(told), 0)'
       /\ RowsAt(keys, KeyLayers, told, Lens(told), 0)'
  <2>. DEFINE z == caches'
              u == keys'
              y == told'
  <2>1. RowsAt(z, 1..HeadAt, y, Lens(y), 0) /\ RowsAt(u, KeyLayers, y, Lens(y), 0)
    BY <1>1, <1>7, <1>9, <1>13, Zenon
  <2>. HIDE DEF z, u, y
  <2>. QED
    BY <1>1, <2>1, RowsNext, Zenon DEF z, u, y
<1>15. Unit' = Unit
  BY <1>1 DEF Unit, Steps!Slots
<1>16. Steps!LogitsTrue'
  <2>1. scores' = [scores EXCEPT ![c] = w] /\ hidden' = w
    BY <1>1, <1>9, <1>11
  <2>2. scores'[c] = told'[c] /\ \A d \in Unit : d # c => scores'[d] = scores[d] /\ told'[d] = told[d]
    BY <1>3, <1>6, <1>7, <2>1, Zenon
  <2>3. ASSUME NEW d \in Unit, scores'[d] # << >> PROVE scores'[d] = told'[d]
    BY <1>3, <2>2, <2>3 DEF Steps!LogitsTrue, Unit
  <2>4. net.slots = 1 => hidden' = told'[1]
    BY <1>2, <1>7, <2>1
  <2>. QED
    BY <1>1, <1>15, <2>3, <2>4 DEF Steps!LogitsTrue, Unit
<1>17. /\ start' \in -1..Held - 1
       /\ (start' >= 0 => net.slots = 1 /\ net.mtp /\ DraftK > 0)
       /\ absorbs => start' \in 0..p
  <2>1. p \in 0..Held - 1 /\ from \in -1..Held - 1
    BY <1>2, <1>3, <1>4, <1>5, <1>6
  <2>2. absorbs => start' \in 0..p
    BY <1>1, <1>2, <2>1, NeverAhead, Zenon
  <2>3. absorbs => net.slots = 1 /\ net.mtp /\ DraftK > 0
    BY <1>2 DEF Steps!DraftsOf
  <2>4. ~absorbs => start' = from
    BY <1>1
  <2>. HIDE DEF absorbs
  <2>5. CASE absorbs
    BY <1>2, <2>1, <2>2, <2>3, <2>5
  <2>6. CASE ~absorbs
    BY <1>2, <1>3, <2>1, <2>4, <2>6
  <2>. QED
    BY <2>2, <2>5, <2>6
<1>18. Steps!RowsTrue'
  <2>1. SUFFICES ASSUME net.plain, start' >= 0, NEW t \in start' + 1..Len(told'[1]) - 1
                 PROVE  caches'[1][HeadAt][t] = Steps!Row(Steps!Begin(told'[1], t + 1), HeadAt, "v")
    BY <1>1, <1>2, ZenonT(60) DEF Steps!RowsTrue, Steps!Head1
  <2>2. net.slots = 1 /\ net.mtp /\ DraftK > 0 /\ c = 1 /\ told'[1] = w
    BY <1>2, <1>7, <1>17, <2>1
  <2>3. p < Len(told[c]) \/ p = 0
    BY <1>1, <2>1
  <2>4. CASE absorbs
    <3>1. start' = p
      <4>1. p < Len(told[c]) => from = -1
        OBVIOUS
      <4>2. start' = Steps!StartAt(from, p)
        BY <1>1, <2>4
      <4>3. p < Len(told[c]) => start' = p
        BY <4>1, <4>2, <1>5 DEF Steps!StartAt
      <4>4. p = 0 => start' = p
        BY <1>17, <2>4
      <4>. QED
        BY <2>3, <4>3, <4>4
    <3>2. t \in p + 1..p + n - 1
      BY <1>11, <2>1, <2>2, <3>1
    <3>. QED
      BY <1>12, <1>13, <2>2, <2>4, <3>2
  <2>5. CASE ~absorbs
    <3>1. Steps!DraftsOf > 0
      BY <2>2 DEF Steps!DraftsOf
    <3>2. n = 1
      BY <1>4, <1>6, <2>5, <3>1
    <3>3. start' = from
      BY <1>1, <2>5
    <3>4. ~(p < Len(told[c]))
      BY <2>1, <3>3
    <3>5. p = 0 /\ Len(w) = 1
      BY <1>11, <2>3, <3>2, <3>4
    <3>6. start' \in Int /\ start' >= 0
      BY <1>17, <2>1
    <3>7. t \in start' + 1..0
      <4>1. Len(told'[1]) = 1
        BY <2>2, <3>5
      <4>2. t \in start' + 1..1 - 1
        BY <2>1, <4>1
      <4>. QED
        BY <4>2
    <3>. DEFINE z == start'
    <3>8. z \in Int /\ z >= 0 /\ t \in z + 1..0
      BY <3>6, <3>7, Zenon
    <3>. HIDE DEF z
    <3>. QED
      BY <3>8
  <2>. QED
    BY <2>4, <2>5
<1>19. /\ bound' \in Unit /\ asked' \in 0..MaxFed /\ Len(sel') \in Nat /\ DOMAIN scores' = Unit
  BY <1>1, <1>3, <1>9
<1>20. Steps!GlmForwardAssumption /\ net' \in {Steps!LoadedNet(f) : f \in Models}
  BY <1>1 DEF StepsInv
<1>. QED
  BY <1>1, <1>10, <1>14, <1>15, <1>16, <1>17, <1>18, <1>19, <1>20 DEF StepsInv

-----------------------------------------------------------------------------
(* A turn of speculative decoding on the forward of glm.                     *)

\* What the model says behind a history is of the vocabulary.
LEMMA NextIn ==
    ASSUME Steps!GlmForwardAssumption, NEW h \in Seq(Vocab), Len(h) <= Held
    PROVE  Best(h) \in Vocab
<1>1. Len(h) \in 0..Held /\ h \in [1..Len(h) -> Vocab]
  BY GlmForwardBounds
<1>. QED
  BY <1>1 DEF Steps!GlmForwardAssumption

LEMMA SaysIs ==
    ASSUME Steps!GlmForwardAssumption, NEW h \in Seq(Vocab), NEW n \in Nat, Len(h) + n <= Held
    PROVE  Steps!Says(h, n) \in Seq(Vocab) /\ Len(Steps!Says(h, n)) = n
<1>. DEFINE Step(r) == Append(r, Best(r))
            After[i \in 0..n] == IF i = 0 THEN h ELSE Step(After[i - 1])
            Good(r, i) == r \in Seq(Vocab) /\ Len(r) = Len(h) + i
<1>1. n \in Nat /\ Len(h) \in Nat
  OBVIOUS
<1>4. Steps!Says(h, n) = SubSeq(After[n], Len(h) + 1, Len(h) + n)
  BY DEF Steps!Says
<1>5. After = CHOOSE d : d = [i \in 0..n |-> IF i = 0 THEN h ELSE Step(d[i - 1])]
  OBVIOUS
<1>6. Good(h, 0)
  OBVIOUS
<1>7. ASSUME NEW i \in 1..n, NEW r, Good(r, i - 1) PROVE Good(Step(r), i)
  <2>1. r \in Seq(Vocab) /\ Len(r) = Len(h) + (i - 1) /\ Len(h) + (i - 1) <= Held
    BY <1>1, <1>7, GlmForwardBounds
  <2>2. Best(r) \in Vocab
    BY <2>1, NextIn
  <2>. DEFINE t == Best(r)
  <2>. HIDE DEF t
  <2>3. t \in Vocab
    BY <2>2 DEF t
  <2>4. Append(r, t) \in Seq(Vocab) /\ Len(Append(r, t)) = Len(r) + 1
    BY <2>1, <2>3, AppendProperties
  <2>. QED
    BY <1>1, <2>1, <2>4 DEF t
<1>. HIDE DEF Step, After, Good
<1>. DEFINE IsAfter(d, m) == /\ d = [i \in 0..m |-> d[i]] /\ d[0] = h
                             /\ \A i \in 1..m : d[i] = Step(d[i - 1])
            Bad == {m \in 0..n : \A d : ~IsAfter(d, m)}
<1>8. Bad = {}
  <2>1. SUFFICES ASSUME Bad # {} PROVE FALSE
    OBVIOUS
  <2>2. PICK m \in Bad : \A kk \in Bad : m <= kk
    <3>1. Bad \in SUBSET Nat
      BY <1>1
    <3>. HIDE DEF Bad
    <3>. QED
      BY <2>1, <3>1, LeastOf
  <2>3. m \in 0..n /\ \A d : ~IsAfter(d, m)
    BY <2>2
  <2>4. m # 0
    <3>1. IsAfter([i \in 0..0 |-> h], 0)
      OBVIOUS
    <3>. QED
      BY <2>3, <3>1, Zenon
  <2>5. m \in 1..n /\ m - 1 \in 0..n /\ m - 1 \in 0..m - 1 /\ ~(m <= m - 1)
    BY <1>1, <2>3, <2>4
  <2>6. PICK d : IsAfter(d, m - 1)
    <3>1. m - 1 \notin Bad
      BY <2>2, <2>5
    <3>. QED
      BY <2>5, <3>1
  <2>. DEFINE e == [i \in 0..m |-> IF i = m THEN Step(d[m - 1]) ELSE d[i]]
  <2>7. e = [i \in 0..m |-> e[i]] /\ e[0] = h /\ \A i \in 1..m : e[i] = Step(e[i - 1])
    <3>1. e[0] = h
      BY <2>5, <2>6
    <3>2. ASSUME NEW i \in 1..m PROVE e[i] = Step(e[i - 1])
      <4>1. i \in 0..m /\ i - 1 \in 0..m /\ i - 1 # m /\ (i # m => i \in 1..m - 1)
        BY <2>5
      <4>2. e[i - 1] = d[i - 1]
        BY <4>1
      <4>. QED
        BY <2>6, <4>1, <4>2, Zenon
    <3>3. e = [i \in 0..m |-> e[i]]
      OBVIOUS
    <3>. HIDE DEF e
    <3>. QED
      BY <3>1, <3>2, <3>3, Zenon
  <2>. HIDE DEF e
  <2>. QED
    BY <2>3, <2>7, Zenon
<1>9. PICK d : IsAfter(d, n)
  <2>1. n \in 0..n
    BY <1>1
  <2>. QED
    BY <1>8, <2>1
<1>10. d = [i \in 0..n |-> IF i = 0 THEN h ELSE Step(d[i - 1])]
  <2>1. \A i \in 0..n : d[i] = IF i = 0 THEN h ELSE Step(d[i - 1])
    <3>1. \A i \in 0..n : i = 0 \/ i \in 1..n
      BY <1>1
    <3>. QED
      BY <1>1, <1>9, <3>1, Zenon
  <2>2. d = [i \in 0..n |-> d[i]]
    BY <1>9
  <2>. QED
    BY <2>1, <2>2, Zenon
<1>11. After = [i \in 0..n |-> IF i = 0 THEN h ELSE Step(After[i - 1])]
  BY <1>5, <1>10, ZenonT(60)
<1>12. \A i \in 0..n : Good(After[i], i)
  <2>. DEFINE Off == {i \in 0..n : ~Good(After[i], i)}
  <2>1. SUFFICES ASSUME Off # {} PROVE FALSE
    OBVIOUS
  <2>2. PICK m \in Off : \A kk \in Off : m <= kk
    <3>1. Off \in SUBSET Nat
      BY <1>1
    <3>. HIDE DEF Off
    <3>. QED
      BY <2>1, <3>1, LeastOf
  <2>3. m \in 0..n /\ ~Good(After[m], m)
    BY <2>2
  <2>4. m # 0
    <3>1. 0 \in 0..n
      BY <1>1
    <3>2. After[0] = h
      BY <1>11, <3>1
    <3>. QED
      BY <1>6, <2>3, <3>2
  <2>5. m \in 1..n /\ m - 1 \in 0..n /\ ~(m <= m - 1)
    BY <1>1, <2>3, <2>4
  <2>6. Good(After[m - 1], m - 1)
    BY <2>2, <2>5
  <2>7. After[m] = Step(After[m - 1])
    BY <1>11, <2>3, <2>4
  <2>. QED
    BY <1>7, <2>3, <2>5, <2>6, <2>7
<1>13. Good(After[n], n)
  <2>1. n \in 0..n
    BY <1>1
  <2>. QED
    BY <1>12, <2>1
<1>14. LET z == SubSeq(After[n], Len(h) + 1, Len(h) + n)
       IN  z \in Seq(Vocab) /\ Len(z) = n
  <2>. DEFINE y == After[n]
              z == SubSeq(y, Len(h) + 1, Len(y))
  <2>1. y \in Seq(Vocab) /\ Len(y) = Len(h) + n /\ Len(h) \in 0..Len(y) /\ Len(y) - Len(h) = n
    BY <1>1, <1>13 DEF Good
  <2>. HIDE DEF y
  <2>2. z \in Seq(Vocab) /\ Len(z) = n
    BY <2>1, TailOf, Zenon
  <2>. HIDE DEF z
  <2>. QED
    BY <2>1, <2>2 DEF z, y
<1>. QED
  BY <1>4, <1>14

LEMMA GuessedIs ==
    ASSUME Steps!GlmForwardAssumption, NEW h \in Seq(Vocab), NEW m \in Nat, NEW n \in 0..m,
           Len(h) + m <= Held
    PROVE  Steps!Guessed(h, m, n) \in Seq(Vocab) /\ Len(Steps!Guessed(h, m, n)) = m
<1>. DEFINE y == Steps!Says(h, n)
            u == CHOOSE t \in Letters : t # Best(h \o y)
            z == Steps!Guessed(h, m, n)
<1>1. z = [j \in 1..m |-> IF j <= n THEN y[j] ELSE u]
  BY DEF Steps!Guessed
<1>2. y \in Seq(Vocab) /\ Len(y) = n
  <2>1. n \in Nat /\ Len(h) + n <= Held
    BY GlmForwardBounds
  <2>. QED
    BY <2>1, SaysIs
<1>3. u \in Vocab
  <2>1. Letters \subseteq Vocab /\ \E a, b \in Letters : a # b
    BY DEF Steps!GlmForwardAssumption
  <2>2. \E t \in Letters : t # Best(h \o y)
    BY <2>1
  <2>. HIDE DEF y
  <2>3. u \in Letters
    BY <2>2, Zenon
  <2>. QED
    BY <2>1, <2>3
<1>. HIDE DEF y, u, z
<1>4. \A j \in 1..m : (IF j <= n THEN y[j] ELSE u) \in Vocab
  BY <1>2, <1>3
<1>5. z \in [1..m -> Vocab]
  BY <1>1, <1>4
<1>6. z \in Seq(Vocab) /\ Len(z) = m
  BY <1>5
<1>. QED
  BY <1>6 DEF z


\* The rows of the head behind a turn: the drafts' over the old ones, the
\* verified pairs over both.
Turn_(w, m, n, next, x, ds, head, out_, f, st) ==
  /\ w \in Seq(Nat) /\ m \in Nat /\ m >= 1 /\ n \in Nat /\ m + 1 + n <= Len(w) /\ Len(w) <= Held
  /\ net.slots = 1 /\ told[1] = Steps!Begin(w, m) /\ Len(told[1]) = m /\ hidden = told[1]
  /\ next = w[m + 1] /\ Len(ds) = n
  /\ \A s \in 1..n : x[s] = Steps!Begin(w, m + s) /\ ds[s] = w[m + s + 1]
  /\ (head => Steps!DraftsOf > 0) /\ (net.plain /\ Steps!DraftsOf > 0 => head)
  /\ (n >= 1 => DraftK > 0)
  /\ out_ = IF head THEN Steps!Drafted(caches[1][HeadAt], hidden, next, m) ELSE caches[1][HeadAt]
  /\ f = IF net.mtp /\ n >= 1 THEN Steps!AbsorbedPairs(out_, x, ds, m) ELSE out_
  /\ st = IF head THEN Steps!StartAt(start, m - 1)
          ELSE IF net.mtp /\ n >= 1 THEN Steps!StartAt(start, m) ELSE start

Turned_(w, m, n, f, st) ==
  /\ DOMAIN f = 1..Held /\ st \in -1..Held - 1
  /\ (st >= 0 => net.slots = 1 /\ net.mtp /\ DraftK > 0)
  /\ net.plain /\ st >= 0 =>
       \A t \in st + 1..m + n : f[t] = Steps!Row(Steps!Begin(w, t + 1), HeadAt, "v")

LEMMA TurnIs ==
    ASSUME StepsInv, NEW w, NEW m, NEW n, NEW next, NEW x, NEW ds, NEW head, NEW out_, NEW f, NEW st,
           Turn_(w, m, n, next, x, ds, head, out_, f, st)
    PROVE  Turned_(w, m, n, f, st)
<1>h. /\ w \in Seq(Nat) /\ m \in Nat /\ m >= 1 /\ n \in Nat /\ m + 1 + n <= Len(w) /\ Len(w) <= Held
      /\ net.slots = 1 /\ told[1] = Steps!Begin(w, m) /\ Len(told[1]) = m /\ hidden = told[1]
      /\ next = w[m + 1] /\ Len(ds) = n
      /\ \A s \in 1..n : x[s] = Steps!Begin(w, m + s) /\ ds[s] = w[m + s + 1]
      /\ (head => Steps!DraftsOf > 0) /\ (net.plain /\ Steps!DraftsOf > 0 => head)
      /\ (n >= 1 => DraftK > 0)
      /\ out_ = IF head THEN Steps!Drafted(caches[1][HeadAt], hidden, next, m) ELSE caches[1][HeadAt]
      /\ f = IF net.mtp /\ n >= 1 THEN Steps!AbsorbedPairs(out_, x, ds, m) ELSE out_
      /\ st = IF head THEN Steps!StartAt(start, m - 1)
              ELSE IF net.mtp /\ n >= 1 THEN Steps!StartAt(start, m) ELSE start
  BY Zenon DEF Turn_
<1>. USE <1>h
<1>. DEFINE old == caches[1][HeadAt]
            a == told[1]
            D == Steps!Drafted(old, hidden, next, m)
            P == Steps!AbsorbedPairs(out_, x, ds, m)
<1>1. /\ Held \in Nat /\ DraftK \in Nat /\ HeadAt \in 1..HeadAt /\ HeadAt = Steps!Head1 /\ 1 \in Unit
      /\ start \in -1..Held - 1 /\ (start >= 0 => net.slots = 1 /\ net.mtp /\ DraftK > 0)
      /\ Steps!RowsTrue /\ RowsAt(caches, 1..HeadAt, told, Lens(told), 0)
  BY StepsTypes, Zenon DEF StepsInv
<1>a. Held \in Nat /\ start \in -1..Held - 1
  BY <1>1
<1>n. m \in Nat /\ n \in Nat /\ m >= 1 /\ m + n <= Held
  <2>. DEFINE lw == Len(w)
  <2>1. /\ m \in Nat /\ m >= 1 /\ n \in Nat /\ m + 1 + n <= lw /\ lw <= Held
        /\ lw \in Nat /\ Held \in Nat
    BY <1>h, <1>a, LenProperties, Zenon
  <2>. HIDE <1>h DEF lw
  <2>. QED
    BY <2>1
<1>2. DOMAIN old = 1..Held
  BY <1>1 DEF RowsAt
<1>3. m \in 1..Held - 1 /\ m \in 0..Len(w) /\ m - 1 \in 0..Held - 1 /\ m \in 0..Held - 1 /\ Len(w) \in Nat
  <2>. DEFINE lw == Len(w)
  <2>1. /\ m \in Nat /\ m >= 1 /\ n \in Nat /\ m + 1 + n <= lw /\ lw <= Held
        /\ lw \in Nat /\ Held \in Nat
    BY <1>h, <1>a, LenProperties, Zenon
  <2>. HIDE <1>h DEF lw
  <2>2. m \in 1..Held - 1 /\ m \in 0..lw /\ m - 1 \in 0..Held - 1 /\ m \in 0..Held - 1
    BY <2>1
  <2>. QED
    BY <2>1, <2>2, Zenon DEF lw
<1>4. D = [t \in 1..Held |-> IF t = m THEN Steps!Row(Append(hidden, next), HeadAt, "v")
                            ELSE IF t \in m + 1..m + Steps!DraftsOf - 1
                                 THEN Steps!Row(Steps!Wrong, HeadAt, "v") ELSE old[t]]
  BY <1>1 DEF Steps!Drafted
<1>5. Append(hidden, next) = Steps!Begin(w, m + 1)
  <2>1. m \in 0..Len(w) /\ m < Len(w)
    BY <1>3
  <2>2. Steps!Begin(w, m + 1) = Append(Steps!Begin(w, m), w[m + 1])
    BY <2>1, HeadGrows, Zenon DEF Steps!Begin
  <2>. QED
    BY <2>2
<1>. HIDE DEF D, P
<1>6. DOMAIN D = 1..Held /\ D[m] = Steps!Row(Steps!Begin(w, m + 1), HeadAt, "v")
      /\ \A t \in 1..Held : t < m => D[t] = old[t]
  <2>1. Steps!DraftsOf \in Nat
    BY <1>1 DEF Steps!DraftsOf
  <2>2. \A t \in 1..Held : t < m => t # m /\ ~(t \in m + 1..m + Steps!DraftsOf - 1)
    BY <1>a, <1>3, <2>1
  <2>3. m \in 1..Held
    BY <1>a, <1>3
  <2>. QED
    BY <1>4, <1>5, <2>2, <2>3
<1>7. DOMAIN out_ = 1..Held
  BY <1>2, <1>6 DEF D
<1>8. Paired(w, m, x, ds, out_)
  BY <1>1, PairsAre, ZenonT(60)
<1>9. /\ DOMAIN P = 1..Held
      /\ \A t \in m + 1..m + n : P[t] = Steps!Row(Steps!Begin(w, t + 1), HeadAt, "v")
      /\ \A t \in 1..Held : t <= m => P[t] = out_[t]
  BY <1>8 DEF Paired, P
<1>10. DOMAIN f = 1..Held
  BY <1>7, <1>9 DEF P
<1>11. /\ Steps!StartAt(start, m - 1) \in 0..m - 1
       /\ Steps!StartAt(start, m) \in 0..m
  BY <1>1, <1>3, NeverAhead, Zenon
<1>12. head => net.mtp /\ DraftK > 0
  BY <1>1 DEF Steps!DraftsOf
<1>13. st \in -1..Held - 1 /\ (st >= 0 => net.slots = 1 /\ net.mtp /\ DraftK > 0)
  <2>1. CASE head
    <3>1. st = Steps!StartAt(start, m - 1)
      BY <2>1
    <3>2. st \in -1..Held - 1
      <4>. DEFINE y == Steps!StartAt(start, m - 1)
      <4>1. y \in 0..m - 1
        BY <1>11
      <4>. HIDE DEF y
      <4>2. y \in -1..Held - 1
        BY <1>a, <1>3, <4>1
      <4>. QED
        BY <3>1, <4>2 DEF y
    <3>. QED
      BY <1>12, <2>1, <3>2, Zenon
  <2>2. CASE ~head /\ net.mtp /\ n >= 1
    <3>1. st = Steps!StartAt(start, m)
      BY <2>2
    <3>2. st \in -1..Held - 1
      <4>. DEFINE y == Steps!StartAt(start, m)
      <4>1. y \in 0..m
        BY <1>11
      <4>. HIDE DEF y
      <4>2. y \in -1..Held - 1
        BY <1>a, <1>3, <4>1
      <4>. QED
        BY <3>1, <4>2 DEF y
    <3>. QED
      BY <2>2, <3>2, Zenon
  <2>3. CASE ~head /\ ~(net.mtp /\ n >= 1)
    BY <1>1, <2>3, Zenon
  <2>. QED
    BY <2>1, <2>2, <2>3
<1>14. ASSUME net.plain, st >= 0, NEW t \in st + 1..m + n
       PROVE  f[t] = Steps!Row(Steps!Begin(w, t + 1), HeadAt, "v")
  <2>1. head
    <3>1. net.slots = 1 /\ net.mtp /\ DraftK > 0
      BY <1>13, <1>14, Zenon
    <3>2. Steps!DraftsOf > 0
      BY <3>1 DEF Steps!DraftsOf
    <3>. QED
      BY <1>h, <1>14, <3>2, Zenon
  <2>a. net.mtp
    BY <1>12, <2>1
  <2>2. out_ = D /\ st = Steps!StartAt(start, m - 1)
    BY <2>1 DEF D
  <2>b. st \in -1..Held - 1 /\ st >= 0
    BY <1>13, <1>14, Zenon
  <2>c. f = IF n >= 1 THEN P ELSE out_
    BY <2>a DEF P
  <2>. HIDE <1>h
  <2>3. t \in Int /\ t >= st + 1 /\ t <= m + n /\ t >= 1 /\ t \in 1..Held
    <3>2. t \in st + 1..m + n
      OBVIOUS
    <3>. QED
      BY <1>a, <1>n, <2>b, <3>2, SMTT(60)
  <2>d. t \in 1..Held /\ (t = m \/ t < m => t <= m)
    BY <1>n, <2>3
  <2>e. \A i \in 1..Held : i <= m => P[i] = out_[i]
    BY <1>9, Zenon
  <2>4. CASE t > m
    <3>1. n >= 1 /\ t \in m + 1..m + n
      BY <1>n, <2>3, <2>4
    <3>. QED
      BY <1>9, <2>c, <3>1, Zenon
  <2>5. CASE t = m
    <3>1. P[t] = D[t] /\ out_[t] = D[t]
      BY <2>2, <2>d, <2>e, <2>5, Zenon
    <3>2. f[t] = D[t]
      BY <2>c, <3>1, Zenon
    <3>. QED
      BY <1>6, <2>5, <3>2
  <2>6. CASE t < m
    <3>1. P[t] = D[t] /\ out_[t] = D[t]
      BY <2>2, <2>d, <2>e, <2>6, Zenon
    <3>2. f[t] = D[t]
      BY <2>c, <3>1
    <3>3. D[t] = old[t]
      BY <1>6, <2>3, <2>6
    <3>4. st = start /\ start >= 0
      <4>1. start < 0 \/ start > m - 1 => st = m - 1
        BY <2>2, ZenonT(60) DEF Steps!StartAt
      <4>2. st # m - 1
        BY <1>n, <1>3, <2>b, <2>3, <2>6, SMTT(60)
      <4>. QED
        BY <2>2, <2>b, <4>1, <4>2, Zenon DEF Steps!StartAt
    <3>5. t \in start + 1..Len(told[1]) - 1
      <4>1. Len(told[1]) = m
        BY <1>h, Zenon
      <4>. QED
        BY <1>n, <2>3, <2>6, <3>4, <4>1
    <3>6. old[t] = Steps!Row(Steps!Begin(told[1], t + 1), HeadAt, "v")
      BY <1>1, <1>14, <3>4, <3>5 DEF Steps!RowsTrue
    <3>7. Steps!Begin(told[1], t + 1) = Steps!Begin(w, t + 1)
      <4>1. t + 1 \in 0..m
        BY <1>n, <2>3, <2>6
      <4>2. told[1] = Passes!Begin(w, m) /\ w \in Seq(Nat)
        BY <1>h, SameNames, Zenon
      <4>. QED
        BY <1>3, <4>1, <4>2, BeginBegin, SameNames
    <3>. QED
      BY <3>2, <3>3, <3>6, <3>7
  <2>. QED
    BY <1>n, <2>3, <2>4, <2>5, <2>6
<1>. QED
  BY <1>10, <1>13, <1>14 DEF Turned_

\* A turn of spec_decode.
LEMMA VerifyTurn ==
    ASSUME StepsInv, NEW next \in Vocab, NEW d \in Seq(Vocab), Len(d) <= DraftK, NEW n \in 0..Len(d), NEW head,
           Steps!Verify(next, d, n, head)
    PROVE  StepsInv'
<1>. DEFINE a == told[1]
            m == Len(a)
            ids == <<next>> \o d
            ds == Steps!Begin(d, n)
            x == Steps!Named(a, ids)
            g == Longer(told, 1, m, ids)
            b == Steps!Contiguous(1, m, Len(ids))
            r == Steps!Pass(x, b)
            w == g[1]
            v == (a \o <<next>>) \o ds
            out_ == IF head THEN Steps!Drafted(caches[1][HeadAt], hidden, next, m) ELSE caches[1][HeadAt]
            f == IF net.mtp /\ n >= 1 THEN Steps!AbsorbedPairs(out_, x, ds, m) ELSE out_
<1>1. /\ told \in [Unit -> Seq(Nat)] /\ \A c \in Unit : Len(told[c]) \in Nat /\ Len(told[c]) <= Held
      /\ Held \in Nat /\ DraftK \in Nat /\ 1 \in Unit /\ HeadAt = Steps!Head1
      /\ HeadAt \in 1..HeadAt /\ ~(HeadAt <= net.layers)
      /\ 1..HeadAt \subseteq Nat \ {0} /\ KeyLayers \subseteq Nat \ {0}
  BY StepsTypes
<1>2. /\ Vocab \subseteq Nat /\ told \in [Unit -> Seq(Vocab)] /\ DOMAIN scores = Unit
      /\ Steps!LogitsTrue /\ bound \in Unit /\ asked \in 0..MaxFed
  BY GlmForwardBounds DEF StepsInv
<1>3. /\ ids \in Seq(Nat) /\ ids \in Seq(Vocab) /\ Len(ids) = 1 + Len(d) /\ d \in Seq(Nat) /\ Len(d) \in Nat
      /\ <<next>> \in Seq(Nat) /\ Len(<<next>>) = 1 /\ n \in Nat /\ next \in Nat /\ ids[1] = next
      /\ \A s \in 1..Len(d) : ids[1 + s] = d[s]
  <2>. DEFINE one == <<next>>
  <2>1. one \in Seq(Vocab) /\ Len(one) = 1 /\ one[1] = next
    OBVIOUS
  <2>2. d \in Seq(Nat) /\ one \in Seq(Nat) /\ Len(d) \in Nat
    <3>1. d \in Seq(Nat)
      BY <1>2, SeqMonotonic, Zenon
    <3>2. one \in Seq(Nat)
      BY <1>2
    <3>. QED
      BY <3>1, <3>2
  <2>. HIDE DEF one
  <2>3. /\ ids \in Seq(Vocab) /\ Len(ids) = Len(one) + Len(d)
        /\ \A i \in 1..Len(one) + Len(d) : ids[i] = IF i <= Len(one) THEN one[i] ELSE d[i - Len(one)]
    BY <2>1, ConcatProperties DEF one
  <2>. HIDE DEF ids
  <2>4. ids \in Seq(Nat)
    BY <1>2, <2>3, SeqMonotonic
  <2>5. ids[1] = next
    BY <2>1, <2>2, <2>3
  <2>6. ASSUME NEW s \in 1..Len(d) PROVE ids[1 + s] = d[s]
    <3>1. 1 + s \in 1..Len(one) + Len(d) /\ ~(1 + s <= Len(one)) /\ 1 + s - Len(one) = s
      BY <2>1, <2>2
    <3>. QED
      BY <2>3, <3>1
  <2>7. n \in Nat /\ next \in Nat
    BY <1>2, <2>2
  <2>. QED
    BY <2>1, <2>2, <2>3, <2>4, <2>5, <2>6, <2>7 DEF one
<1>s. m \in Nat /\ n \in Nat /\ Len(d) \in Nat /\ n <= Len(d) /\ Len(ids) = 1 + Len(d) /\ Held \in Nat
  BY <1>1, <1>3
<1>a. m = Len(a) /\ m = Len(told[1])
  OBVIOUS
<1>4. /\ net.slots = 1 /\ scores[1] # << >>
      /\ m + 1 + Len(d) + Steps!DraftsOf + 2 <= Held
      /\ (head => Steps!DraftsOf > 0)
      /\ (net.plain /\ Steps!DraftsOf > 0 => head)
      /\ bound' = bound /\ told' = [told EXCEPT ![1] = v]
  BY DEF Steps!Verify
<1>5. m \in Nat /\ m \in 0..Len(told[1]) /\ m + Len(ids) <= Held /\ ids # << >> /\ Steps!DraftsOf \in Nat
  <2>1. Steps!DraftsOf \in Nat
    BY <1>1 DEF Steps!DraftsOf
  <2>2. m \in Nat /\ m \in 0..Len(told[1])
    BY <1>1
  <2>3. ids # << >>
    <3>. HIDE DEF ids
    <3>. QED
      BY <1>3, EmptySeq
  <2>. HIDE DEF ids, m
  <2>4. m + Len(ids) <= Held
    BY <1>4, <1>s, <2>1
  <2>. QED
    BY <2>1, <2>2, <2>3, <2>4
<1>6. a \in Seq(Nat) /\ Steps!Begin(told[1], m) = a
  <2>1. a \in Seq(Nat)
    BY <1>1
  <2>. QED
    BY <2>1, WholeHead, Zenon DEF Steps!Begin
<1>b. m + Len(ids) <= Held
  BY <1>5, Zenon
<1>. HIDE DEF ids, m
<1>7. /\ Sent(b, x, g, Shares(told, 1, m))
      /\ Len(x) = Len(ids) /\ a \o ids \in Seq(Nat) /\ Len(a \o ids) = m + Len(ids)
      /\ g \in [Unit -> Seq(Nat)] /\ w = a \o ids /\ \A c \in Unit : c # 1 => g[c] = told[c]
      /\ \A s \in 1..Len(ids) : x[s] = Steps!Begin(w, m + s)
      /\ \A c \in Unit : /\ Shares(told, 1, m)[c] \in 0..Len(told[c])
                         /\ \A t \in 1..Shares(told, 1, m)[c] : Steps!Begin(g[c], t) = Steps!Begin(told[c], t)
  <2>1. OneBlock(told, 1, m, ids)
    BY <1>1, <1>3, <1>5, OneSent, Zenon
  <2>. QED
    BY <1>6, <2>1, Zenon DEF OneBlock
<1>w. w = a \o ids /\ Len(w) = m + Len(ids) /\ w \in Seq(Nat) /\ w = g[1]
  BY <1>7, Zenon
<1>8. /\ caches' = [r.kv EXCEPT ![1][Steps!Head1] =
                      IF net.mtp /\ n >= 1 THEN Steps!AbsorbedPairs(out_, r.x, ds, m) ELSE out_]
      /\ start' = IF head THEN Steps!StartAt(start, m - 1)
                  ELSE IF net.mtp /\ n >= 1 THEN Steps!StartAt(start, m) ELSE start
      /\ keys' = r.keys /\ sel' = r.sel
      /\ hidden' = r.x[n + 1]
      /\ scores' = [scores EXCEPT ![1] = r.x[n + 1]]
      /\ net' = net /\ asked' = asked
  <2>1. b = Steps!Contiguous(1, m, 1 + Len(d))
    BY <1>3
  <2>. QED
    BY <1>1, <2>1 DEF Steps!Verify, ids, m
<1>. HIDE DEF x, b, g, w
<1>9. /\ r.x = x /\ Len(r.sel) \in Nat
      /\ RowsAt(r.kv, 1..HeadAt, g, Lens(g), 0)
      /\ RowsAt(r.keys, KeyLayers, g, Lens(g), 0)
      /\ \A c \in Unit : r.kv[c][HeadAt] = caches[c][HeadAt]
  BY <1>7, Forwarded
<1>. HIDE DEF r
<1>10. /\ v = Steps!Begin(w, m + (1 + n)) /\ v \in Seq(Nat) /\ v \in Seq(Vocab) /\ Len(v) = m + (1 + n)
       /\ \A t \in 1..m + (1 + n) : Steps!Begin(v, t) = Steps!Begin(w, t)
       /\ m + (1 + n) <= Len(w) /\ w \in Seq(Nat)
  <2>1. ds \in Seq(Vocab) /\ ds \in Seq(Nat) /\ Len(ds) = n /\ \A s \in 1..n : ds[s] = d[s]
    <3>1. ds \in Seq(Vocab) /\ Len(ds) = n /\ \A s \in 1..n : ds[s] = d[s]
      BY HeadOf, Zenon DEF Steps!Begin
    <3>. HIDE DEF ds
    <3>. QED
      BY <1>2, <3>1, SeqMonotonic, Zenon
  <2>2. <<next>> \o ds = Steps!Begin(ids, 1 + n)
    <3>1. \A s \in 0..Len(d) : <<next>> \o Steps!Begin(d, s) = Steps!Begin(<<next>> \o d, Len(<<next>>) + s)
      BY <1>3, JoinedIs, ZenonT(60)
    <3>. QED
      BY <1>3, <3>1, Zenon DEF ids
  <2>3. v = a \o Steps!Begin(ids, 1 + n)
    <3>. DEFINE one == <<next>>
    <3>1. one \in Seq(Nat)
      BY <1>3
    <3>. HIDE DEF one, ds, a
    <3>2. (a \o one) \o ds = a \o (one \o ds)
      BY <1>6, <2>1, <3>1, ConcatAssociative, SMTT(60)
    <3>. QED
      BY <2>2, <3>2, Zenon DEF one
  <2>4. 1 + n \in 0..Len(ids)
    BY <1>s
  <2>5. v = Steps!Begin(a \o ids, m + (1 + n))
    <3>1. \A s \in 0..Len(ids) : a \o Steps!Begin(ids, s) = Steps!Begin(a \o ids, Len(a) + s)
      <4>. HIDE DEF a
      <4>. QED
        BY <1>3, <1>6, JoinedIs, ZenonT(60)
    <3>. QED
      BY <1>a, <2>3, <2>4, <3>1, Zenon
  <2>6. w = a \o ids /\ w \in Seq(Nat) /\ Len(w) = m + Len(ids)
    BY <1>w
  <2>7. m + (1 + n) \in 0..Len(w) /\ m + (1 + n) <= Len(w)
    BY <1>s, <1>w
  <2>8. v = Steps!Begin(w, m + (1 + n))
    BY <2>5, <2>6, Zenon
  <2>. HIDE DEF v
  <2>9. v \in Seq(Nat) /\ Len(v) = m + (1 + n)
    BY <2>6, <2>7, <2>8, BeginIs, SameNames, ZenonT(60)
  <2>10. \A t \in 1..m + (1 + n) : Steps!Begin(v, t) = Steps!Begin(w, t)
    <3>1. \A t \in 1..m + (1 + n) : t \in 0..m + (1 + n)
      OBVIOUS
    <3>. QED
      BY <2>6, <2>7, <2>8, <3>1, BeginBegin, SameNames, Zenon
  <2>11. v \in Seq(Vocab)
    <3>. DEFINE one == <<next>>
    <3>1. one \in Seq(Vocab) /\ a \in Seq(Vocab)
      BY <1>1, <1>2
    <3>. HIDE DEF one, ds, a
    <3>2. (a \o one) \o ds \in Seq(Vocab)
      <4>1. a \o one \in Seq(Vocab)
        BY <3>1, ConcatProperties
      <4>. QED
        BY <2>1, <4>1, ConcatProperties
    <3>. QED
      BY <3>2 DEF one, v
  <2>. QED
    BY <2>6, <2>7, <2>8, <2>9, <2>10, <2>11
<1>11. told' \in [Unit -> Seq(Vocab)] /\ told'[1] = v /\ \A c \in Unit : c # 1 => told'[c] = told[c]
  <2>. HIDE DEF v
  <2>. QED
    BY <1>1, <1>2, <1>4, <1>10
<1>12. ASSUME NEW c \in Unit
       PROVE  /\ Len(told'[c]) <= Held /\ Len(g[c]) \in Nat /\ Len(told'[c]) \in 0..Len(g[c])
              /\ \A t \in 1..Len(told'[c]) : Steps!Begin(told'[c], t) = Steps!Begin(g[c], t)
  <2>1. Len(w) \in Nat /\ Len(w) <= Held
    BY <1>b, <1>s, <1>w
  <2>2. CASE c = 1
    <3>. HIDE DEF v
    <3>1. told'[c] = v /\ g[c] = w
      BY <1>11, <1>w, <2>2
    <3>2. Len(v) = m + (1 + n) /\ m + (1 + n) <= Len(w) /\ \A t \in 1..m + (1 + n) : Steps!Begin(v, t) = Steps!Begin(w, t)
      BY <1>10
    <3>3. Len(v) <= Held /\ Len(v) \in 0..Len(w)
      BY <1>s, <2>1, <3>2
    <3>. QED
      BY <2>1, <3>1, <3>2, <3>3
  <2>3. CASE c # 1
    BY <1>1, <1>7, <1>11, <2>3
  <2>. QED
    BY <2>2, <2>3
<1>13. scores[1] = told[1] /\ hidden = told[1] /\ m >= 1
  <2>1. scores[1] = told[1] /\ hidden = told[1] /\ told[1] # << >>
    BY <1>1, <1>2, <1>4 DEF Steps!LogitsTrue, Unit
  <2>. QED
    BY <1>1, <1>a, <2>1, EmptySeq
<1>14. /\ DOMAIN f = 1..Held /\ start' \in -1..Held - 1
       /\ (start' >= 0 => net.slots = 1 /\ net.mtp /\ DraftK > 0)
       /\ net.plain /\ start' >= 0 =>
            \A t \in start' + 1..m + n : f[t] = Steps!Row(Steps!Begin(w, t + 1), HeadAt, "v")
  <2>. DEFINE st == start'
  <2>1. st = IF head THEN Steps!StartAt(start, m - 1)
             ELSE IF net.mtp /\ n >= 1 THEN Steps!StartAt(start, m) ELSE start
    BY <1>8
  <2>2. m + 1 + n <= Len(w) /\ Len(w) <= Held /\ w \in Seq(Nat)
    BY <1>b, <1>s, <1>w
  <2>3. told[1] = Steps!Begin(w, m) /\ next = w[m + 1]
    <3>1. Steps!Begin(a \o ids, Len(a)) = a
      <4>. HIDE DEF a
      <4>. QED
        BY <1>3, <1>6, JoinedIs
    <3>2. (a \o ids)[m + 1] = next
      <4>. DEFINE k0 == m + 1
      <4>a. k0 \in 1..m + Len(ids) /\ ~(k0 <= m) /\ k0 - m = 1
        BY <1>s
      <4>. HIDE DEF k0, a
      <4>1. k0 \in 1..Len(a) + Len(ids) /\ ~(k0 <= Len(a)) /\ k0 - Len(a) = 1
        BY <1>a, <4>a
      <4>2. (a \o ids)[k0] = ids[k0 - Len(a)]
        BY <1>3, <1>6, <4>1, ConcatProperties
      <4>. QED
        BY <1>3, <4>1, <4>2 DEF k0, a
    <3>. QED
      BY <1>a, <1>w, <3>1, <3>2
  <2>4. Len(ds) = n /\ \A s \in 1..n : x[s] = Steps!Begin(w, m + s) /\ ds[s] = w[m + s + 1]
    <3>1. Len(ds) = n /\ \A s \in 1..n : ds[s] = d[s]
      BY HeadOf, Zenon DEF Steps!Begin
    <3>2. ASSUME NEW s \in 1..n PROVE x[s] = Steps!Begin(w, m + s) /\ ds[s] = w[m + s + 1]
      <4>1. s \in 1..Len(ids) /\ s \in 1..Len(d) /\ m + s + 1 = m + (1 + s)
        BY <1>s
      <4>2. (a \o ids)[m + (1 + s)] = ids[1 + s]
        <5>. DEFINE k0 == m + (1 + s)
        <5>a. k0 \in 1..m + Len(ids) /\ ~(k0 <= m) /\ k0 - m = 1 + s
          BY <1>s, <4>1
        <5>. HIDE DEF k0, a
        <5>1. k0 \in 1..Len(a) + Len(ids) /\ ~(k0 <= Len(a)) /\ k0 - Len(a) = 1 + s
          BY <1>a, <5>a, Zenon
        <5>2. (a \o ids)[k0] = ids[k0 - Len(a)]
          BY <1>3, <1>6, <5>1, ConcatProperties
        <5>. QED
          BY <5>1, <5>2 DEF k0, a
      <4>. QED
        BY <1>3, <1>7, <1>w, <3>1, <4>1, <4>2, Zenon
    <3>. QED
      BY <3>1, <3>2
  <2>5. n >= 1 => DraftK > 0
    BY <1>1, <1>3
  <2>6. out_ = IF head THEN Steps!Drafted(caches[1][HeadAt], hidden, next, m) ELSE caches[1][HeadAt]
    OBVIOUS
  <2>7. f = IF net.mtp /\ n >= 1 THEN Steps!AbsorbedPairs(out_, x, ds, m) ELSE out_
    OBVIOUS
  <2>8. m \in Nat /\ m >= 1 /\ n \in Nat /\ net.slots = 1 /\ Len(told[1]) = m /\ hidden = told[1]
        /\ (head => Steps!DraftsOf > 0) /\ (net.plain /\ Steps!DraftsOf > 0 => head)
    BY <1>a, <1>s, <1>4, <1>13
  <2>. HIDE DEF st, out_, f, ds
  <2>9. /\ DOMAIN f = 1..Held /\ st \in -1..Held - 1
        /\ (st >= 0 => net.slots = 1 /\ net.mtp /\ DraftK > 0)
        /\ net.plain /\ st >= 0 =>
             \A t \in st + 1..m + n : f[t] = Steps!Row(Steps!Begin(w, t + 1), HeadAt, "v")
    <3>1. Turn_(w, m, n, next, x, ds, head, out_, f, st)
      BY <2>1, <2>2, <2>3, <2>4, <2>5, <2>6, <2>7, <2>8, Zenon DEF Turn_
    <3>2. Turned_(w, m, n, f, st)
      BY <3>1, TurnIs, Zenon
    <3>. QED
      BY <3>2, Zenon DEF Turned_
  <2>. QED
    BY <2>9, Zenon DEF st
<1>15. /\ RowsAt(caches', 1..HeadAt, g, Lens(g), 0) /\ caches'[1][HeadAt] = f
  <2>. DEFINE k0 == r.kv
  <2>1. RowsAt(k0, 1..HeadAt, g, Lens(g), 0) /\ DOMAIN f = 1..Held /\ caches' = HeadRows(k0, 1, f)
    <3>. DEFINE f0 == IF net.mtp /\ n >= 1 THEN Steps!AbsorbedPairs(out_, r.x, ds, m) ELSE out_
    <3>1. f0 = f
      BY <1>9, Zenon
    <3>2. caches' = [k0 EXCEPT ![1][HeadAt] = f0]
      BY <1>1, <1>8
    <3>. HIDE DEF f0, f, k0
    <3>3. caches' = HeadRows(k0, 1, f)
      BY <3>1, <3>2 DEF HeadRows
    <3>. QED
      BY <1>9, <1>14, <3>3 DEF k0
  <2>. HIDE DEF f, k0
  <2>2. /\ RowsAt(HeadRows(k0, 1, f), 1..HeadAt, g, Lens(g), 0) /\ HeadRows(k0, 1, f)[1][HeadAt] = f
    <3>. DEFINE c0 == 1
                J0 == 1..HeadAt
    <3>1. c0 \in Unit /\ HeadAt \in J0 /\ ~(HeadAt <= net.layers)
      BY <1>1
    <3>2. RowsAt(k0, J0, g, Lens(g), 0) /\ DOMAIN f = 1..Held
      BY <2>1
    <3>. HIDE DEF c0, J0
    <3>3. RowsAt(HeadRows(k0, c0, f), J0, g, Lens(g), 0) /\ HeadRows(k0, c0, f)[c0][HeadAt] = f
      BY <3>1, <3>2, HeadPut
    <3>. QED
      BY <3>3 DEF c0, J0
  <2>. QED
    BY <2>1, <2>2
<1>16. /\ RowsAt(caches, 1..HeadAt, told, Lens(told), 0)'
       /\ RowsAt(keys, KeyLayers, told, Lens(told), 0)'
  <2>. DEFINE z == caches'
              u == keys'
              y == told'
  <2>0. \A c \in Unit : /\ Len(g[c]) \in Nat /\ Lens(y)[c] \in 0..Len(g[c])
                        /\ \A t \in 1..Lens(y)[c] : Steps!Begin(y[c], t) = Steps!Begin(g[c], t)
    BY <1>12 DEF Lens
  <2>1. RowsAt(z, 1..HeadAt, g, Lens(g), 0) /\ RowsAt(u, KeyLayers, g, Lens(g), 0)
    BY <1>8, <1>9, <1>15
  <2>. HIDE DEF z, u, y
  <2>2. RowsAt(z, 1..HeadAt, y, Lens(y), 0)
    BY <1>1, <2>0, <2>1, RowsFrom, Zenon
  <2>3. RowsAt(u, KeyLayers, y, Lens(y), 0)
    BY <1>1, <2>0, <2>1, RowsFrom, Zenon
  <2>. QED
    BY <1>8, <2>2, <2>3, RowsNext, Zenon DEF z, u, y
<1>17. Unit' = Unit
  BY <1>8 DEF Unit, Steps!Slots
<1>18. r.x[n + 1] = v
  <2>1. n + 1 \in 1..Len(ids) /\ m + (n + 1) = m + (1 + n)
    BY <1>s
  <2>. QED
    BY <1>7, <1>9, <1>10, <2>1, Zenon
<1>. HIDE DEF v
<1>19. Steps!LogitsTrue'
  <2>1. scores' = [scores EXCEPT ![1] = v] /\ hidden' = v
    BY <1>8, <1>18
  <2>2. scores'[1] = told'[1] /\ \A c \in Unit : c # 1 => scores'[c] = scores[c] /\ told'[c] = told[c]
    BY <1>1, <1>2, <1>11, <2>1
  <2>3. ASSUME NEW c \in Unit, scores'[c] # << >> PROVE scores'[c] = told'[c]
    BY <1>2, <2>2, <2>3 DEF Steps!LogitsTrue, Unit
  <2>4. hidden' = told'[1]
    BY <1>11, <2>1
  <2>. QED
    BY <1>8, <1>17, <2>3, <2>4 DEF Steps!LogitsTrue, Unit
<1>20. Steps!RowsTrue'
  <2>1. SUFFICES ASSUME net.plain, start' >= 0, NEW t \in start' + 1..Len(told'[1]) - 1
                 PROVE  caches'[1][HeadAt][t] = Steps!Row(Steps!Begin(told'[1], t + 1), HeadAt, "v")
    BY <1>1, <1>8, Zenon DEF Steps!RowsTrue, Steps!Head1
  <2>2. start' \in -1..Held - 1 /\ start' >= 0
    BY <1>14, <2>1, Zenon
  <2>3. Len(told'[1]) - 1 = m + n /\ m \in Nat /\ n \in Nat
    BY <1>s, <1>10, <1>11
  <2>4. t \in start' + 1..m + n /\ t + 1 \in 1..m + (1 + n)
    <3>1. t \in start' + 1..m + n
      BY <2>3
    <3>. DEFINE y == start'
    <3>a. y \in -1..Held - 1 /\ y >= 0
      BY <2>2
    <3>b. t \in y + 1..m + n
      BY <3>1
    <3>. HIDE DEF y
    <3>2. y \in Int /\ y >= 0 /\ t \in y + 1..m + n
      BY <1>s, <3>a, <3>b
    <3>3. t + 1 \in 1..m + (1 + n)
      BY <2>3, <3>2
    <3>. QED
      BY <3>1, <3>3
  <2>5. caches'[1][HeadAt][t] = f[t]
    BY <1>15
  <2>6. f[t] = Steps!Row(Steps!Begin(w, t + 1), HeadAt, "v")
    BY <1>14, <2>1, <2>4, Zenon
  <2>7. Steps!Begin(told'[1], t + 1) = Steps!Begin(w, t + 1)
    BY <1>10, <1>11, <2>4
  <2>. QED
    BY <2>5, <2>6, <2>7
<1>21. /\ bound' \in Unit /\ asked' \in 0..MaxFed /\ Len(sel') \in Nat /\ DOMAIN scores' = Unit
  BY <1>2, <1>4, <1>8, <1>9
<1>22. Steps!GlmForwardAssumption /\ net' \in {Steps!LoadedNet(f_) : f_ \in Models}
  BY <1>8 DEF StepsInv
<1>23. start' \in -1..Held - 1 /\ (start' >= 0 => net'.slots = 1 /\ net'.mtp /\ DraftK > 0)
  BY <1>8, <1>14
<1>. QED
  BY <1>11, <1>12, <1>16, <1>17, <1>19, <1>20, <1>21, <1>22, <1>23 DEF StepsInv

-----------------------------------------------------------------------------
(* A batch of several conversations, and the theorems of the forward passes. *)

\* The order of a batch numbers its conversations.
LEMMA OrderIs ==
    ASSUME NEW C, NEW N \in Nat, C \subseteq 1..N, C # {}, NEW order \in Steps!Ascending(C)
    PROVE  LET n == Len(order)
           IN  /\ n \in Nat /\ n >= 1 /\ DOMAIN order = 1..n
               /\ \A s \in 1..n : order[s] \in C
               /\ \A s, t \in 1..n : order[s] = order[t] => s = t
               /\ \A c \in C : \E s \in 1..n : order[s] = c
<1>. DEFINE n == Cardinality(C)
<1>1. IsFiniteSet(C) /\ n \in Nat
  <2>1. IsFiniteSet(1..N)
    BY FS_Interval
  <2>2. IsFiniteSet(C)
    BY <2>1, FS_Subset, Zenon
  <2>. QED
    BY <2>2, FS_CardinalityType
<1>2. n # 0
  BY <1>1, FS_EmptySet
<1>3. Steps!Cardinality(C) = n
  BY DEF Steps!Cardinality, Cardinality
<1>4. order \in [1..n -> C] /\ \A a, b \in DOMAIN order : a < b => order[a] < order[b]
  BY <1>3 DEF Steps!Ascending
<1>5. IsFiniteSet(1..n) /\ Cardinality(1..n) = n
  BY <1>1, FS_Interval
<1>. HIDE DEF n
<1>6. Len(order) = n /\ DOMAIN order = 1..n /\ \A s \in 1..n : order[s] \in C
  BY <1>1, <1>4
<1>7. ASSUME NEW s \in 1..n, NEW t \in 1..n, order[s] = order[t] PROVE s = t
  <2>1. order[s] \in Nat /\ ~(order[s] < order[t]) /\ ~(order[t] < order[s])
    <3>. DEFINE u == order[s]
                v == order[t]
    <3>1. u \in 1..N /\ v = u
      BY <1>6, <1>7, Zenon
    <3>. HIDE DEF u, v
    <3>2. u \in Nat /\ ~(u < v) /\ ~(v < u)
      BY <3>1
    <3>. QED
      BY <3>2 DEF u, v
  <2>2. ~(s < t) /\ ~(t < s)
    BY <1>4, <1>6, <2>1
  <2>. QED
    BY <1>1, <2>2
<1>8. order \in Injection(1..n, C)
  BY <1>4, <1>7 DEF Injection, IsInjective
<1>9. order \in Surjection(1..n, C)
  <2>1. Cardinality(1..n) = Cardinality(C) <=> order \in Surjection(1..n, C)
    BY <1>1, <1>8, FS_Injection
  <2>. QED
    BY <1>5, <2>1 DEF n
<1>10. \A c \in C : \E s \in 1..n : order[s] = c
  BY <1>9 DEF Surjection
<1>. QED
  BY <1>1, <1>2, <1>6, <1>7, <1>10

\* A token for each conversation of a batch: what is sent, and what is old.
BatchX(h, token, order) == [s \in 1..Len(order) |-> Append(h[order[s]], token[order[s]])]
BatchAt(h, order) == [s \in 1..Len(order) |-> <<order[s], Len(h[order[s]]) + 1>>]
BatchTold(h, token) == [c \in Unit |-> IF c \in DOMAIN token THEN Append(h[c], token[c]) ELSE h[c]]

BatchSent(h, token, order) ==
  LET g == BatchTold(h, token)
      x == BatchX(h, token, order)
  IN  /\ Sent(Steps!Ragged(BatchAt(h, order)), x, g, Lens(h))
      /\ g \in [Unit -> Seq(Vocab)]
      /\ \A c \in Unit : /\ Len(g[c]) \in Nat /\ Len(g[c]) <= Held
                         /\ c \in DOMAIN token => g[c] = Append(h[c], token[c])
                         /\ c \notin DOMAIN token => g[c] = h[c]
      /\ \A s \in 1..Len(order) : order[s] \in DOMAIN token /\ x[s] = g[order[s]]
      /\ \A c \in DOMAIN token : \E s \in 1..Len(order) : order[s] = c
      /\ \A c \in Unit : /\ Lens(h)[c] \in 0..Len(h[c])
                         /\ \A t \in 1..Lens(h)[c] : Steps!Begin(g[c], t) = Steps!Begin(h[c], t)

LEMMA BatchIs ==
    ASSUME Vocab \subseteq Nat, Held \in Nat, net.slots \in Nat,
           NEW h \in [Unit -> Seq(Vocab)], \A c \in Unit : Len(h[c]) <= Held,
           NEW C, C \subseteq Unit, C # {}, NEW token \in [C -> Vocab],
           \A c \in C : Len(h[c]) < Held,
           NEW order \in Steps!Ascending(C)
    PROVE  BatchSent(h, token, order)
<1>. DEFINE n == Len(order)
            g == BatchTold(h, token)
            x == BatchX(h, token, order)
            b == Steps!Ragged(BatchAt(h, order))
            q == Lens(h)
<1>1. /\ n \in Nat /\ n >= 1 /\ DOMAIN order = 1..n
      /\ \A s \in 1..n : order[s] \in C
      /\ \A s, t \in 1..n : order[s] = order[t] => s = t
      /\ \A c \in C : \E s \in 1..n : order[s] = c
  <2>1. C \subseteq 1..net.slots
    BY DEF Unit, Steps!Slots
  <2>. QED
    BY <2>1, OrderIs, Zenon
<1>2. \A c \in Unit : h[c] \in Seq(Vocab) /\ h[c] \in Seq(Nat) /\ Len(h[c]) \in Nat /\ q[c] = Len(h[c])
  <2>1. ASSUME NEW c \in Unit PROVE h[c] \in Seq(Vocab) /\ h[c] \in Seq(Nat) /\ Len(h[c]) \in Nat /\ q[c] = Len(h[c])
    <3>1. h[c] \in Seq(Vocab)
      OBVIOUS
    <3>2. h[c] \in Seq(Nat)
      BY <3>1, SeqMonotonic, Zenon
    <3>. QED
      BY <3>1, <3>2 DEF Lens
  <2>. QED
    BY <2>1
<1>3. \A c \in Unit : g[c] = IF c \in C THEN Append(h[c], token[c]) ELSE h[c]
  BY DEF BatchTold
<1>4. DOMAIN g = Unit /\ g = [c \in Unit |-> g[c]] /\ q = [c \in Unit |-> q[c]]
  BY DEF BatchTold, Lens
<1>5. \A s \in 1..n : x[s] = Append(h[order[s]], token[order[s]])
  BY DEF BatchX
<1>6. x = [s \in 1..n |-> x[s]]
  BY DEF BatchX
<1>7. Len(x) = n
  <2>. HIDE DEF n, x
  <2>. QED
    BY <1>1, <1>6, LenIs
<1>8. \A s \in 1..n : b.at[s] = <<order[s], Len(h[order[s]]) + 1>>
  BY DEF Steps!Ragged, BatchAt
<1>9. DOMAIN b.at = 1..n /\ b.ragged = TRUE
  BY DEF Steps!Ragged, BatchAt
<1>. HIDE DEF n, g, x, b, q
<1>10. ASSUME NEW c \in Unit
       PROVE  /\ g[c] \in Seq(Vocab) /\ g[c] \in Seq(Nat) /\ Len(g[c]) \in Nat /\ Len(g[c]) <= Held
              /\ q[c] \in 0..Len(h[c]) /\ q[c] \in Nat /\ q[c] <= Len(g[c])
              /\ \A t \in 1..q[c] : Steps!Begin(g[c], t) = Steps!Begin(h[c], t)
              /\ Len(g[c]) = IF c \in C THEN Len(h[c]) + 1 ELSE Len(h[c])
              /\ Steps!Begin(g[c], Len(g[c])) = g[c]
  <2>1. CASE c \in C
    <3>. DEFINE y == h[c]
                v == token[c]
                z == g[c]
    <3>1. y \in Seq(Vocab) /\ y \in Seq(Nat) /\ v \in Vocab /\ v \in Nat /\ z = Append(y, v) /\ Len(y) < Held
          /\ q[c] = Len(y) /\ Len(y) \in Nat
      BY <1>2, <1>3, <2>1, Zenon
    <3>. HIDE DEF y, v, z
    <3>2. z \in Seq(Vocab) /\ z \in Seq(Nat) /\ Len(z) = Len(y) + 1
      BY <3>1, AppendProperties
    <3>3. ASSUME NEW t \in 1..Len(y) PROVE Steps!Begin(z, t) = Steps!Begin(y, t)
      <4>. DEFINE one == <<v>>
      <4>1. one \in Seq(Nat) /\ z = y \o one
        BY <3>1
      <4>. HIDE DEF one
      <4>. QED
        BY <3>1, <4>1, JoinedIs
    <3>4. Steps!Begin(z, Len(z)) = z
      BY <3>2, WholeHead, Zenon DEF Steps!Begin
    <3>5. Len(z) \in Nat /\ Len(z) <= Held /\ q[c] \in 0..Len(y) /\ q[c] \in Nat /\ q[c] <= Len(z)
      BY <3>1, <3>2
    <3>6. Len(z) = IF c \in C THEN Len(y) + 1 ELSE Len(y)
      BY <2>1, <3>2
    <3>. QED
      BY <3>1, <3>2, <3>3, <3>4, <3>5, <3>6 DEF y, z
  <2>2. CASE c \notin C
    <3>1. g[c] = h[c]
      BY <1>3, <2>2
    <3>2. Steps!Begin(h[c], Len(h[c])) = h[c]
      BY <1>2, WholeHead, Zenon DEF Steps!Begin
    <3>. QED
      BY <1>2, <2>2, <3>1, <3>2
  <2>. QED
    BY <2>1, <2>2
<1>11. ASSUME NEW s \in 1..n
       PROVE  /\ order[s] \in C /\ order[s] \in Unit /\ x[s] = g[order[s]]
              /\ Len(h[order[s]]) + 1 = Len(g[order[s]])
              /\ Len(h[order[s]]) + 1 \in q[order[s]] + 1..Len(g[order[s]])
              /\ x[s] = Steps!Begin(g[order[s]], Len(h[order[s]]) + 1)
  <2>. DEFINE c == order[s]
  <2>1. c \in C /\ c \in Unit
    BY <1>1
  <2>2. x[s] = g[c]
    BY <1>3, <1>5, <2>1, Zenon
  <2>. HIDE DEF c
  <2>3. Len(g[c]) = Len(h[c]) + 1 /\ q[c] = Len(h[c]) /\ Len(h[c]) \in Nat /\ Steps!Begin(g[c], Len(g[c])) = g[c]
    BY <1>2, <1>10, <2>1
  <2>4. Len(h[c]) + 1 \in q[c] + 1..Len(g[c])
    BY <2>3
  <2>. QED
    BY <2>1, <2>2, <2>3, <2>4 DEF c
<1>12. Sent(b, x, g, q)
  <2>1. g \in [Unit -> Seq(Nat)] /\ q \in [Unit -> Nat]
    BY <1>4, <1>10
  <2>2. \A c \in Unit : q[c] <= Len(g[c]) /\ Len(g[c]) <= Held
    BY <1>10
  <2>3. Len(x) \in Nat /\ Len(x) > 0 /\ x = [s \in 1..Len(x) |-> x[s]] /\ DOMAIN b.at = 1..Len(x)
    BY <1>1, <1>6, <1>7, <1>9
  <2>4. ASSUME NEW s \in 1..n
        PROVE  \E c \in Unit : \E t \in q[c] + 1..Len(g[c]) : b.at[s] = <<c, t>> /\ x[s] = Steps!Begin(g[c], t)
    BY <1>8, <1>11, Zenon
  <2>5. ASSUME NEW s \in 1..n, NEW r \in 1..n, b.at[s] = b.at[r] PROVE s = r
    <3>1. order[s] = order[r]
      BY <1>8, <2>5
    <3>. QED
      BY <1>1, <3>1
  <2>6. ASSUME NEW c \in Unit, NEW t \in q[c] + 1..Len(g[c]) PROVE \E s \in 1..n : b.at[s] = <<c, t>>
    <3>1. c \in C /\ t = Len(h[c]) + 1
      <4>1. q[c] = Len(h[c]) /\ Len(h[c]) \in Nat /\ Len(g[c]) = IF c \in C THEN Len(h[c]) + 1 ELSE Len(h[c])
        BY <1>2, <1>10
      <4>2. t \in q[c] + 1..Len(g[c])
        OBVIOUS
      <4>. QED
        BY <4>1, <4>2
    <3>2. PICK s \in 1..n : order[s] = c
      BY <1>1, <3>1
    <3>. QED
      BY <1>8, <3>1, <3>2, Zenon
  <2>7. ASSUME NEW s \in 1..n PROVE Steps!ReadAt(b, s) = b.at[s]
    BY <1>9 DEF Steps!ReadAt, Steps!Absorbed
  <2>8. /\ \A s \in 1..Len(x) :
             \E c \in Unit : \E t \in q[c] + 1..Len(g[c]) :
               b.at[s] = <<c, t>> /\ x[s] = Steps!Begin(g[c], t)
        /\ \A s, r \in 1..Len(x) : b.at[s] = b.at[r] => s = r
        /\ \A c \in Unit : \A t \in q[c] + 1..Len(g[c]) : \E s \in 1..Len(x) : b.at[s] = <<c, t>>
        /\ \A s \in 1..Len(x) : Steps!ReadAt(b, s) = b.at[s]
    BY <1>7, <2>4, <2>5, <2>6, <2>7, Zenon
  <2>. QED
    BY <2>1, <2>2, <2>3, <2>8, Zenon DEF Sent
<1>13. g \in [Unit -> Seq(Vocab)]
  BY <1>4, <1>10
<1>14. \A c \in Unit : /\ Len(g[c]) \in Nat /\ Len(g[c]) <= Held
                       /\ c \in DOMAIN token => g[c] = Append(h[c], token[c])
                       /\ c \notin DOMAIN token => g[c] = h[c]
  BY <1>3, <1>10, Zenon
<1>15. \A s \in 1..n : order[s] \in DOMAIN token /\ x[s] = g[order[s]]
  BY <1>11
<1>16. \A c \in DOMAIN token : \E s \in 1..n : order[s] = c
  BY <1>1
<1>17. \A c \in Unit : /\ q[c] \in 0..Len(h[c])
                       /\ \A t \in 1..q[c] : Steps!Begin(g[c], t) = Steps!Begin(h[c], t)
  BY <1>10
<1>. QED
  BY <1>12, <1>13, <1>14, <1>15, <1>16, <1>17, Zenon DEF BatchSent, n, g, x, b, q

\* step_decode_batch.
LEMMA BatchStep ==
    ASSUME StepsInv, NEW C \in SUBSET Steps!Slots, NEW order \in Steps!Ascending(C),
           Steps!Batch([c \in C |-> Best(told[c])], order)
    PROVE  StepsInv'
<1>. DEFINE token == [c \in C |-> Best(told[c])]
            h == told
            g == BatchTold(h, token)
            x == BatchX(h, token, order)
            b == Steps!Ragged(BatchAt(h, order))
            q == Lens(h)
            r == Steps!Pass(x, b)
<1>1. /\ net.slots > 1 /\ DOMAIN token # {}
      /\ \A c \in DOMAIN token : scores[c] # << >> /\ Len(told[c]) < BatchPlaces
      /\ bound' = bound
      /\ told' = g
      /\ caches' = r.kv /\ keys' = r.keys /\ sel' = r.sel
      /\ scores' = [c \in Unit |->
           IF c \in DOMAIN token THEN r.x[CHOOSE s \in 1..Len(order) : order[s] = c] ELSE scores[c]]
      /\ net' = net /\ start' = start /\ hidden' = hidden /\ asked' = asked
  BY DEF Steps!Batch, BatchTold, BatchX, BatchAt, Unit
<1>2. /\ Held \in Nat /\ net.slots \in Nat /\ \A c \in Unit : Len(told[c]) \in Nat /\ Len(told[c]) <= Held
      /\ 1..HeadAt \subseteq Nat \ {0} /\ KeyLayers \subseteq Nat \ {0}
  BY StepsTypes
<1>3. /\ Steps!GlmForwardAssumption /\ Vocab \subseteq Nat /\ BatchPlaces \in 1..Held
      /\ told \in [Unit -> Seq(Vocab)] /\ Steps!LogitsTrue /\ Steps!RowsTrue
      /\ bound \in Unit /\ asked \in 0..MaxFed /\ start \in -1..Held - 1 /\ DOMAIN scores = Unit
      /\ (start >= 0 => net.slots = 1 /\ net.mtp /\ DraftK > 0)
      /\ net \in {Steps!LoadedNet(f_) : f_ \in Models}
  BY GlmForwardBounds DEF StepsInv
<1>4. C \subseteq Unit /\ C # {} /\ DOMAIN token = C
  BY <1>1 DEF Unit
<1>5. token \in [C -> Vocab]
  <2>1. ASSUME NEW c \in C PROVE Best(told[c]) \in Vocab
    <3>1. told[c] \in Seq(Vocab) /\ Len(told[c]) <= Held
      BY <1>2, <1>3, <1>4
    <3>. QED
      BY <1>3, <3>1, NextIn
  <2>. QED
    BY <2>1
<1>6. \A c \in C : Len(h[c]) < Held
  BY <1>1, <1>2, <1>3, <1>4
<1>. HIDE DEF token
<1>7. BatchSent(h, token, order)
  BY <1>2, <1>3, <1>4, <1>5, <1>6, BatchIs, Zenon
<1>8. /\ Sent(b, x, g, q)
      /\ g \in [Unit -> Seq(Vocab)]
      /\ \A c \in Unit : /\ Len(g[c]) \in Nat /\ Len(g[c]) <= Held
                         /\ c \in C => g[c] = Append(h[c], token[c])
                         /\ c \notin C => g[c] = h[c]
      /\ \A s \in 1..Len(order) : order[s] \in C /\ x[s] = g[order[s]]
      /\ \A c \in C : \E s \in 1..Len(order) : order[s] = c
      /\ \A c \in Unit : /\ q[c] \in 0..Len(told[c])
                         /\ \A t \in 1..q[c] : Steps!Begin(g[c], t) = Steps!Begin(told[c], t)
  BY <1>4, <1>7 DEF BatchSent
<1>. HIDE DEF g, x, b, q
<1>9. /\ r.x = x /\ Len(r.sel) \in Nat
      /\ RowsAt(r.kv, 1..HeadAt, g, Lens(g), 0)
      /\ RowsAt(r.keys, KeyLayers, g, Lens(g), 0)
  BY <1>8, Forwarded
<1>. HIDE DEF r
<1>10. /\ RowsAt(caches, 1..HeadAt, told, Lens(told), 0)'
       /\ RowsAt(keys, KeyLayers, told, Lens(told), 0)'
  <2>. DEFINE z == caches'
              u == keys'
              y == told'
  <2>1. RowsAt(z, 1..HeadAt, y, Lens(y), 0) /\ RowsAt(u, KeyLayers, y, Lens(y), 0)
    BY <1>1, <1>9
  <2>. QED
    BY <1>1, <2>1, RowsNext DEF z, u, y
<1>11. Unit' = Unit
  BY <1>1 DEF Unit, Steps!Slots
<1>12. ASSUME NEW c \in Unit, scores'[c] # << >> PROVE scores'[c] = told'[c]
  <2>1. CASE c \in C
    <3>. DEFINE s == CHOOSE s_ \in 1..Len(order) : order[s_] = c
    <3>1. s \in 1..Len(order) /\ order[s] = c
      BY <1>8, <2>1, Zenon
    <3>2. scores'[c] = r.x[s]
      BY <1>1, <1>4, <2>1, Zenon
    <3>. HIDE DEF s
    <3>. QED
      BY <1>1, <1>8, <1>9, <3>1, <3>2
  <2>2. CASE c \notin C
    <3>1. scores'[c] = scores[c]
      BY <1>1, <1>4, <2>2
    <3>. QED
      BY <1>1, <1>3, <1>8, <1>12, <2>2, <3>1 DEF Steps!LogitsTrue, Unit
  <2>. QED
    BY <2>1, <2>2
<1>13. Steps!LogitsTrue'
  <2>1. ~(net'.slots = 1)
    <3>. DEFINE w == net.slots
    <3>1. w \in Nat /\ w > 1 /\ net'.slots = w
      BY <1>1, <1>2
    <3>. HIDE DEF w
    <3>. QED
      BY <3>1
  <2>2. \A c \in Unit' : scores'[c] # << >> => scores'[c] = told'[c]
    BY <1>11, <1>12
  <2>. QED
    BY <2>1, <2>2, Zenon DEF Steps!LogitsTrue, Unit
<1>14. start' = -1
  BY <1>1, <1>3
<1>15. Steps!RowsTrue'
  BY <1>14 DEF Steps!RowsTrue
<1>16. told' \in [Unit -> Seq(Vocab)] /\ \A c \in Unit : Len(told'[c]) <= Held
  BY <1>1, <1>8
<1>17. bound' \in Unit /\ asked' \in 0..MaxFed /\ Len(sel') \in Nat /\ DOMAIN scores' = Unit
  BY <1>1, <1>3, <1>9
<1>18. start' \in -1..Held - 1 /\ (start' >= 0 => net'.slots = 1 /\ net'.mtp /\ DraftK > 0)
  BY <1>1, <1>3
<1>19. net' \in {Steps!LoadedNet(f_) : f_ \in Models}
  BY <1>1, <1>3
<1>. QED
  BY <1>3, <1>10, <1>11, <1>13, <1>15, <1>16, <1>17, <1>18, <1>19 DEF StepsInv

\* New caches hold the rows of no token.
LEMMA BlankIs ==
    ASSUME net.layers \in Nat, KeyLayers \subseteq 1..net.layers
    PROVE  LET h == Steps!Blank.hist
           IN  /\ h = [c \in Unit |-> << >>]
               /\ RowsAt(Steps!Blank.kv, 1..HeadAt, h, Lens(h), 0)
               /\ RowsAt(Steps!Blank.keys, KeyLayers, h, Lens(h), 0)
<1>. DEFINE h == [c \in Unit |-> << >>]
            rows_(J) == [c \in Unit |-> [i \in J |-> [t \in 1..Held |-> Steps!Hole]]]
<1>1. Steps!Blank.hist = h /\ Steps!Blank.kv = rows_(1..HeadAt) /\ Steps!Blank.keys = rows_(KeyLayers)
  BY DEF Steps!Blank, Steps!Fresh, Unit, HeadAt, Steps!Head1, KeyLayers
<1>2. ASSUME NEW J, J \subseteq Nat \ {0} PROVE RowsAt(rows_(J), J, h, Lens(h), 0)
  <2>1. ASSUME NEW c \in Unit, NEW j \in J PROVE UpTo(h[c], Lens(h)[c], 0, j) = 0
    BY <1>2 DEF UpTo, Lens
  <2>2. ASSUME NEW c \in Unit, NEW j \in J, NEW t \in 1..UpTo(h[c], Lens(h)[c], 0, j) PROVE FALSE
    BY <2>1
  <2>3. DOMAIN rows_(J) = Unit /\ \A c \in Unit : DOMAIN rows_(J)[c] = J /\ \A j \in J : DOMAIN rows_(J)[c][j] = 1..Held
    OBVIOUS
  <2>. QED
    BY <2>2, <2>3 DEF RowsAt
<1>3. 1..HeadAt \subseteq Nat \ {0} /\ KeyLayers \subseteq Nat \ {0}
  BY DEF HeadAt
<1>. HIDE DEF rows_
<1>4. RowsAt(rows_(1..HeadAt), 1..HeadAt, h, Lens(h), 0) /\ RowsAt(rows_(KeyLayers), KeyLayers, h, Lens(h), 0)
  BY <1>2, <1>3, Zenon
<1>. HIDE DEF h
<1>. QED
  BY <1>1, <1>4 DEF h

LEMMA ClosedStep ==
    ASSUME StepsInv, Steps!Closed
    PROVE  StepsInv'
<1>1. /\ net.layers \in Nat /\ KeyLayers \subseteq 1..net.layers /\ net.slots \in Nat /\ 1 \in Unit
      /\ Held \in Nat /\ Held >= 1
  BY StepsTypes DEF KeyLayers
<1>. DEFINE h == Steps!Blank.hist
<1>2. /\ h = [c \in Unit |-> << >>]
      /\ RowsAt(Steps!Blank.kv, 1..HeadAt, h, Lens(h), 0)
      /\ RowsAt(Steps!Blank.keys, KeyLayers, h, Lens(h), 0)
  BY <1>1, BlankIs
<1>3. /\ caches' = Steps!Blank.kv /\ keys' = Steps!Blank.keys /\ told' = h /\ scores' = h
      /\ start' = -1 /\ bound' = 1 /\ sel' = << >> /\ hidden' = << >> /\ asked' = 0 /\ net' = net
  BY DEF Steps!Closed
<1>. HIDE DEF h
<1>4. /\ RowsAt(caches, 1..HeadAt, told, Lens(told), 0)'
      /\ RowsAt(keys, KeyLayers, told, Lens(told), 0)'
  <2>. DEFINE z == caches'
              u == keys'
              y == told'
  <2>1. RowsAt(z, 1..HeadAt, y, Lens(y), 0) /\ RowsAt(u, KeyLayers, y, Lens(y), 0)
    BY <1>2, <1>3
  <2>. QED
    BY <1>3, <2>1, RowsNext DEF z, u, y
<1>5. Unit' = Unit
  BY <1>3 DEF Unit, Steps!Slots
<1>6. \A c \in Unit : h[c] = << >>
  BY <1>2
<1>7. Steps!LogitsTrue' /\ Steps!RowsTrue'
  BY <1>1, <1>3, <1>5, <1>6 DEF Steps!LogitsTrue, Steps!RowsTrue, Unit
<1>8. told' \in [Unit -> Seq(Vocab)] /\ \A c \in Unit : Len(told'[c]) <= Held
  BY <1>1, <1>2, <1>3, <1>6
<1>9. /\ bound' \in Unit /\ asked' \in 0..MaxFed /\ Len(sel') \in Nat /\ DOMAIN scores' = Unit
      /\ start' \in -1..Held - 1 /\ ~(start' >= 0)
  <2>1. MaxFed \in Nat
    BY GlmForwardBounds DEF StepsInv
  <2>. QED
    BY <1>1, <1>2, <1>3, <2>1
<1>10. Steps!GlmForwardAssumption /\ net' \in {Steps!LoadedNet(f_) : f_ \in Models}
  BY <1>3 DEF StepsInv
<1>. QED
  BY <1>4, <1>5, <1>7, <1>8, <1>9, <1>10 DEF StepsInv

LEMMA StepsInit ==
    ASSUME Steps!GlmForwardAssumption, Steps!Init PROVE StepsInv
<1>1. /\ net \in {Steps!LoadedNet(f_) : f_ \in Models}
      /\ caches = Steps!Blank.kv /\ keys = Steps!Blank.keys
      /\ start = -1 /\ bound = 1 /\ sel = << >>
      /\ told = Steps!Blank.hist /\ hidden = << >> /\ scores = Steps!Blank.hist /\ asked = 0
  BY DEF Steps!Init
<1>2. /\ net.layers \in Nat /\ KeyLayers \subseteq 1..net.layers /\ net.slots \in Nat /\ 1 \in Unit
      /\ Held \in Nat /\ Held >= 1 /\ MaxFed \in Nat
  <2>1. net.layers \in Nat /\ net.slots \in Nat /\ net.slots >= 1
    BY <1>1, NetFacts
  <2>2. 1 \in Unit
    BY <2>1 DEF Unit, Steps!Slots
  <2>3. Held \in Nat /\ Held >= 1 /\ MaxFed \in Nat
    BY GlmForwardBounds
  <2>. QED
    BY <2>1, <2>2, <2>3 DEF KeyLayers
<1>. DEFINE h == Steps!Blank.hist
<1>3. /\ h = [c \in Unit |-> << >>]
      /\ RowsAt(Steps!Blank.kv, 1..HeadAt, h, Lens(h), 0)
      /\ RowsAt(Steps!Blank.keys, KeyLayers, h, Lens(h), 0)
  BY <1>2, BlankIs
<1>. HIDE DEF h
<1>4. \A c \in Unit : h[c] = << >>
  BY <1>3
<1>5. told = h /\ scores = h
  BY <1>1 DEF h
<1>6. Steps!LogitsTrue /\ Steps!RowsTrue
  BY <1>1, <1>2, <1>4, <1>5 DEF Steps!LogitsTrue, Steps!RowsTrue, Unit
<1>7. told \in [Unit -> Seq(Vocab)] /\ \A c \in Unit : Len(told[c]) <= Held
  BY <1>2, <1>3, <1>4, <1>5
<1>8. bound \in Unit /\ asked \in 0..MaxFed /\ Len(sel) \in Nat /\ DOMAIN scores = Unit
  BY <1>1, <1>2, <1>3, <1>5
<1>9. start \in -1..Held - 1 /\ ~(start >= 0)
  BY <1>1, <1>2
<1>10. RowsAt(caches, 1..HeadAt, told, Lens(told), 0) /\ RowsAt(keys, KeyLayers, told, Lens(told), 0)
  BY <1>1, <1>3, <1>5
<1>. QED
  BY <1>1, <1>6, <1>7, <1>8, <1>9, <1>10 DEF StepsInv

LEMMA StepsNext == StepsInv /\ [Steps!Next]_stepVars => StepsInv'
<1>. SUFFICES ASSUME StepsInv, [Steps!Next]_stepVars PROVE StepsInv'
  OBVIOUS
<1>1. /\ Steps!GlmForwardAssumption /\ told \in [Unit -> Seq(Vocab)] /\ \A c \in Unit : Len(told[c]) <= Held
      /\ Vocab \subseteq Nat /\ Letters \subseteq Vocab /\ DraftK \in Nat /\ Held \in Nat /\ Longest \in 1..Held
      /\ 1 \in Unit /\ \A c \in Unit : Len(told[c]) \in Nat
  BY StepsTypes, GlmForwardBounds, Zenon DEF StepsInv
<1>2. ASSUME NEW c \in Steps!Slots, NEW p \in 0..Len(told[c]), NEW ids \in Steps!TextsOf(Longest),
             Steps!Feed(c, p, ids)
      PROVE  StepsInv'
  <2>1. ids \in Seq(Vocab)
    <3>1. PICK j \in 1..Longest : ids \in [1..j -> Letters]
      BY DEF Steps!TextsOf
    <3>2. j \in Nat /\ Letters \subseteq Vocab
      BY <1>1
    <3>3. ids \in [1..j -> Vocab]
      BY <3>1, <3>2
    <3>. QED
      BY <3>2, <3>3
  <2>2. c \in Unit
    BY DEF Unit
  <2>. QED
    BY <1>2, <2>1, <2>2, FeedStep
<1>3. ASSUME NEW m \in 0..DraftK, NEW head \in BOOLEAN, NEW n \in 0..m,
             LET next == Best(told[1]) IN Steps!Verify(next, Steps!Guessed(Append(told[1], next), m, n), n, head)
      PROVE  StepsInv'
  <2>. DEFINE a == told[1]
              next == Best(a)
              y == Append(a, next)
              d == Steps!Guessed(y, m, n)
  <2>1. a \in Seq(Vocab) /\ Len(a) <= Held /\ Len(a) \in Nat /\ m \in Nat /\ n \in 0..m /\ m <= DraftK
    BY <1>1
  <2>2. next \in Vocab
    BY <1>1, <2>1, NextIn
  <2>3. Steps!Verify(next, d, n, head)
    BY <1>3
  <2>4. Len(a) + 1 + Len(d) + Steps!DraftsOf + 2 <= Held /\ Steps!DraftsOf \in Nat
    <3>1. Steps!DraftsOf \in Nat
      BY <1>1 DEF Steps!DraftsOf
    <3>. HIDE DEF d, next
    <3>. QED
      BY <2>3, <3>1 DEF Steps!Verify
  <2>5. Len(d) = m
    <3>1. d = [j \in 1..m |-> d[j]]
      BY DEF Steps!Guessed
    <3>. HIDE DEF d
    <3>. QED
      BY <2>1, <3>1, LenIs
  <2>6. d \in Seq(Vocab)
    <3>. HIDE DEF a, next, d
    <3>1. y \in Seq(Vocab) /\ Len(y) = Len(a) + 1
      BY <2>1, <2>2, AppendProperties
    <3>. HIDE DEF y
    <3>2. Len(y) + m <= Held
      BY <1>1, <2>1, <2>4, <2>5, <3>1
    <3>. QED
      BY <1>1, <2>1, <3>1, <3>2, GuessedIs DEF d
  <2>. HIDE DEF a, next, d
  <2>7. Len(d) <= DraftK /\ n \in 0..Len(d)
    BY <2>1, <2>5
  <2>. QED
    BY <2>2, <2>3, <2>6, <2>7, VerifyTurn
<1>4. ASSUME NEW C \in SUBSET Steps!Slots, NEW order \in Steps!Ascending(C),
             Steps!Batch([c \in C |-> Best(told[c])], order)
      PROVE  StepsInv'
  BY <1>4, BatchStep
<1>5. CASE Steps!Closed
  BY <1>5, ClosedStep
<1>6. CASE UNCHANGED stepVars
  <2>1. /\ net' = net /\ caches' = caches /\ keys' = keys /\ start' = start /\ bound' = bound /\ sel' = sel
        /\ told' = told /\ hidden' = hidden /\ scores' = scores /\ asked' = asked
    BY <1>6 DEF stepVars
  <2>2. /\ RowsAt(caches, 1..HeadAt, told, Lens(told), 0)'
        /\ RowsAt(keys, KeyLayers, told, Lens(told), 0)'
    <3>. DEFINE z == caches'
                u == keys'
                y == told'
    <3>1. RowsAt(z, 1..HeadAt, y, Lens(y), 0) /\ RowsAt(u, KeyLayers, y, Lens(y), 0)
      BY <2>1 DEF StepsInv
    <3>. QED
      BY <2>1, <3>1, RowsNext DEF z, u, y
  <2>3. Unit' = Unit
    BY <2>1 DEF Unit, Steps!Slots
  <2>4. Steps!LogitsTrue'
    BY <2>1, <2>3 DEF StepsInv, Steps!LogitsTrue, Unit
  <2>5. Steps!RowsTrue'
    BY <2>1, Zenon DEF StepsInv, Steps!RowsTrue, Steps!Head1
  <2>6. /\ Steps!GlmForwardAssumption /\ net' \in {Steps!LoadedNet(f_) : f_ \in Models}
        /\ told' \in [Unit -> Seq(Vocab)] /\ \A c \in Unit : Len(told'[c]) <= Held
        /\ bound' \in Unit /\ asked' \in 0..MaxFed /\ start' \in -1..Held - 1 /\ Len(sel') \in Nat
        /\ DOMAIN scores' = Unit
    BY <2>1 DEF StepsInv
  <2>7. start' >= 0 => net'.slots = 1 /\ net'.mtp /\ DraftK > 0
    BY <2>1 DEF StepsInv
  <2>. QED
    BY <2>2, <2>3, <2>4, <2>5, <2>6, <2>7 DEF StepsInv
<1>. QED
  BY <1>2, <1>3, <1>4, <1>5, <1>6, Zenon DEF Steps!Next

LEMMA StepsConsequences ==
    ASSUME StepsInv PROVE Steps!TypeOK /\ Steps!LogitsTrue /\ Steps!RowsTrue
BY StepsTypes DEF StepsInv, Steps!TypeOK, Unit

LEMMA StepsAlways == Spec => []StepsInv
<1>1. Init => StepsInv
  BY StepsInit, TurnsAssumption DEF Init, TurnsAssumption
<1>2. StepsInv /\ [Next]_vars => StepsInv'
  <2>1. [Next]_vars => [Steps!Next]_stepVars
    BY DEF Next, vars, GlmTurns, GramTurns, ChatTurns, Forward, GlmForwards, Training
  <2>. QED
    BY <2>1, StepsNext
<1>. QED
  BY <1>1, <1>2, PTL DEF Spec

\* The forward passes (Dense, GlmForward: embed_rows, hybrid_forward, attention,
\* step_decode_batch): the logits are those of the history that was fed, in one
\* block or many, behind dropped drafts, in a batch with other conversations,
\* whatever the weights in the file; a file of gemma neither packs v_proj nor
\* gives a layer that shares rows a k_proj of its own (GemmaAsRead).
THEOREM ForwardsTrue ==
    ASSUME GemmaAsRead PROVE Spec => []LogitsTrue
<1>1. DenseInv /\ StepsInv => LogitsTrue
  BY DenseConsequences, StepsConsequences DEF LogitsTrue
<1>. QED
  BY <1>1, DenseAlways, StepsAlways, PTL

\* The cache of TTA and the draft head of glm (tta_observe, mtp_draft, mtp_absorb):
\* every pair that counts is of this conversation, a state with the token that
\* followed it.
THEOREM PairsOfHistory ==
    ASSUME GemmaAsRead PROVE Spec => []PairsTrue
<1>1. DenseInv /\ StepsInv => PairsTrue
  BY DenseConsequences, StepsConsequences DEF PairsTrue
<1>. QED
  BY <1>1, DenseAlways, StepsAlways, PTL
=============================================================================
