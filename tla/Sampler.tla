------------------------------- MODULE Sampler -------------------------------
(* Picking a token: src/c/nn/sample.c, and the sampler of                    *)
(* src/c/engines/glm.c with the drafts that spec_decode verifies under a     *)
(* temperature.  A probability is a weight over a sum of weights (softmax    *)
(* and the temperature are behind the weights); a random number is the       *)
(* middle of one of Grid equal parts of [0, 1), so that measures are counts. *)
EXTENDS Integers, FiniteSets, FiniteSetsExt, Sequences, SequencesExt

CONSTANTS
  V,        \* tokens 1..V
  Laws,     \* the weights considered, functions on the tokens
  Tops,     \* g_nuc in hundredths; 100 is off
  Small,    \* candidates are above this part of the heaviest, 100000 in the source
  Few,      \* the candidates are sorted alone if so many times fewer than V, 8
  Grid,     \* a multiple of the weight of every set of tokens
  Teams,    \* threads of the scans
  NoToken

VARIABLES
  law,      \* the logits at hand, as weights
  top,      \* g_nuc
  kept,     \* g_pbuf: the tokens that are not cut
  guess,    \* the draft to verify, or NoToken
  ban,      \* carry_ban
  drawn,    \* the token picked
  at
vars == <<law, top, kept, guess, ban, drawn, at>>

Toks == 1..V
Units == 0..Grid - 1
Mass(S) == MapThenSumSet(LAMBDA i : law[i], S)
Heaviest == Max({law[i] : i \in Toks})

SamplerAssumption ==
  /\ V \in Nat \ {0} /\ Teams \subseteq Nat \ {0} /\ Tops \subseteq 1..100
  /\ {Small, Few, Grid} \subseteq Nat \ {0} /\ NoToken \notin Toks
  /\ Laws \subseteq [Toks -> Nat] /\ \A l \in Laws : \E i \in Toks : l[i] > 0

-----------------------------------------------------------------------------
(* The scans of the vocabulary.  Thread t of n has one range of it, and what *)
(* the threads found is put together in their order.                         *)
Share(t, n) ==
  LET low(s) == s * (V \div n) + (IF s < V % n THEN s ELSE V % n)
  IN  low(t) + 1..low(t + 1)

\* moty_argmax_v, moty_argmax_v_par: the first of the heaviest.
FirstHeaviest(S) == CHOOSE i \in S : \A j \in S : law[j] < law[i] \/ (law[j] = law[i] /\ i <= j)
BestOf(n) ==
  LET parts == SelectSeq([t \in 1..n |-> Share(t - 1, n)], LAMBDA S : S # {})
      bests == [p \in DOMAIN parts |-> FirstHeaviest(parts[p])]
  IN  FoldLeft(LAMBDA b, c : IF law[c] > law[b] THEN c ELSE b, bests[1], Tail(bests))

\* count_part, fill_part: every thread writes behind what those before it counted.
IsCandidate(i) == law[i] * Small > Heaviest
Candidates(n) ==
  LET count(t)  == Quantify(Share(t, n), IsCandidate)
      offset(t) == MapThenSumSet(count, 0..t - 1)
      place(i)  == LET t == CHOOSE s \in 0..n - 1 : i \in Share(s, n)
                   IN  offset(t) + Quantify({j \in Share(t, n) : j <= i}, IsCandidate)
  IN  [q \in 1..offset(n) |-> CHOOSE i \in Toks : IsCandidate(i) /\ place(i) = q]

\* The insertion sort of the candidates; qsort leaves equals in any order.
Inserted(s, i) ==
  SelectSeq(s, LAMBDA j : law[j] >= law[i]) \o <<i>> \o SelectSeq(s, LAMBDA j : law[j] < law[i])
Sorted(s) == FoldLeft(Inserted, <<>>, s)
AnyOrder == {s \in [Toks -> Toks] : IsInjective(s) /\ \A q \in 1..V - 1 : law[s[q]] >= law[s[q + 1]]}

Covers(S) == 100 * Mass(S) >= top * Mass(Toks)

\* The shortest beginning of s with the mass asked for, all of it if there is none.
HeadOf(s) ==
  LET reach == {q \in DOMAIN s : Covers({s[r] : r \in 1..q})}
  IN  {s[q] : q \in 1..(IF reach = {} THEN Len(s) ELSE Min(reach))}

\* dist_build of sample.c: the candidates alone if they are few and enough.
Build(n) ==
  LET c == Candidates(n)
  IN  /\ top < 100
      /\ IF Covers(Range(c)) /\ Len(c) > 0 /\ Len(c) < V \div Few
         THEN kept' = HeadOf(Sorted(c))
         ELSE \E s \in AnyOrder : kept' = HeadOf(s)

\* dist_build of glm.c: everything is sorted.
BuildGlm == top < 100 /\ \E s \in AnyOrder : kept' = HeadOf(s)

BuildWhole == top = 100 /\ kept' = Toks

-----------------------------------------------------------------------------
\* g_pbuf over its sum; the random number u stands for (2u + 1) / 2Grid.
Weight(i) == IF i \in kept THEN law[i] ELSE 0
Whole == Mass(kept)

\* spec_decode: rndu() < g_pbuf[draft].
Accepts(d, u) == (2 * u + 1) * Whole < 2 * Grid * Weight(d)

\* Mutant: what is banned keeps its part of the random numbers.
SampleAsBefore(u, b) ==
  LET upTo(i) == MapThenSumSet(Weight, 1..i \ {b})
      hit == {i \in Toks \ {b} : 2 * Grid * upTo(i) >= (2 * u + 1) * Whole}
  IN  IF hit # {} THEN Min(hit) ELSE Max({i \in Toks \ {b} : Weight(i) > 0} \cup {1})
\* dist_sample, without the banned token; at the end the last that has a weight.
Sample(u, b) ==
  LET upTo(i) == MapThenSumSet(Weight, 1..i \ {b})
      z == Whole - (IF b = NoToken THEN 0 ELSE Weight(b))
      hit == {i \in Toks \ {b} : 2 * Grid * upTo(i) >= (2 * u + 1) * z}
  IN  IF hit # {} THEN Min(hit) ELSE Max({i \in Toks \ {b} : Weight(i) > 0} \cup {1})

-----------------------------------------------------------------------------
Init ==
  /\ law \in Laws /\ top \in Tops
  /\ kept = {} /\ guess = NoToken /\ ban = NoToken /\ drawn = NoToken /\ at = "logits"

\* pick_tok without temperature, one thread or several.
Greedy(n) ==
  /\ at = "logits" /\ drawn' = BestOf(n) /\ at' = "greedy"
  /\ UNCHANGED <<law, top, kept, guess, ban>>

Distribution(d) ==
  /\ at = "logits" /\ guess' = d
  /\ (\E n \in Teams : Build(n)) \/ BuildGlm \/ BuildWhole
  /\ at' = IF d = NoToken THEN "pick" ELSE "verify"
  /\ UNCHANGED <<law, top, ban, drawn>>

\* The draft of spec_decode against the logits before it; the token after a
\* refusal is picked from the same logits.
Verify(u) ==
  /\ at = "verify"
  /\ IF Accepts(guess, u) THEN drawn' = guess /\ at' = "said" /\ UNCHANGED ban
     ELSE ban' = guess /\ at' = "pick" /\ UNCHANGED drawn
  /\ UNCHANGED <<law, top, kept, guess>>

Pick(u) ==
  /\ at = "pick" /\ drawn' = Sample(u, ban) /\ ban' = NoToken /\ at' = "said"
  /\ UNCHANGED <<law, top, kept, guess>>

Next ==
  \/ \E n \in Teams : Greedy(n)
  \/ \E d \in Toks \cup {NoToken} : Distribution(d)
  \/ \E u \in Units : Verify(u) \/ Pick(u)
Spec == Init /\ [][Next]_vars

-----------------------------------------------------------------------------
TypeOK ==
  /\ law \in Laws /\ top \in Tops /\ kept \subseteq Toks
  /\ {guess, ban, drawn} \subseteq Toks \cup {NoToken}

\* However it is sorted, the nucleus is a smallest set of the heaviest tokens
\* with the mass asked for.
NucleusTrue ==
  (at \in {"pick", "verify"} /\ top < 100) =>
    /\ Covers(kept) /\ \A i \in kept, j \in Toks \ kept : law[i] >= law[j]
    /\ \E i \in kept : (\A j \in kept : law[i] <= law[j]) /\ ~Covers(kept \ {i})

(* "La distribuzione risultante e' ESATTAMENTE p": a draft accepted or       *)
(* refused and picked again, a token comes out as often as it would with no  *)
(* draft, and never one that the nucleus cut.                                *)
LosslessLaw ==
  (at = "verify" \/ (at = "pick" /\ ban = NoToken)) =>
    LET accepted == IF guess = NoToken THEN 0
                    ELSE Quantify(Units, LAMBDA u : Accepts(guess, u))
        often(t) == Grid * (IF t = guess THEN accepted ELSE 0)
                    + (Grid - accepted) * Quantify(Units, LAMBDA u : Sample(u, guess) = t)
    IN  \A t \in Toks : often(t) * Whole = Grid * Grid * Weight(t)

\* Without a temperature any team finds what one thread finds.
GreedyTrue == at = "greedy" => drawn = FirstHeaviest(Toks)

DistTrue == NucleusTrue /\ LosslessLaw /\ GreedyTrue
=============================================================================
