------------------------------- MODULE Grammar -------------------------------
(* Drafts from a grammar: the compiler and the walker of                     *)
(* src/c/util/grammar.h, fed by spec_decode of src/c/engines/glm.c with the  *)
(* bytes of every token it emits.  The walker is a set of stacks of frames   *)
(* (rule, alternative, next symbol); a stack is normal when its top is at a  *)
(* class of bytes or when it is empty.  A rule without a name is named by    *)
(* the item it was made for.  Whether a draft is right is not this module's  *)
(* matter (SpecDecode: any draft is verified), but what it is drafted from.  *)
EXTENDS Naturals, Sequences, SequencesExt, FiniteSets

CONSTANTS Sources,     \* the grammars, a sequence
          Long,        \* words are enumerated up to this length
          Bytes,
          Tokens,      \* what one token may decode to
          MaxDepth,    \* GR_MAX_DEPTH, 64 in the source
          MaxStacks,   \* GR_MAX_STACKS, 64 in the source
          DraftBytes,  \* the buffer of grammar_draft, 511 bytes in the source
          DraftMax,    \* g_gr_max: tokens of one draft
          FeedBytes,   \* what gr_feed decodes of a token, 63 bytes in the source
          GuardAt,     \* proposals after which the adaptive guard judges, 32
          MaxSaid,     \* bound: bytes of an answer
          MaxProp      \* bound: tokens proposed in a run

VARIABLES g,         \* the grammar (GRAMMAR=file)
          walker,    \* [on, armed, alive, st]: g_gr_on, g_gr_armed, g_gst
          prop, acc, \* g_gr_prop, g_gr_acc
          said,      \* the bytes of the answer so far
          doc        \* of those, the bytes since the walker was last at the root

vars == <<g, walker, prop, acc, said, doc>>
-----------------------------------------------------------------------------
(* What a grammar means, as the header of src/c/util/grammar.h defines it:   *)
(* literals, classes, references, groups, the postfixes ? * + and            *)
(* alternatives.  A grammar is a function from rule names to alternatives,   *)
(* an alternative a sequence of items [of |-> an atom, op |-> a postfix or   *)
(* ""]; its words are the least fixed point of its rules.                    *)
Cat(A, B) == {w \in {a \o b : a \in A, b \in B} : Len(w) <= Long}

RECURSIVE Closure(_, _)
Closure(W, X) ==
  LET Y == X \cup Cat(W, X) IN IF Y = X THEN X ELSE Closure(W, Y)

RECURSIVE WordsOfAlts(_, _)
WordsOfAtom(a, env) ==
  CASE a[1] = "lit"   -> {a[2]}
    [] a[1] = "cls"   -> {<<b>> : b \in a[2]}
    [] a[1] = "group" -> WordsOfAlts(a[2], env)
    [] a[1] = "ref"   -> env[a[2]]

WordsOfItem(i, env) ==
  LET W == WordsOfAtom(i.of, env)
  IN  CASE i.op = ""  -> W
        [] i.op = "?" -> W \cup {<<>>}
        [] i.op = "*" -> Closure(W, {<<>>})
        [] i.op = "+" -> Cat(W, Closure(W, {<<>>}))

WordsOfAlts(alts, env) ==
  UNION {FoldLeft(LAMBDA W, i : Cat(W, WordsOfItem(i, env)), {<<>>}, alts[n]) :
           n \in DOMAIN alts}

RECURSIVE Fixpoint(_, _)
Fixpoint(src, env) ==
  LET next == [r \in DOMAIN src |-> WordsOfAlts(src[r], env)]
  IN  IF next = env THEN env ELSE Fixpoint(src, next)

\* The words of each grammar, and the beginnings of words.
Language == [s \in DOMAIN Sources |->
               Fixpoint(Sources[s], [r \in DOMAIN Sources[s] |-> {}])["root"]]
Beginnings == [s \in DOMAIN Sources |-> UNION {Prefixes(w) : w \in Language[s]}]
-----------------------------------------------------------------------------
\* gr__alts, gr__postfix: the alternatives of every rule, named or made for an
\* item.  A literal is one class per byte, and a postfix applies to the whole.
Plain(atom) ==
  CASE atom[1] = "lit" -> [i \in DOMAIN atom[2] |-> <<"cls", {atom[2][i]}>>]
    [] atom[1] \in {"cls", "group", "ref"} -> <<atom>>

SymbolsOf(item) ==
  IF item.op = "" \/ Plain(item.of) = <<>> THEN Plain(item.of) ELSE <<<<"rep", item>>>>

Symbols(alt) == FlattenSeq([i \in DOMAIN alt |-> SymbolsOf(alt[i])])

\* Mutant: + may be empty.
RepetitionEmpty(item) ==
  << IF item.op = "?" THEN <<<<"one", item.of>>>> ELSE <<<<"one", item.of>>, <<"rep", item>>>>,
     <<>> >>

Repetition(item) ==
  LET I == <<"one", item.of>>
      R == <<"rep", item>>
  IN  << IF item.op = "?" THEN <<I>> ELSE <<I, R>>,
         IF item.op = "+" THEN <<I>> ELSE <<>> >>

Rule(rule) ==
  CASE rule[1] = "ref"   -> [n \in DOMAIN Sources[g][rule[2]] |-> Symbols(Sources[g][rule[2]][n])]
    [] rule[1] = "group" -> [n \in DOMAIN rule[2] |-> Symbols(rule[2][n])]
    [] rule[1] = "one"   -> <<Plain(rule[2])>>
    [] rule[1] = "rep"   -> Repetition(rule[2])
-----------------------------------------------------------------------------
\* gr__normalize: the normal stacks a stack branches into, or Overflow.
Overflow == <<[rule |-> <<"overflow">>, alt |-> 0, at |-> 0]>>
Enter(rule, n) == [rule |-> rule, alt |-> n, at |-> 1]
Past(k)        == [k EXCEPT ![Len(k)].at = @ + 1]
Ahead(k)       == Rule(k[Len(k)].rule)[k[Len(k)].alt]   \* the symbols of the top frame
AtEnd(k)       == k[Len(k)].at > Len(Ahead(k))
Symbol(k)      == Ahead(k)[k[Len(k)].at]

RECURSIVE Normal(_, _)
Normal(k, depth) ==
  IF k = <<>> THEN {k}
  ELSE IF AtEnd(k) THEN Normal(Front(k), depth)
  ELSE IF Symbol(k)[1] = "cls" THEN {k}
  ELSE IF depth >= MaxDepth \/ Len(k) >= MaxDepth THEN {Overflow}
  ELSE UNION {Normal(Append(Past(k), Enter(Symbol(k), n)), depth + 1) :
                n \in DOMAIN Rule(Symbol(k))}

\* Mutant: the number of stacks is not bounded.
DepthOverflows(st) == Overflow \in st

Overflows(st) == Overflow \in st \/ Cardinality(st) > MaxStacks

\* gr_state_init
AtRoot ==
  UNION {Normal(<<Enter(<<"ref", "root">>, n)>>, 0) : n \in DOMAIN Rule(<<"ref", "root">>)}

\* gr_accept: the stacks after byte b, none when it is refused.
After(st, b) ==
  UNION {Normal(Past(k), 0) : k \in {s \in st \ {<<>>} : b \in Symbol(s)[2]}}

\* gr_admissible
Admissible(st) == UNION {Symbol(k)[2] : k \in st \ {<<>>}}
CanEnd(st)     == <<>> \in st

\* Mutant: a draft goes on where the document may end.
RECURSIVE ForcedPastEnd(_, _)
ForcedPastEnd(st, n) ==
  IF n = 0 \/ Cardinality(Admissible(st)) # 1 THEN <<>>
  ELSE LET b == CHOOSE x \in Admissible(st) : TRUE
       IN  <<b>> \o ForcedPastEnd(After(st, b), n - 1)

\* gr_forced: at most n bytes.
RECURSIVE Forced(_, _)
Forced(st, n) ==
  IF n = 0 \/ Cardinality(Admissible(st)) # 1 \/ CanEnd(st) THEN <<>>
  ELSE LET b    == CHOOSE x \in Admissible(st) : TRUE
           next == After(st, b)
       IN  IF Overflows(next) THEN <<>> ELSE <<b>> \o Forced(next, n - 1)
-----------------------------------------------------------------------------
\* Mutant: a desync waits for the next byte.
RestartLater(w, b) == [w EXCEPT !.armed = FALSE, !.st = AtRoot]

\* One byte of gr_feed, with the bytes the walker has followed since the root.
Restart(w, b) ==
  LET again == After(AtRoot, b)
  IN  CASE Overflows(again) -> [w EXCEPT !.armed = FALSE, !.alive = FALSE, !.st = AtRoot]
        [] again = {}       -> [w EXCEPT !.armed = FALSE, !.st = AtRoot]
        [] OTHER            -> [w EXCEPT !.st = again]

FeedByte(s, b) ==
  LET next == After(s.w.st, b)
  IN  IF ~s.w.on THEN s
      ELSE IF ~s.w.alive THEN [s EXCEPT !.w.on = FALSE]
      ELSE IF Overflows(next) THEN [s EXCEPT !.w.on = FALSE, !.w.alive = FALSE]
      ELSE IF next # {}
        THEN [w |-> [s.w EXCEPT !.armed = TRUE, !.st = next], doc |-> Append(s.doc, b)]
      ELSE IF ~s.w.armed THEN s
      ELSE LET w == Restart(s.w, b)
           IN  [w |-> w, doc |-> IF w.armed THEN <<b>> ELSE <<>>]

\* gr_feed of one token, and of those said one after the other.
FeedToken(s, t) == FoldLeft(FeedByte, s, SubSeq(t, 1, Min({Len(t), FeedBytes})))
Fed(ts) == FoldLeft(FeedToken, [w |-> walker, doc |-> doc], ts)

\* grammar_draft: the guard, and the bytes it encodes as tokens.
Drafts(w)  == w.on /\ w.armed
Misses     == prop >= GuardAt /\ acc * 2 < prop
Draft(w)   == IF w.alive THEN Forced(w.st, DraftBytes) ELSE <<>>

\* tok_encode: where the tokens of the draft end, the last of them perhaps
\* before the bytes do; and the tokens.
Cuts(forced) ==
  {c \in UNION {[1..n -> 1..Len(forced)] : n \in 1..DraftMax} :
     \A i \in 1..Len(c) - 1 : c[i] < c[i + 1]}
Pieces(forced, c) ==
  [i \in DOMAIN c |-> SubSeq(forced, IF i = 1 THEN 1 ELSE c[i - 1] + 1, c[i])]

Say(t) == Len(said) + Len(t) <= MaxSaid /\ said' = said \o t

\* grammar_setup
Init ==
  /\ g \in DOMAIN Sources
  /\ LET ok == ~Overflows(AtRoot)
     IN  walker = [on |-> ok, armed |-> FALSE, alive |-> ok,
                   st |-> IF ok THEN AtRoot ELSE {}]
  /\ prop = 0 /\ acc = 0
  /\ said = <<>> /\ doc = <<>>

\* A token said with no grammar draft behind it: the last of a budget, one of
\* another source's draft, or one after which nothing is forced.
Emit(t) ==
  /\ Say(t)
  /\ walker' = Fed(<<t>>).w /\ doc' = Fed(<<t>>).doc
  /\ UNCHANGED <<g, prop, acc>>

\* A token said, after which the adaptive guard turns the drafts off.
GiveUp(t) ==
  /\ Say(t)
  /\ Drafts(Fed(<<t>>).w) /\ Misses
  /\ walker' = [Fed(<<t>>).w EXCEPT !.on = FALSE]
  /\ doc' = Fed(<<t>>).doc
  /\ UNCHANGED <<g, prop, acc>>

\* A token said and a draft verified, its first k tokens accepted.
Propose(t) ==
  /\ Drafts(Fed(<<t>>).w) /\ ~Misses
  /\ LET forced == Draft(Fed(<<t>>).w)
     IN  \E c \in Cuts(forced) : \E k \in 0..Len(c) :
           LET all == <<t>> \o SubSeq(Pieces(forced, c), 1, k)
           IN  /\ prop + Len(c) <= MaxProp
               /\ Say(FlattenSeq(all))
               /\ walker' = Fed(all).w
               /\ doc' = Fed(all).doc
               /\ prop' = prop + Len(c)
               /\ acc' = acc + k
  /\ UNCHANGED g

\* Mutant: an answer starts where the one before it stopped.
NewAnswerGoesOn == said' = <<>> /\ UNCHANGED <<g, walker, prop, acc, doc>>

\* grammar_reset, at the start of an answer (a continued one goes on as it is).
NewAnswer ==
  /\ said' = <<>>
  /\ IF walker.on
     THEN /\ walker' = [walker EXCEPT !.armed = FALSE, !.alive = TRUE, !.st = AtRoot]
          /\ doc' = <<>>
     ELSE UNCHANGED <<walker, doc>>
  /\ UNCHANGED <<g, prop, acc>>

Next ==
  \/ \E t \in Tokens : Emit(t) \/ GiveUp(t) \/ Propose(t)
  \/ NewAnswer

Spec == Init /\ [][Next]_vars
-----------------------------------------------------------------------------
Walking == walker.on /\ walker.alive

\* Every stack kept is normal, and there are no more of them than the array
\* holds (GrState of grammar.h).
TypeOK ==
  /\ g \in DOMAIN Sources
  /\ walker.on \in BOOLEAN /\ walker.armed \in BOOLEAN /\ walker.alive \in BOOLEAN
  /\ acc \in 0..prop /\ prop \in 0..MaxProp
  /\ said \in Seq(Bytes) /\ doc \in Seq(Bytes)
  /\ Cardinality(walker.st) <= MaxStacks
  /\ \A k \in walker.st : Len(k) <= MaxDepth

\* The walker is where the grammar is: the bytes it admits are those that
\* begin a word after what it has followed, and it may end where a word ends
\* (gr_accept and gr_admissible against the meaning of the grammar).
FollowsLanguage ==
  Walking =>
    /\ Admissible(walker.st) = {b \in Bytes : Append(doc, b) \in Beginnings[g]}
    /\ CanEnd(walker.st) <=> doc \in Language[g]

\* A draft is forced: no word that begins with what was followed differs from
\* it, or ends within it (gr_forced).
ForcedTrue ==
  (Walking /\ walker.armed) =>
    LET whole == doc \o Draft(walker)
    IN  \A w \in Language[g] : IsPrefix(doc, w) => IsPrefix(whole, w) \/ Len(whole) > Long

\* What the walker follows is the end of this answer, and nothing of the
\* answer before (gr_feed, grammar_reset).
DocOfAnswer == Walking => IsSuffix(doc, said)

\* While the walker waits for a document to begin, the byte just said could
\* not have begun one (gr_feed: a desync tries the byte again from the root).
NoStartMissed ==
  (Walking /\ ~walker.armed /\ said # <<>>) => <<Last(said)>> \notin Beginnings[g]

\* What a feed keeps: the shape of the stacks, and where a document began.
Consistent == TypeOK /\ DocOfAnswer /\ NoStartMissed

\* The header says what the cap on the depth is for: left recursion.  The
\* grammars of the run that checks this have none.
CapForLeftRecursion == walker.alive
=============================================================================
