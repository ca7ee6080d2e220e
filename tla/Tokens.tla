-------------------------------- MODULE Tokens -------------------------------
(* src/c/tok/tok.h: text to tokens and back.  The text is cut at the added   *)
(* tokens, what is between them by the regular expression of the file, and   *)
(* the pieces by the ranks of the merges; a sentencepiece file has no second *)
(* cut, and bytes for what it has no token for.  A token is the text it      *)
(* stands for, with the way it is said: whole, as a byte, or added.          *)
EXTENDS Integers, Sequences, SequencesExt, FiniteSets

CONSTANTS
  Files,      \* tokenizer files; see TokensAssumption
  Chars,      \* characters of a text
  Class,      \* of each: "letter", "digit", "space", "newline" or "mark"
  Quote, Blank, Single, Double,  \* the apostrophe and the space; what follows
              \* the former in a contraction, one letter or two
  Bytes,      \* of each character, a sequence
  MaxText     \* bound: characters of a text

VARIABLES
  file,       \* the tokenizer as it was loaded
  text
vars == <<file, text>>

Metaspace == "metaspace"

-----------------------------------------------------------------------------
\* tok_load: the family and its variants, from what tokenizer.json declares.
LoadedJson(f) ==
  [pieces   |-> IF f.fallback THEN "sentences" ELSE "bytes",
   presplit |-> Len(f.pretokenizers) > 1 /\ f.pretokenizers[1] = "digits",
   prefix   |-> "prepend" \in Range(f.normalizers),
   vocab |-> f.vocab, merges |-> f.merges, added |-> f.added]

\* tok_load_gguf: bytes only; the control tokens are the added ones.
LoadedGguf(f) ==
  [pieces |-> "bytes", presplit |-> FALSE, prefix |-> FALSE,
   vocab |-> f.vocab, merges |-> f.merges, added |-> {s \in f.vocab : s \in f.control}]

Loaded == {LoadedJson(f) : f \in {h \in Files : h.format = "json"}}
          \cup {LoadedGguf(f) : f \in {h \in Files : h.format = "gguf"}}

TokensAssumption ==
  \A f \in Loaded :
    \* merges only make tokens, and no byte is without one
    /\ \A m \in Range(f.merges) : m[1] \o m[2] \in f.vocab
    /\ IF f.pieces = "bytes" THEN \A c \in Chars : \A b \in Range(Bytes[c]) : <<b>> \in f.vocab
       ELSE <<Metaspace>> \in f.vocab

Whole(s) == [say |-> "whole", of |-> s]
Byte(b)  == [say |-> "byte", of |-> <<b>>]
Added(s) == [say |-> "added", of |-> s]

-----------------------------------------------------------------------------
\* pretok_chunk: the alternatives in their order, where the piece at i ends.
Is(c, i, class) == i <= Len(c) /\ Class[c[i]] = class
White(c, i) == Is(c, i, "space") \/ Is(c, i, "newline")
Run(c, i, P(_)) == CHOOSE j \in i..Len(c) + 1 : (\A n \in i..j - 1 : P(n)) /\ (j <= Len(c) => ~P(j))

Contraction(c, i) ==
  IF c[i] # Quote THEN 0
  ELSE IF i + 2 <= Len(c) /\ SubSeq(c, i + 1, i + 2) \in Double THEN i + 3
  ELSE IF i + 1 <= Len(c) /\ c[i + 1] \in Single THEN i + 2 ELSE 0

Word(c, i) ==
  LET led == ~Is(c, i, "letter") /\ ~Is(c, i, "newline") /\ ~Is(c, i, "digit")
      j == IF led THEN i + 1 ELSE i
  IN  IF Is(c, j, "letter") THEN Run(c, j, LAMBDA n : Is(c, n, "letter")) ELSE 0

Number(c, i) ==
  IF Is(c, i, "digit") THEN Min({Run(c, i, LAMBDA n : Is(c, n, "digit")), i + 3}) ELSE 0

Mark(c, i) ==
  LET j == IF c[i] = Blank /\ Is(c, i + 1, "mark") THEN i + 1 ELSE i
  IN  IF Is(c, j, "mark")
      THEN Run(c, Run(c, j, LAMBDA n : Is(c, n, "mark")), LAMBDA n : Is(c, n, "newline")) ELSE 0

\* Mutant: the last space is not left to the word behind it.
BlanksAll(c, i) ==
  LET r == Run(c, i, LAMBDA n : White(c, n))
      ends == {n \in i..r - 1 : Is(c, n, "newline")}
  IN  IF ends # {} THEN Max(ends) + 1 ELSE r

Blanks(c, i) ==
  LET r == Run(c, i, LAMBDA n : White(c, n))
      ends == {n \in i..r - 1 : Is(c, n, "newline")}
  IN  IF ends # {} THEN Max(ends) + 1
      ELSE IF r > Len(c) THEN r ELSE Max({r - 1, i + 1})

PieceEnd(c, i) ==
  LET ends == <<Contraction(c, i), Word(c, i), Number(c, i), Mark(c, i), Blanks(c, i)>>
  IN  ends[CHOOSE n \in 1..5 : ends[n] # 0 /\ \A m \in 1..n - 1 : ends[m] = 0]

\* Pieces of c, given where each ends.
Cut(c, End(_, _)) ==
  LET From[i \in 1..Len(c) + 1] ==
        IF i > Len(c) THEN <<>> ELSE <<SubSeq(c, i, End(c, i) - 1)>> \o From[End(c, i)]
  IN  From[1]

\* pretok_digit_segments: up to three digits, or what is between digits.
SegmentEnd(c, i) ==
  IF Is(c, i, "digit") THEN Number(c, i) ELSE Run(c, i, LAMBDA n : ~Is(c, n, "digit"))

Pieces(f, c) ==
  IF f.presplit THEN FlattenSeq([n \in DOMAIN Cut(c, SegmentEnd) |-> Cut(Cut(c, SegmentEnd)[n], PieceEnd)])
  ELSE Cut(c, PieceEnd)

-----------------------------------------------------------------------------
\* bpe_core: of the neighbours that merge, the first of those of least rank.
Rank(f, l, r) == CHOOSE n \in DOMAIN f.merges : f.merges[n] = <<l, r>>
Merges(f, s) == {i \in 1..Len(s) - 1 : <<s[i], s[i + 1]>> \in Range(f.merges)}
Best(f, s) ==
  LET rank(i) == Rank(f, s[i], s[i + 1])
  IN  CHOOSE i \in Merges(f, s) :
        \A j \in Merges(f, s) : rank(i) < rank(j) \/ (rank(i) = rank(j) /\ i <= j)
Joined(s, i) == SubSeq(s, 1, i - 1) \o <<s[i] \o s[i + 1]>> \o SubSeq(s, i + 2, Len(s))
Merged(f, s) ==
  LET After[n \in 0..Len(s)] ==
        IF n = 0 THEN s
        ELSE IF Merges(f, After[n - 1]) = {} THEN After[n - 1]
        ELSE Joined(After[n - 1], Best(f, After[n - 1]))
  IN  After[Len(s)]

\* What a symbol is said as; without a token, byte by byte or not at all.
BytesOf(s) == FlattenSeq([n \in DOMAIN s |-> Bytes[s[n]]])
Bytewise(f, s) ==
  IF s \in f.vocab THEN <<Whole(s)>>
  ELSE IF f.pieces = "sentences" THEN [n \in DOMAIN BytesOf(s) |-> Byte(BytesOf(s)[n])] ELSE <<>>
Core(f, s) ==
  IF s \in f.vocab THEN <<Whole(s)>>
  ELSE LET m == Merged(f, [n \in DOMAIN s |-> <<s[n]>>])
       IN  FlattenSeq([n \in DOMAIN m |-> Bytewise(f, m[n])])

\* bpe_piece, sp_piece
BytePiece(f, c) == Core(f, BytesOf(c))
SentencePiece(f, c, first) ==
  Core(f, (IF first /\ f.prefix THEN <<Metaspace>> ELSE <<>>)
          \o [n \in DOMAIN c |-> IF c[n] = Blank THEN Metaspace ELSE c[n]])

\* tok_encode: the next added token, the longest of those that begin there.
StartsAt(f, t, j) == {s \in f.added : j + Len(s) - 1 <= Len(t) /\ SubSeq(t, j, j + Len(s) - 1) = s}
LongestOf(S) == CHOOSE s \in S : \A r \in S : Len(r) <= Len(s)
Hit(f, t, i) == {j \in i..Len(t) : StartsAt(f, t, j) # {}}

Between(f, c, first) ==
  IF c = <<>> THEN <<>>
  ELSE IF f.pieces = "sentences" THEN SentencePiece(f, c, first)
  ELSE FlattenSeq([n \in DOMAIN Pieces(f, c) |-> BytePiece(f, Pieces(f, c)[n])])

Encode(f, t) ==
  LET From[i \in 1..Len(t) + 1] ==
        IF i > Len(t) THEN <<>>
        ELSE IF Hit(f, t, i) = {} THEN Between(f, SubSeq(t, i, Len(t)), i = 1)
        ELSE LET j == Min(Hit(f, t, i))
                 s == LongestOf(StartsAt(f, t, j))
             IN  Between(f, SubSeq(t, i, j - 1), i = 1) \o <<Added(s)>> \o From[j + Len(s)]
  IN  From[1]

\* tok_decode: the bytes behind tokens; a metaspace is a space.
Decoded(tok) ==
  IF tok.say = "added" THEN BytesOf(tok.of)
  ELSE IF tok.say = "byte" \/ file.pieces = "bytes" THEN tok.of
  ELSE BytesOf([n \in DOMAIN tok.of |-> IF tok.of[n] = Metaspace THEN Blank ELSE tok.of[n]])
Decode(toks) == FlattenSeq([n \in DOMAIN toks |-> Decoded(toks[n])])

-----------------------------------------------------------------------------
\* The regular expression itself: what each alternative may match at i.
Splits(c, i, e) ==
  LET all(P(_), a, b) == \A n \in a..b : P(n)
      letter(n) == Is(c, n, "letter")
      newline(n) == Is(c, n, "newline")
      mark(n) == Is(c, n, "mark")
      w == SubSeq(c, i, e - 1)
  IN  << w[1] = Quote /\ (Tail(w) \in Double \/ Tail(w) \in {<<s>> : s \in Single}),
         all(letter, i + 1, e - 1) /\ (letter(i) \/ (e > i + 1 /\ ~newline(i) /\ ~Is(c, i, "digit"))),
         e <= i + 3 /\ all(LAMBDA n : Is(c, n, "digit"), i, e - 1),
         \E a \in {i} \cup (IF c[i] = Blank THEN {i + 1} ELSE {}) : \E b \in a..e - 1 :
            all(mark, a, b) /\ all(newline, b + 1, e - 1),
         all(LAMBDA n : White(c, n), i, e - 1) /\ newline(e - 1),
         all(LAMBDA n : White(c, n), i, e - 1) /\ (e > Len(c) \/ White(c, e)),
         all(LAMBDA n : White(c, n), i, e - 1) >>
Matches(c, i, n) == {e \in i + 1..Len(c) + 1 : Splits(c, i, e)[n]}
RegexEnd(c, i) == Max(Matches(c, i, CHOOSE n \in 1..7 :
                    Matches(c, i, n) # {} /\ \A m \in 1..n - 1 : Matches(c, i, m) = {}))

-----------------------------------------------------------------------------
\* A text is written, and encoded at each of its lengths.
Init == file \in Loaded /\ text = <<>>
Write(c) == Len(text) < MaxText /\ text' = Append(text, c) /\ UNCHANGED file
Next == \E c \in Chars : Write(c)
Spec == Init /\ [][Next]_vars

TypeOK == file \in Loaded /\ text \in Seq(Chars)

\* The pieces are those of the regular expression.
SplitTrue == Cut(text, PieceEnd) = Cut(text, RegexEnd)

\* Nothing that could be merged is left, unless the piece is a token itself.
FullyMerged ==
  LET s == [n \in DOMAIN BytesOf(text) |-> <<BytesOf(text)[n]>>]
  IN  Merges(file, Merged(file, s)) = {}

(* The text comes back from its tokens, byte for byte, behind the space that *)
(* a sentencepiece file may put before it.                                   *)
ComesBack ==
  LET led == file.pieces = "sentences" /\ file.prefix /\ text # <<>> /\ StartsAt(file, text, 1) = {}
  IN  Decode(Encode(file, text)) = (IF led THEN Bytes[Blank] ELSE <<>>) \o BytesOf(text)
TokensTrue == SplitTrue /\ FullyMerged /\ ComesBack
=============================================================================
