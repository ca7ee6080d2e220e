-------------------------------- MODULE MCText -------------------------------
(* Small instances of the parts of Text.  Grammars over three bytes: the     *)
(* shapes of the header's examples and of the tests (headers_tests.c,        *)
(* ht_grammar), a recursive rule, an ambiguous one, and two that the walker  *)
(* refuses.  Schemas of every kind, nested, and those that are refused.      *)
(* Tokenizers of both families, over a character of every class.             *)
EXTENDS Text

LitOf(s) == [of |-> <<"lit", s>>,   op |-> ""]
ClsOf(S) == [of |-> <<"cls", S>>,   op |-> ""]
RefTo(r) == [of |-> <<"ref", r>>,   op |-> ""]
Group(a) == [of |-> <<"group", a>>, op |-> ""]
Post(i, o) == [i EXCEPT !.op = o]

Quoted    == [root |-> <<<<LitOf(<<1>>), Post(ClsOf({2, 3}), "*"), LitOf(<<1>>)>>>>]
OneOf     == [root |-> <<<<LitOf(<<1>>), Group(<<<<LitOf(<<2>>)>>, <<LitOf(<<3>>)>>>>), LitOf(<<2, 1>>)>>>>]
Rows      == [root |-> <<<<Post(RefTo("row"), "+")>>>>, row |-> <<<<LitOf(<<1, 2>>), LitOf(<<3>>)>>>>]
Plus      == [root |-> <<<<Post(LitOf(<<1, 2>>), "+"), LitOf(<<3>>)>>>>]
Maybe     == [root |-> <<<<Post(LitOf(<<1>>), "?"), Post(Group(<<<<LitOf(<<2>>)>>, <<LitOf(<<1, 3>>)>>>>), "?"), LitOf(<<3>>)>>>>]
Nested    == [root |-> <<<<LitOf(<<1>>), RefTo("in"), LitOf(<<2>>)>>>>,
              in   |-> <<<<RefTo("root")>>, <<LitOf(<<>>)>>, <<LitOf(<<3>>)>>>>]
Ambiguous == [root |-> <<<<LitOf(<<1, 1>>), Post(LitOf(<<2>>), "*")>>, <<Post(LitOf(<<1>>), "*"), LitOf(<<3>>)>>>>]
Wide      == [root |-> <<<<LitOf(<<1>>), Group([n \in 1..5 |-> <<LitOf(<<(n % 2) + 2>>)>>])>>>>]
LeftRec   == [root |-> <<<<RefTo("root"), LitOf(<<1>>)>>, <<LitOf(<<2>>)>>>>]
EmptyStar == [root |-> <<<<Post(Group(<<<<Post(LitOf(<<1>>), "?")>>>>), "*"), LitOf(<<2>>)>>>>]

TheGrammars == <<Quoted, OneOf, Rows, Plus, Maybe, Nested, Ambiguous, Wide, LeftRec, EmptyStar>>
OneOrTwo    == {<<1>>, <<2>>, <<3>>, <<1, 2>>, <<3, 1>>}

\* Strings "a" and "b", the integer 1 and the number 1.5; null is 203.
TheTerminals == [string |-> {97, 98}, integer |-> {49}, number |-> {49, 301}]
A == 97
B == 98
OfType(t) == <<"type", t>>
Whole == OfType("integer")
List(s, min) == <<"array", s, min>>
Object(props, required) == <<"object", props, required>>

TheSchemas ==
  <<OfType("string"), Whole, OfType("number"), OfType("boolean"), OfType("null"),
    OfType("date"), <<"other">>, <<"const", 49>>, <<"enum", <<97, 203>>>>, <<"enum", <<>>>>,
    Object(<<>>, {}), Object(<<<<A, Whole>>>>, {}),
    Object(<<<<A, Whole>>, <<B, OfType("string")>>>>, {}),
    Object(<<<<A, Whole>>, <<B, OfType("string")>>>>, {{A, B}}),
    Object(<<<<A, Whole>>, <<B, OfType("string")>>>>, {{A}}),
    List(Whole, 0), List(Whole, 1), List(Whole, 2), List(List(Whole, 0), 0),
    List(Object(<<<<A, Whole>>>>, {{A}}), 1),
    Object(<<<<A, List(List(List(Whole, 0), 0), 0)>>>>, {{A}})>>

\* Characters; "e" stands for one of two bytes.
TheChars == {"s", "l", "e", "1", "_", "n", "'", "."}
TheClass == [c \in TheChars |->
  CASE c \in {"s", "l", "e"} -> "letter" [] c = "1" -> "digit"
    [] c = "_" -> "space" [] c = "n" -> "newline" [] OTHER -> "mark"]
TheBytes == [c \in TheChars |-> IF c = "e" THEN <<"e1", "e2">> ELSE <<c>>]
Marked == {<<".", "l">>, <<".", "l", "1">>}
Ranked == [
   vocab |-> {<<b>> : b \in (TheChars \ {"e"}) \cup {"e1", "e2"}} \cup Marked
             \cup {<<"e1", "e2">>, <<"_", "l">>, <<"l", "l">>, <<"l", "s", "l">>, <<"s", "l">>},
   merges |-> <<<<<<"e1">>, <<"e2">>>>, <<<<"s">>, <<"l">>>>, <<<<"l">>, <<"l">>>>, <<<<"_">>, <<"l">>>>>>]
Digits == [format |-> "json", fallback |-> FALSE, normalizers |-> <<>>, added |-> Marked,
           pretokenizers |-> <<"digits", "regex">>, vocab |-> Ranked.vocab, merges |-> Ranked.merges]
Gguf == [format |-> "gguf", control |-> Marked, vocab |-> Ranked.vocab, merges |-> Ranked.merges]
Pieced ==
  [format |-> "json", fallback |-> TRUE, normalizers |-> <<"prepend", "replace">>,
   pretokenizers |-> <<>>, added |-> Marked,
   vocab |-> {<<"metaspace">>, <<"metaspace", "l">>, <<"l">>, <<"s">>, <<"l", "s">>, <<".">>},
   merges |-> <<<<<<"metaspace">>, <<"l">>>>, <<<<"l">>, <<"s">>>>>>]
TheTokenizers == {Digits, Gguf, Pieced}
TheDouble == {<<"l", "l">>}

\* Four tokens whose weights divide the grid.
TheLaws == {l \in [1..4 -> 0..2] : l[1] + l[2] + l[3] + l[4] \in 1..6}
=============================================================================
