-------------------------------- MODULE Schema -------------------------------
(* src/c/util/schema_gbnf.h: a JSON schema becomes a grammar that drafts the *)
(* answer (SCHEMA=file, Grammar).  A document is a sequence of lexemes: the  *)
(* six marks of JSON, a space, and whole strings, numbers and words.  A      *)
(* schema is <<"object", properties, required>>, <<"array", items, minItems>>,*)
(* <<"enum", values>>, <<"const", value>>, <<"type", name>> or <<"other">>;  *)
(* what is required is a set of names, none or one.                          *)
EXTENDS Integers, Sequences, SequencesExt, FiniteSets

CONSTANTS
  Schemas,    \* the schemas considered, a sequence
  Terminals,  \* the lexemes of "string", "number", "integer"
  MaxNest,    \* SGB_MAX_DEPTH, 32 in the source
  Longest,    \* bound: lexemes of a document
  Spaces      \* bound: spaces in it

VARIABLES
  schema,     \* SCHEMA
  text,       \* the answer so far
  stacks      \* where the walker of Grammar is with it
vars == <<schema, text, stacks>>

Open == 123
Close == 125
OpenList == 91
CloseList == 93
Comma == 44
Colon == 58
Space == 32
True == 201
False == 202
Nothing == 203
Marks == {Open, Close, OpenList, CloseList, Comma, Colon, Space, True, False, Nothing}
Lexemes == Marks \cup UNION {Terminals[t] : t \in DOMAIN Terminals}

-----------------------------------------------------------------------------
\* The grammar is built from items as Grammar has them.
Lit(x) == [of |-> <<"lit", <<x>>>>, op |-> ""]
Ref(r) == [of |-> <<"ref", r>>, op |-> ""]
Grp(alts, op) == [of |-> <<"group", alts>>, op |-> op]
Ws == Ref("jws")

\* sgb_object: no properties, whatever is required; no "required"; or every
\* property in it.
Strict(props, required) ==
  props # <<>> => required \subseteq {{props[i][1] : i \in DOMAIN props}}

\* What sgb_value does not refuse.
RECURSIVE Compiles(_, _)
Compiles(s, depth) ==
  /\ depth <= MaxNest
  /\ CASE s[1] = "object" -> /\ Strict(s[2], s[3])
                             /\ \A i \in DOMAIN s[2] : Compiles(s[2][i][2], depth + 1)
       [] s[1] = "array" -> s[3] <= 1 /\ Compiles(s[2], depth + 1)
       [] s[1] = "enum" -> s[2] # <<>>
       [] s[1] = "const" -> TRUE
       [] s[1] = "type" -> s[2] \in DOMAIN Terminals \cup {"boolean", "null"}
       [] OTHER -> FALSE

\* Mutant: no space behind a comma.
ListItemsTight(item, min) ==
  LET more == Grp(<<<<Lit(Comma)>> \o item \o <<Ws>>>>, "*")
      some == item \o <<Ws, more>>
  IN  <<Lit(OpenList), Ws>> \o (IF min = 1 THEN some ELSE <<Grp(<<some>>, "?")>>) \o <<Lit(CloseList)>>

\* sgb_array, with an element or perhaps none.
ListItems(item, min) ==
  LET more == Grp(<<<<Lit(Comma), Ws>> \o item \o <<Ws>>>>, "*")
      some == item \o <<Ws, more>>
  IN  <<Lit(OpenList), Ws>> \o (IF min = 1 THEN some ELSE <<Grp(<<some>>, "?")>>) \o <<Lit(CloseList)>>

\* sgb_value: the items of what compiles.
RECURSIVE Items(_)
Members(props) ==
  FlattenSeq([i \in DOMAIN props |->
    (IF i = 1 THEN <<>> ELSE <<Lit(Comma), Ws>>)
    \o <<Lit(props[i][1]), Ws, Lit(Colon), Ws>> \o Items(props[i][2]) \o <<Ws>>])
Items(s) ==
  CASE s[1] = "const" -> <<Lit(s[2])>>
    [] s[1] = "enum" -> <<Grp([i \in DOMAIN s[2] |-> <<Lit(s[2][i])>>], "")>>
    [] s[1] = "object" -> <<Lit(Open), Ws>> \o Members(s[2]) \o <<Lit(Close)>>
    [] s[1] = "array" -> ListItems(Items(s[2]), s[3])
    [] s = <<"type", "boolean">> -> <<Grp(<<<<Lit(True)>>, <<Lit(False)>>>>, "")>>
    [] s = <<"type", "null">> -> <<Lit(Nothing)>>
    [] OTHER -> <<Ref(s[2])>>

\* schema_to_gbnf: the value between spaces, and the rules it refers to.
Compiled(s) ==
  [r \in {"root", "jws"} \cup DOMAIN Terminals |->
     CASE r = "root" -> <<<<Ws>> \o Items(s) \o <<Ws>>>>
       [] r = "jws" -> <<<<[Lit(Space) EXCEPT !.op = "*"]>>>>
       [] OTHER -> <<<<[of |-> <<"cls", Terminals[r]>>, op |-> ""]>>>>]

Accepted == {i \in DOMAIN Schemas : Compiles(Schemas[i], 0)}
Grammars == [i \in DOMAIN Schemas |-> IF i \in Accepted THEN Compiled(Schemas[i]) ELSE <<>>]

\* grammar.h over it; what it admits is compared with the documents below.
Walk == INSTANCE Grammar WITH
  Sources <- Grammars, Long <- 0, g <- schema, Bytes <- Lexemes, Tokens <- {},
  MaxDepth <- 64, MaxStacks <- 64, DraftBytes <- 1, DraftMax <- 1, FeedBytes <- 1, GuardAt <- 1,
  MaxSaid <- Longest, MaxProp <- 1,
  walker <- stacks, prop <- 0, acc <- 0, said <- text, doc <- text

-----------------------------------------------------------------------------
\* The documents of a schema without spaces, members of its "properties" only.
\* What JSON and the schema say: an object's members have any order, and one
\* that is not required may be left out.  As narrow: every member is there, in
\* the order of "properties", which is what the header of schema_gbnf.h promises
\* to draft ("strict", "exact key order").
Joined(A, B) == {w \in {a \o b : a \in A, b \in B} : Len(w) <= Longest}

Lists(D) ==
  LET Of[n \in 1..Longest] == IF n = 1 THEN D ELSE Joined(Of[n - 1], Joined({<<Comma>>}, D))
  IN  UNION {Of[n] : n \in 1..Longest}

Named(props, o) == {props[i][1] : i \in Range(o)}
AnyOrder(props, required) ==
  {o \in SetToAllKPermutations(DOMAIN props) : \A names \in required : names \subseteq Named(props, o)}
AsDeclared(props) == {[i \in DOMAIN props |-> i]}

RECURSIVE Documents(_, _)
Documents(s, narrow) ==
  CASE s[1] = "const" -> {<<s[2]>>}
    [] s[1] = "enum" -> {<<s[2][i]>> : i \in DOMAIN s[2]}
    [] s[1] = "object" ->
         LET Member(i) == Joined({<<s[2][i][1], Colon>>}, Documents(s[2][i][2], narrow))
             Written(o) ==
               LET Of[n \in 0..Len(o)] ==
                     IF n = 0 THEN {<<>>}
                     ELSE Joined(Of[n - 1], Joined(IF n = 1 THEN {<<>>} ELSE {<<Comma>>}, Member(o[n])))
               IN  Of[Len(o)]
             orders == IF narrow THEN AsDeclared(s[2]) ELSE AnyOrder(s[2], s[3])
         IN  Joined({<<Open>>}, Joined(UNION {Written(o) : o \in orders}, {<<Close>>}))
    [] s[1] = "array" ->
         Joined({<<OpenList>>},
                Joined(Lists(Documents(s[2], narrow)) \cup (IF s[3] = 1 THEN {} ELSE {<<>>}),
                       {<<CloseList>>}))
    [] s = <<"type", "boolean">> -> {<<True>>, <<False>>}
    [] s = <<"type", "null">> -> {<<Nothing>>}
    [] OTHER -> {<<x>> : x \in Terminals[s[2]]}

Compact(t) == SelectSeq(t, LAMBDA x : x # Space)
AllDocuments == [i \in Accepted |-> Documents(Schemas[i], FALSE)]
StrictDocuments == [i \in Accepted |-> Documents(Schemas[i], TRUE)]

-----------------------------------------------------------------------------
\* grammar_setup; then an answer is written, with spaces wherever JSON has them.
Init == schema \in Accepted /\ text = <<>> /\ stacks = {}
Unset == text = <<>> /\ stacks = {}
Setup == Unset /\ stacks' = Walk!AtRoot /\ UNCHANGED <<schema, text>>
Write(x) ==
  /\ ~Unset
  /\ Len(Compact(Append(text, x))) <= Longest
  /\ x = Space => Len(text) - Len(Compact(text)) < Spaces
  /\ text' = Append(text, x) /\ stacks' = Walk!After(stacks, x)
  /\ stacks' # {} \/ \E d \in AllDocuments[schema] : IsPrefix(Compact(text'), d)
  /\ UNCHANGED schema
Next == Setup \/ \E x \in Lexemes : Write(x)
Spec == Init /\ [][Next]_vars

TypeOK == schema \in Accepted /\ text \in Seq(Lexemes) /\ ~Walk!Overflows(stacks)

(* Of a schema that is not refused (schema_to_gbnf), the grammar admits no    *)
(* text that is not a document by the meaning of JSON and the schema; and it  *)
(* admits exactly the documents with every declared member in its order, with *)
(* spaces at every place where JSON has them.                                 *)
SchemaTrue ==
  Unset \/ /\ Walk!CanEnd(stacks) => Compact(text) \in AllDocuments[schema]
           /\ Walk!CanEnd(stacks) <=> Compact(text) \in StrictDocuments[schema]

(* Not so: every document of the schema is admitted.  sgb_object makes every  *)
(* declared member mandatory, also without "required", and fixes their order. *)
EveryDocument == Unset \/ (Compact(text) \in AllDocuments[schema] => Walk!CanEnd(stacks))

(* Not so: "compact (no whitespace between tokens)" (header, line 11).        *)
CompactOnly == Walk!CanEnd(stacks) => text = Compact(text)
=============================================================================
