-------------------------------- MODULE Chat --------------------------------
(* The interactive chats of the engines: engine_main of                      *)
(* src/c/runtime/runtime.h with gen_turn (qwen, gemma, lfm2, qwenmoe), main  *)
(* of src/c/engines/olmoe.c with generate, and main of qwenmoe.c under       *)
(* SPEC_K with gen_turn_spec, whose drafts are in NgramSpec.  A token is     *)
(* named by its place in hist, the transcript.                               *)
EXTENDS Integers, FiniteSets

CONSTANTS Engines,    \* which chats: "shared", "olmoe", "ngram"
          MaxCtx,     \* CTX: positions of hist and of the KV cache
          Ngen,       \* NGEN
          Chunk,      \* PREFILL_CHUNK, 0 for none
          Bos,        \* tokens of a BOS, 0 or 1
          SuffixLen,  \* tokens that close an answer
          LineLens    \* tokens a line may have

ChatAssumption ==
  /\ Engines \subseteq {"shared", "olmoe", "ngram"}
  /\ {MaxCtx, Ngen} \subseteq Nat \ {0} /\ MaxCtx > 10 /\ {Chunk, SuffixLen} \subseteq Nat
  /\ Bos \in {0, 1} /\ LineLens \subseteq Nat \ {0}

RowsOfCtx == 0..MaxCtx - 1
Hole == -1        \* a row that holds no token of the transcript

VARIABLES
  engine,
  len,        \* len of the loop, where the turn begins
  kv,         \* per position: whose row it is
  stopped,    \* what gen_turn returned
  turn        \* pc, the prompt's tokens k, the budget cur, rows in, tokens out ng

vars == <<engine, len, kv, stopped, turn>>

NoTurn == [pc |-> "line", k |-> 0, cur |-> 0, in |-> 0, ng |-> 0]

Init ==
  /\ engine \in Engines /\ len = 0 /\ stopped = FALSE
  /\ kv = [p \in RowsOfCtx |-> Hole] /\ turn = NoTurn

Least(a, b) == IF a < b THEN a ELSE b
NotNegative(n) == IF n < 0 THEN 0 ELSE n

\* tok_encode of n tokens into what is left of hist.
Encoded(n, room) == Least(n, NotNegative(room))
Begins(l) == IF engine = "shared" /\ l = 0 THEN Bos ELSE 0
PromptLen(n, l) == Begins(l) + Encoded(n, MaxCtx - l - 2 - Begins(l))

\* The row of the first token of a turn.
Base == IF engine = "shared" THEN len ELSE 0

FullNever(l, k) == FALSE
Full(l, k) == l + k + 8 >= MaxCtx

CurUncut(l, k) == Ngen
Cur(l, k) == IF l + k + Ngen + 1 > MaxCtx THEN MaxCtx - l - k - 1 ELSE Ngen

\* Rows of tokens that hist no longer has at their place.
Overwritten(first) == [p \in RowsOfCtx |-> IF kv[p] >= first THEN Hole ELSE kv[p]]

\* A line is read; a full context starts a new conversation.
Line(n) ==
  /\ turn.pc = "line"
  /\ LET l == IF Full(len, PromptLen(n, len)) THEN 0 ELSE len
         k == PromptLen(n, l) IN
     /\ len' = l /\ kv' = Overwritten(l)
     /\ turn' = [pc |-> "prefill", k |-> k, cur |-> Cur(l, k), in |-> 0, ng |-> 0]
  /\ UNCHANGED <<engine, stopped>>

\* step(): the rows of n tokens of hist from place t on, at positions p ...
Forward(t, n, p) == kv' = [q \in RowsOfCtx |-> IF q \in p..p + n - 1 THEN t + q - p ELSE kv[q]]

\* step_chunked: blocks of Chunk, the last one with the logits.
ChunkLen ==
  IF engine = "shared" /\ Chunk > 0 /\ turn.k - turn.in > Chunk THEN Chunk ELSE turn.k - turn.in

ChunkPosLost == Base
ChunkPos == Base + turn.in

Prefill ==
  /\ turn.pc = "prefill"
  /\ Forward(len + turn.in, ChunkLen, ChunkPos)
  /\ turn' = [turn EXCEPT !.in = @ + ChunkLen,
                !.pc = IF turn.in + ChunkLen = turn.k THEN "pick" ELSE "prefill"]
  /\ UNCHANGED <<engine, len, stopped>>

\* A token is picked and written to hist; a stop or the budget ends the answer.
Pick(stop) ==
  /\ turn.pc = "pick"
  /\ stopped' = stop
  /\ turn' = [turn EXCEPT !.ng = @ + 1,
                !.pc = IF stop \/ turn.ng + 1 = turn.cur THEN "ends" ELSE "step"]
  /\ UNCHANGED <<engine, len, kv>>

Step ==
  /\ turn.pc = "step"
  /\ Forward(len + turn.in, 1, Base + turn.in)
  /\ turn' = [turn EXCEPT !.in = @ + 1, !.pc = "pick"]
  /\ UNCHANGED <<engine, len, stopped>>

SuffixUncut == IF engine = "shared" THEN SuffixLen ELSE 0

\* The suffix closes the answer in hist; the n-gram loop counts its whole budget.
Suffix == IF engine = "shared"
          THEN Encoded(SuffixLen, MaxCtx - len - turn.k - turn.ng) ELSE 0

TurnEnds ==
  /\ turn.pc = "ends"
  /\ len' = len + turn.k + (IF engine = "ngram" THEN turn.cur ELSE turn.ng) + Suffix
  /\ turn' = NoTurn
  /\ UNCHANGED <<engine, kv, stopped>>

Next ==
  \/ \E n \in LineLens : Line(n)
  \/ Prefill \/ \E stop \in {TRUE, FALSE} : Pick(stop) \/ Step \/ TurnEnds

Spec == Init /\ [][Next]_vars

-----------------------------------------------------------------------------
TypeOK ==
  /\ engine \in Engines /\ len \in 0..MaxCtx /\ stopped \in {TRUE, FALSE}
  /\ kv \in [RowsOfCtx -> RowsOfCtx \cup {Hole}]
  /\ turn \in [pc : {"line", "prefill", "pick", "step", "ends"}, k : Nat, cur : Int, in : Nat, ng : Nat]

(* Whatever lines are typed and however the context fills and starts anew:   *)
(* every forward has at least one token and stays within the cache, and so   *)
(* does every token that is written to hist, the answer's last one included. *)
InRoom ==
  /\ turn.pc = "prefill" => ChunkLen > 0 /\ ChunkPos + ChunkLen <= MaxCtx
  /\ turn.pc = "step" => Base + turn.in < MaxCtx
  /\ turn.pc # "line" => turn.cur > 0 /\ len + turn.k + turn.cur < MaxCtx

(* When a token is picked, every token of the turn so far has its row, one   *)
(* behind the other, however the prompt was cut into blocks.                 *)
TurnTrue ==
  turn.pc = "pick" => \A i \in 0..turn.in - 1 : kv[Base + i] = len + i

(* "KV persistente, storia append-only": when a token is picked, the rows    *)
(* before it are those of the whole transcript.                              *)
WholeTrue ==
  turn.pc = "pick" => \A p \in 0..len + turn.in - 1 : kv[p] = p
=============================================================================
