------------------------------ MODULE MCLibrary ------------------------------
(* Pointers are numbers, and the hash leaves a third of them on the same     *)
(* cell.                                                                     *)
EXTENDS Library, Integers

MCPointers == 2..6
MCHash(p, cap) == (p * p) % cap

\* A cache of three slots for four experts, one of them pinned, under batches
\* only, and one with a slot for each under both paths.
SmallAndWhole == {[cap |-> 3, pins |-> <<2>>, paths |-> {"batch"}],
                  [cap |-> E, pins |-> <<2>>, paths |-> {"single", "batch"}]}

\* Fewer slots than experts, one token at a time.
SmallAndSingle == {[cap |-> 3, pins |-> <<>>, paths |-> {"single"}]}

\* Three layers of one or two matrices, and budgets that keep none of them,
\* some of them and all of them.
MCShapes == {<<1>>, <<2, 1>>, <<1, 3>>}
MCBudgets == {0, 3} \cup 5..13

\* Snapshots with and without a head of their own, a prefix, rows of a
\* multiple of 32 or of four; containers of pack_r4.py; GGUF files.
Plain == [gguf |-> FALSE, dtype |-> "BF16", vl |-> FALSE, tie |-> TRUE, head |-> FALSE,
          d32 |-> TRUE, i32 |-> TRUE, o4 |-> TRUE, short |-> TRUE, v1 |-> FALSE, form |-> "Q4R4"]
MCCheckpoints ==
  {Plain, [Plain EXCEPT !.vl = TRUE, !.i32 = FALSE], [Plain EXCEPT !.tie = FALSE],
   [Plain EXCEPT !.head = TRUE], [Plain EXCEPT !.tie = FALSE, !.head = TRUE, !.o4 = FALSE],
   [Plain EXCEPT !.d32 = FALSE], [Plain EXCEPT !.d32 = FALSE, !.short = FALSE],
   [Plain EXCEPT !.d32 = FALSE, !.tie = FALSE, !.head = TRUE],
   [Plain EXCEPT !.v1 = TRUE], [Plain EXCEPT !.v1 = TRUE, !.form = "Q8R4", !.tie = FALSE, !.vl = TRUE],
   [Plain EXCEPT !.gguf = TRUE, !.dtype = "Q4_0"], [Plain EXCEPT !.gguf = TRUE, !.dtype = "Q4_K"]}
\* What packs, four ways to pack and eight more to open.
Pack == [bits |-> 4, r4 |-> TRUE, q8 |-> {}, disk |-> FALSE, table8 |-> FALSE, mmap |-> TRUE,
         how |-> "resident", group |-> 32]
MCOpens ==
  {Pack, [Pack EXCEPT !.q8 = {"q"}],
   [Pack EXCEPT !.q8 = {"q", "k", "v", "head"}, !.disk = TRUE],
   [Pack EXCEPT !.r4 = FALSE], [Pack EXCEPT !.r4 = FALSE, !.group = 0, !.mmap = FALSE],
   [Pack EXCEPT !.bits = 8], [Pack EXCEPT !.bits = 0, !.table8 = TRUE], [Pack EXCEPT !.bits = 2],
   [Pack EXCEPT !.bits = -1], [Pack EXCEPT !.how = "stream"], [Pack EXCEPT !.bits = 0, !.how = "micro"]}
MCRowBlocks == [q |-> 2, k |-> 1, v |-> 1, down |-> 3, head |-> 3]
=============================================================================
