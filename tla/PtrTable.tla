------------------------------ MODULE PtrTable ------------------------------
(* The two pointer tables of src/c/nn/alloc.c: the tracker of an open model  *)
(* (trk_add, trk_del) and the registry of big blocks (big_put, big_find).    *)
(* Both are open-addressed, probe linearly, leave a tombstone where an entry *)
(* was and grow when half the cells have been used; they differ in how much  *)
(* they grow.                                                                *)
EXTENDS Integers, Sequences, FiniteSets, SequencesExt

CONSTANTS Pointers,
          Hash(_, _),   \* trk_h, big_h: the first cell of a pointer
          FirstCap,     \* 1024, 256
          Tables,       \* "tracker", "registry"
          MaxCap        \* a bound on the growth

Empty == 0
Dead  == 1    \* TRK_DEAD, BIG_DEAD

PtrTableAssumption ==
  /\ Tables \subseteq {"tracker", "registry"}
  /\ IsFiniteSet(Pointers) /\ Pointers \subseteq Nat \ {Empty, Dead} /\ FirstCap \in Nat \ {0, 1} /\ MaxCap \in Nat
  /\ \A p \in Pointers, cap \in 1..MaxCap : Hash(p, cap) \in 0..cap - 1

VARIABLES kind,    \* which of the two the table is
          table,   \* cells, cap, used (tombstones included), live
          answer,  \* what the last call returned
          oom      \* whether the allocation of a larger table has failed

vars == <<kind, table, answer, oom>>

Blank(cap) == [cells |-> [i \in 0..cap - 1 |-> Empty], cap |-> cap, used |-> 0, live |-> 0]
NoTable == Blank(0)

Init == kind \in Tables /\ table = NoTable /\ answer = <<"add", {}>> /\ oom = FALSE

Entry(c) == c \notin {Empty, Dead}
Stored == {table.cells[i] : i \in DOMAIN table.cells} \ {Empty, Dead}

-----------------------------------------------------------------------------
(* Probing                                                                   *)

Cell(t, p, k) == (Hash(p, t.cap) + k) % t.cap

\* the first cell from p's own on that holds one of S
Steps(t, p, S) == {k \in 0..t.cap - 1 : t.cells[Cell(t, p, k)] \in S}
First(t, p, S) ==
  LET ks == Steps(t, p, S) IN Cell(t, p, CHOOSE k \in ks : \A j \in ks : k <= j)

PutInUsed(t, p) ==
  LET i == First(t, p, {Empty, Dead}) IN
  [t EXCEPT !.cells[i] = p, !.live = @ + 1, !.used = @ + 1]

\* trk_add, big_put without the growth: the first cell without an entry
PutIn(t, p) ==
  LET i == First(t, p, {Empty, Dead}) IN
  [t EXCEPT !.cells[i] = p, !.live = @ + 1,
            !.used = IF t.cells[i] = Empty THEN @ + 1 ELSE @]

ProbeToDead(t, p) == First(t, p, {p, Empty, Dead})

\* trk_del, big_find: the probe ends at p or at a cell that was never used
Probe(t, p) == First(t, p, {p, Empty})
Found(t, p) == t.cap > 0 /\ t.cells[Probe(t, p)] = p

\* the cell is emptied, and cuts the probes that passed over it
TakenEmpty(t, p) == [t EXCEPT !.cells[Probe(t, p)] = Empty, !.live = @ - 1]
Taken(t, p) == [t EXCEPT !.cells[Probe(t, p)] = Dead, !.live = @ - 1]

-----------------------------------------------------------------------------
(* Growing: trk_grow, big_grow                                               *)

\* the registry rehashes without growing when most of its used cells are dead
NewCap(t) == IF t.cap = 0 THEN FirstCap
             ELSE IF kind = "registry" /\ (t.live + 1) * 4 <= t.cap THEN t.cap
             ELSE t.cap * 2

Kept(t) == [t EXCEPT !.cap = NewCap(t),
              !.cells = [i \in 0..NewCap(t) - 1 |-> IF i < t.cap THEN t.cells[i] ELSE Empty]]

\* the old cells one after the other, into the new table
Moved(t) ==
  LET moved[i \in 0..t.cap] ==
        IF i = 0 THEN Blank(NewCap(t))
        ELSE IF Entry(t.cells[i - 1]) THEN PutIn(moved[i - 1], t.cells[i - 1]) ELSE moved[i - 1]
  IN  moved
Grown(t) == Moved(t)[t.cap]

FullOneLate(t) == t.cap = 0 \/ t.used * 2 > t.cap
Full(t) == (t.used + 1) * 2 > t.cap

Put(t, p) == PutIn(IF Full(t) THEN Grown(t) ELSE t, p)

PutAll(t, q) ==
  LET put[i \in 0..Len(q)] == IF i = 0 THEN t ELSE Put(put[i - 1], q[i]) IN put

-----------------------------------------------------------------------------
(* The calls.  A pointer that is added is a block just allocated, so it is   *)
(* not in the table.                                                         *)

Bounded(t) == Full(t) => NewCap(t) <= MaxCap

\* g_big_mu, which a failure inside big_grow leaves locked
Unlocked == ~(oom /\ kind = "registry")

Add(p) ==
  /\ Unlocked /\ p \notin Stored
  /\ Bounded(table) /\ table' = Put(table, p) /\ answer' = <<"add", {}>>
  /\ UNCHANGED <<kind, oom>>

Delete(p) ==
  /\ Unlocked
  /\ IF Found(table, p) THEN table' = Taken(table, p) /\ answer' = <<"delete", p, {p}>>
     ELSE UNCHANGED table /\ answer' = <<"delete", p, {}>>
  /\ UNCHANGED <<kind, oom>>

\* moty_track_merge: the cells of the other table one after the other
Merge(S) ==
  /\ kind = "tracker" /\ S \cap Stored = {}
  /\ \E order \in SetToSeqs(S) :
        LET put == PutAll(table, order) IN
        /\ \A i \in 0..Len(order) - 1 : Bounded(put[i])
        /\ table' = put[Len(order)]
  /\ answer' = <<"add", {}>>
  /\ UNCHANGED <<kind, oom>>

\* moty_track_free_all
FreeAll ==
  /\ kind = "tracker"
  /\ answer' = <<"free_all", Stored>> /\ table' = NoTable
  /\ UNCHANGED <<kind, oom>>

Next == \/ \E p \in Pointers : Add(p) \/ Delete(p)
        \/ \E S \in SUBSET Pointers : Merge(S)
        \/ FreeAll
Spec == Init /\ [][Next]_vars

\* calloc fails: in trk_grow the old cells are lost and the new capacity
\* stands, big_grow puts the old cells back, and both leave by longjmp
GrowthFails(p) ==
  /\ ~oom /\ p \notin Stored /\ Full(table)
  /\ table' = IF kind = "registry" THEN [table EXCEPT !.used = 0, !.live = 0]
              ELSE [NoTable EXCEPT !.cap = NewCap(table)]
  /\ answer' = <<"add", {}>> /\ oom' = TRUE /\ UNCHANGED kind

OomNext == Next \/ \E p \in Pointers : GrowthFails(p)
OomSpec == Init /\ [][OomNext]_vars

-----------------------------------------------------------------------------
\* the counters are those of the cells
TypeOK ==
  /\ DOMAIN table.cells = 0..table.cap - 1
  /\ table.live = Cardinality({i \in DOMAIN table.cells : Entry(table.cells[i])})
  /\ table.used = Cardinality({i \in DOMAIN table.cells : table.cells[i] # Empty})

\* every probe for a block that is not in the table ends, since it ends at a
\* cell that was never used: tombstones and entries leave one, in a table that
\* has been rehashed, grown or could not grow
ProbesEnd == table.cap > 0 => \E i \in DOMAIN table.cells : table.cells[i] = Empty

\* whatever was added, removed and rehashed before, every owned block is found
\* from its own first cell on, past entries and tombstones, and is stored once
\* (trk_del and big_find stop at a cell that was never used)
AllFound ==
  /\ \A p \in Stored : Found(table, p)
  /\ Cardinality(Stored) = table.live

\* the table is the set of the blocks that are owned
Abstract == INSTANCE PtrSet WITH owned <- Stored, answer <- answer
SetSpec == Abstract!Spec

\* a tracker that cannot grow still lists what is owned (fail.h:14, "What is
\* left is exactly what the model owns")
OomKeeps == [][oom' # oom => Stored' = Stored]_vars

\* after a failed allocation the blocks that are owned can be released
\* (moty.h:26, "the handle stays usable / nothing leaked")
Releasable == \A p \in Stored : ENABLED Delete(p)
=============================================================================
