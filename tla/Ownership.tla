------------------------------ MODULE Ownership ------------------------------
(***************************************************************************)
(* Who owns which block of memory while handles are opened, used, fail and *)
(* are closed: the allocation tracker, the big blocks, the arenas and the  *)
(* grow() statics (src/c/nn/alloc.c, src/c/nn/head.c) under the API's      *)
(* calls (src/c/api/api.c, src/c/runtime/runtime.h).                       *)
(*                                                                         *)
(* An allocation returns any address that is free, so a freed one comes    *)
(* back.  The operations hold g_api_mu: one runs at a time, and it may     *)
(* fail after any step (moty_fail), when it unwinds to its entry.          *)
(***************************************************************************)
EXTENDS Naturals, FiniteSets

CONSTANTS Handles, Addrs,
          Null,         \* NULL; no handle
          Shortlist,    \* moty_options.head_topk > 0 is asked for
          MapFails,     \* mmap may fail (malloc and realloc always may)
          Held          \* bound: blocks an operation or a model holds

OwnershipAssumption ==
    /\ Null \notin Addrs \cup Handles
    /\ Shortlist \in BOOLEAN /\ MapFails \in BOOLEAN /\ Held \in Nat \ {0}

VARIABLES op,        \* <<"idle">>, or what runs on a handle
          opened,    \* handles that are open
          heap,      \* allocated addresses
          big,       \* those of them that are mmap blocks (the registry)
          track,     \* handle -> what its tracker lists (m->track)
          call,      \* what the running call's tracker lists (m->call)
          weights,   \* handle -> blocks its model points to
          head,      \* handle -> the shortlist's blocks (head_sl)
          arena,     \* handle -> its scratch arena, or Null
          temps,     \* blocks the running operation has yet to free
          static,    \* the block of a grow() static, or Null
          room,      \* its capacity: 0 none, 1 small, 2 and 3 large
          wild       \* history: addresses freed when they were not allocated

heaps  == <<heap, big, wild>>
owners == <<track, weights, head, arena>>
stats  == <<static, room>>
vars   == <<op, opened, heaps, owners, call, temps, stats>>

Idle == <<"idle">>
Opening(h) == op = <<"open", h>>
Calling(h) == op = <<"call", h>>

Init == /\ op = Idle /\ opened = {}
        /\ heap = {} /\ big = {} /\ wild = {}
        /\ track = [h \in Handles |-> {}] /\ call = {}
        /\ weights = [h \in Handles |-> {}] /\ head = [h \in Handles |-> {}]
        /\ arena = [h \in Handles |-> Null]
        /\ temps = {} /\ static = Null /\ room = 0

-----------------------------------------------------------------------------
(***************************************************************************)
(* The allocator.                                                          *)
(***************************************************************************)
Fresh == Addrs \ heap

\* Mutant: the registry keeps the block (big_find without take).
FreedKept(S) == /\ heap' = heap \ S
                /\ UNCHANGED big
                /\ wild' = wild \cup (S \ heap)

\* mfree of every address of S, once for each time it is listed.
Freed(S) == /\ heap' = heap \ S
            /\ big' = big \ S
            /\ wild' = wild \cup (S \ heap)

Take(p, isBig) == /\ heap' = heap \cup {p}
                  /\ big' = IF isBig THEN big \cup {p} ELSE big
                  /\ UNCHANGED wild

(***************************************************************************)
(* mrealloc(p, n, big): what it may return, with the heap and the big      *)
(* blocks after it.  grows: n is more than the block's size; large: n is   *)
(* at least MOTY_BIG and big is set.                                       *)
(***************************************************************************)
Res(r, h, b) == [ret |-> r, heap |-> h, big |-> b]
MapFailed(h, b) == {Res(Null, h, b) : x \in {y \in {0} : MapFails}}

Realloc(p, h, b) ==          \* libc realloc of a heap block or NULL
    {Res(Null, h, b)} \cup
    {Res(q, (h \ {p}) \cup {q}, b) : q \in (Addrs \ h) \cup ({p} \ {Null})}

Moved(p, h, b) ==            \* big_alloc, memcpy, mfree(p)
    MapFailed(h, b) \cup
    {Res(q, (h \ {p}) \cup {q}, (b \ {p}) \cup {q}) : q \in Addrs \ h}

MRealloc(p, grows, large) ==
    IF p \in big
    THEN IF grows THEN Moved(p, heap, big) ELSE {Res(p, heap, big)}
    ELSE IF ~large THEN Realloc(p, heap, big)
    ELSE IF p = Null THEN Moved(p, heap, big)
    ELSE UNION {IF r.ret = Null THEN {r} ELSE Moved(r.ret, r.heap, r.big)
                : r \in Realloc(p, heap, big)}

-----------------------------------------------------------------------------
(***************************************************************************)
(* moty_model_open and the engine's open: tracked blocks, some of them     *)
(* temporary, the shortlist of the head, then done or failed.              *)
(***************************************************************************)
Open(h) == /\ op = Idle /\ h \notin opened
           /\ op' = <<"open", h>>
           /\ UNCHANGED <<opened, heaps, owners, call, temps, stats>>

\* balloc, bzalloc, falloc, malloc: weights, KV cache, names (want_big)
Weight(h) == /\ Opening(h) /\ Cardinality(weights[h]) < Held
             /\ \E p \in Fresh, large \in BOOLEAN :
                   /\ Take(p, large)
                   /\ track' = [track EXCEPT ![h] = @ \cup {p}]
                   /\ weights' = [weights EXCEPT ![h] = @ \cup {p}]
             /\ UNCHANGED <<op, opened, head, arena, call, temps, stats>>

BuildHead(h) ==      \* moty_nn_head_sl_build
    /\ Opening(h) /\ Shortlist /\ head[h] = {}
    /\ \E p \in Fresh :
          /\ Take(p, FALSE)
          /\ track' = [track EXCEPT ![h] = @ \cup {p}]
          /\ head' = [head EXCEPT ![h] = {p}]
    /\ UNCHANGED <<op, opened, weights, arena, call, temps, stats>>

\* A block freed before the operation ends; the tracker of the thread lists it.
Temp(h) == /\ Opening(h) \/ Calling(h)
           /\ Cardinality(temps) < Held
           /\ \E p \in Fresh :
                 /\ Take(p, FALSE)
                 /\ temps' = temps \cup {p}
                 /\ IF Opening(h)
                    THEN track' = [track EXCEPT ![h] = @ \cup {p}] /\ UNCHANGED call
                    ELSE call' = call \cup {p} /\ UNCHANGED track
           /\ UNCHANGED <<op, opened, weights, head, arena, stats>>

\* Mutant: the free does not tell the tracker.
TempGoneUntold(h) ==
    \E p \in temps :
       /\ Freed({p}) /\ temps' = temps \ {p}
       /\ UNCHANGED <<op, opened, weights, head, arena, track, call, stats>>

TempGone(h) == \E p \in temps :
                  /\ Freed({p}) /\ temps' = temps \ {p}
                  /\ IF Opening(h)
                     THEN track' = [track EXCEPT ![h] = @ \ {p}] /\ UNCHANGED call
                     ELSE Calling(h) /\ call' = call \ {p} /\ UNCHANGED track
                  /\ UNCHANGED <<op, opened, weights, head, arena, stats>>

OpenEnd(h) == /\ Opening(h) /\ temps = {}
              /\ opened' = opened \cup {h} /\ op' = Idle
              /\ UNCHANGED <<heaps, owners, call, temps, stats>>

-----------------------------------------------------------------------------
(***************************************************************************)
(* Closing, and an open that failed: ops->close frees the arena and the    *)
(* shortlist with no tracker set; then all the tracker lists is freed.     *)
(***************************************************************************)
\* Mutant: the arena stays.
ReleaseNoArena(h) ==
    LET byClose == head[h]
    IN  /\ heap' = heap \ (byClose \cup track[h])
        /\ big' = big \ (byClose \cup track[h])
        /\ wild' = wild \cup ((byClose \cup track[h]) \ heap) \cup (track[h] \cap byClose)
        /\ track' = [track EXCEPT ![h] = {}] /\ weights' = [weights EXCEPT ![h] = {}]
        /\ head' = [head EXCEPT ![h] = {}] /\ arena' = [arena EXCEPT ![h] = Null]

Release(h) ==
    LET byClose == head[h] \cup ({arena[h]} \ {Null})
    IN  /\ heap' = heap \ (byClose \cup track[h])
        /\ big' = big \ (byClose \cup track[h])
        /\ wild' = wild \cup ((byClose \cup track[h]) \ heap) \cup (track[h] \cap byClose)
        /\ track' = [track EXCEPT ![h] = {}] /\ weights' = [weights EXCEPT ![h] = {}]
        /\ head' = [head EXCEPT ![h] = {}] /\ arena' = [arena EXCEPT ![h] = Null]

OpenFails(h) == /\ Opening(h)
                /\ Release(h)
                /\ op' = Idle /\ temps' = {}
                /\ UNCHANGED <<opened, call, stats>>

Close(h) == /\ op = Idle /\ h \in opened
            /\ Release(h)
            /\ opened' = opened \ {h}
            /\ UNCHANGED <<op, call, temps, stats>>

-----------------------------------------------------------------------------
(***************************************************************************)
(* A call that runs the engine (moty_generate, moty_tokenize).             *)
(***************************************************************************)
Call(h) == /\ op = Idle /\ h \in opened
           /\ op' = <<"call", h>> /\ call' = {}
           /\ UNCHANGED <<opened, heaps, owners, temps, stats>>

\* scr_reserve: the arena grows (1 MiB at first: always a big block).
Arena(h) == /\ Calling(h)
            /\ \E r \in MRealloc(arena[h], TRUE, TRUE) :
                  /\ r.ret # Null
                  /\ heap' = r.heap /\ big' = r.big
                  /\ arena' = [arena EXCEPT ![h] = r.ret]
            /\ UNCHANGED <<op, opened, track, weights, head, call, temps, stats, wild>>

\* moty_grow of a static, while loading or in a kernel.
Grow(h) == /\ Opening(h) \/ Calling(h)
           /\ \E n \in room + 1 .. 3 : \E r \in MRealloc(static, TRUE, n >= 2) :
                 /\ r.ret # Null
                 /\ heap' = r.heap /\ big' = r.big
                 /\ static' = r.ret /\ room' = n
           /\ UNCHANGED <<op, opened, owners, call, temps, wild>>

CallEnd(h) == /\ Calling(h) /\ temps = {}
              /\ track' = [track EXCEPT ![h] = @ \cup call]       \* moty_track_merge
              /\ call' = {} /\ op' = Idle
              /\ UNCHANGED <<opened, heaps, weights, head, arena, temps, stats>>

\* Mutant: a failed call frees nothing.
CallFailsLeaking(h) ==
    /\ Calling(h)
    /\ call' = {} /\ temps' = {} /\ op' = Idle
    /\ UNCHANGED <<opened, heaps, owners, stats>>

\* Mutant: the handle's own blocks go.
CallFailsAll(h) == /\ Calling(h)
                   /\ Freed(call \cup track[h])
                   /\ call' = {} /\ temps' = {} /\ op' = Idle
                   /\ UNCHANGED <<opened, owners, stats>>

\* moty_fail in a call: its blocks go, the handle stays open.
CallFails(h) == /\ Calling(h)
                /\ Freed(call)
                /\ call' = {} /\ temps' = {} /\ op' = Idle
                /\ UNCHANGED <<opened, owners, stats>>

\* A resize that failed fails the operation: *p and *cap stay as they were.
ResizeFails(h) ==
    /\ Opening(h) \/ Calling(h)
    /\ \E n \in room + 1 .. 3 : \E r \in MRealloc(static, TRUE, n >= 2) :
          /\ r.ret = Null
          /\ heap' = r.heap /\ big' = r.big
    /\ op' = <<IF Opening(h) THEN "openfail" ELSE "callfail", h>>
    /\ UNCHANGED <<opened, owners, call, temps, stats, wild>>

Unwind(h) == \/ /\ op = <<"openfail", h>>
                /\ Release(h) /\ UNCHANGED call
                /\ op' = Idle /\ temps' = {} /\ UNCHANGED <<opened, stats>>
             \/ /\ op = <<"callfail", h>>
                /\ Freed(call) /\ call' = {}
                /\ op' = Idle /\ temps' = {} /\ UNCHANGED <<opened, owners, stats>>

\* moty_release_scratch: the registered statics are freed and zeroed.
ReleaseScratch == /\ op = Idle
                  /\ Freed({static} \ {Null})
                  /\ static' = Null /\ room' = 0
                  /\ UNCHANGED <<op, opened, owners, call, temps>>

Next == \/ \E h \in Handles :
              \/ Open(h) \/ Weight(h) \/ BuildHead(h) \/ Temp(h) \/ TempGone(h)
              \/ OpenEnd(h) \/ OpenFails(h) \/ Close(h) \/ Call(h) \/ Arena(h)
              \/ Grow(h) \/ CallEnd(h) \/ CallFails(h) \/ ResizeFails(h) \/ Unwind(h)
        \/ ReleaseScratch

Spec == Init /\ [][Next]_vars
-----------------------------------------------------------------------------
BlocksOf(h) == weights[h] \cup head[h] \cup ({arena[h]} \ {Null})

\* Every variable has its type.
TypeOK == /\ opened \subseteq Handles /\ heap \subseteq Addrs /\ big \subseteq heap
          /\ call \subseteq Addrs /\ temps \subseteq Addrs
          /\ \A h \in Handles : /\ track[h] \cup weights[h] \cup head[h] \subseteq Addrs
                                /\ arena[h] \in Addrs \cup {Null}
          /\ static \in Addrs \cup {Null} /\ room \in 0 .. 3

(***************************************************************************)
(* No block is freed twice, whatever fails where.                          *)
(***************************************************************************)
FreedOnce == wild = {}

(***************************************************************************)
(* What a handle, a static or the running operation points to is           *)
(* allocated, and nobody else points to it.                                *)
(***************************************************************************)
NothingDangles ==
    /\ \A h \in Handles : BlocksOf(h) \subseteq heap
    /\ temps \subseteq heap
    /\ static \in heap \cup {Null}
    /\ \A h \in Handles : /\ static \notin BlocksOf(h)
                          /\ \A g \in Handles \ {h} : BlocksOf(h) \cap BlocksOf(g) = {}

(***************************************************************************)
(* Between calls every block belongs to an open handle or to a static:     *)
(* what is left in the tracker "is exactly what the model owns" (fail.h).  *)
(***************************************************************************)
NothingLeaks ==
    op = Idle => heap = (UNION {BlocksOf(h) : h \in opened}) \cup ({static} \ {Null})
=============================================================================
