--------------------------- MODULE Library_proofs ---------------------------
(***************************************************************************)
(* Proofs about the library: each view writes no variable of another, so   *)
(* the inductive invariant of each part is one of the library.             *)
(***************************************************************************)
EXTENDS Library, FiniteSetTheorems, SequenceTheorems, WellFoundedInduction, TLAPS

-----------------------------------------------------------------------------
(***************************************************************************)
(* The settings of the handles, for any number of handles, options, calls, *)
(* seeds and tokens.  The lock makes the process-wide knobs the running    *)
(* call's: whoever is past Enter holds g_api_mu, so no other handle writes *)
(* them.                                                                   *)
(***************************************************************************)
CallPoints == {"new", "ready", "wait", "locked", "prefill", "decode", "restore", "closed"}

\* What the proofs need of the types.
KnobTypes == /\ pc \in [Handles -> CallPoints]
         /\ args \in [Handles -> [par : Params, seed : Nat]]
         /\ made \in [Handles -> Nat] /\ calls \in [Handles -> Nat]

\* A call that has entered holds the lock; one that waits has drawn nothing.
LockHeld == \A h \in Handles : pc[h] \in {"locked", "prefill", "decode"} => mu = h
NotDrawn == \A h \in Handles : pc[h] \in {"wait", "locked"} => made[h] = 0

KnobInv == KnobTypes /\ Knobs!TypeOK /\ LockHeld /\ NotDrawn /\ Knobs!OwnSettings /\ Knobs!SeedDecides

-----------------------------------------------------------------------------
LEMMA KnobInit == Knobs!HandlesAssumption /\ Knobs!Init => KnobInv
  BY DEF Knobs!HandlesAssumption, Knobs!Init, KnobInv, KnobTypes, Knobs!TypeOK, Knobs!Clamp, CallPoints, LockHeld, NotDrawn,
         Knobs!OwnSettings, Knobs!SeedDecides, Knobs!Computing

\* The team is one the pool can have, whichever handle's it is.
LEMMA TeamTypes ==
    ASSUME Knobs!HandlesAssumption, Knobs!TypeOK, NEW h \in Handles
    PROVE  Knobs!TeamOf(h) \in 1 .. MaxTeam /\ Knobs!DecodeTeam(h) \in 1 .. MaxTeam
<1>1. opt[h].th \in Nat /\ opt[h].thd \in Nat
  BY DEF Knobs!HandlesAssumption, Knobs!TypeOK, Knobs!Options
<1>. QED
  BY <1>1 DEF Knobs!HandlesAssumption, Knobs!TeamOf, Knobs!DecodeTeam, Knobs!Clamp

LEMMA KnobTypeStep ==
    ASSUME Knobs!HandlesAssumption, KnobTypes, Knobs!TypeOK, [Knobs!Next]_(Knobs!vars) PROVE Knobs!TypeOK'
<1>. USE DEF Knobs!HandlesAssumption, KnobTypes, Knobs!TypeOK, Knobs!Go, Knobs!Lock, Knobs!Unlock
<1>1. ASSUME NEW h \in Handles, Knobs!Open(h) \/ Knobs!Prefill(h) \/ Knobs!Leave(h) PROVE Knobs!TypeOK'
  BY <1>1, TeamTypes DEF Knobs!Open, Knobs!Prefill, Knobs!Leave
<1>2. ASSUME NEW h \in Handles, Knobs!Configure(h) PROVE Knobs!TypeOK'
  BY <1>2, TeamTypes DEF Knobs!Configure
<1>3. ASSUME NEW h \in Handles, Knobs!Generate(h) \/ Knobs!Decode(h) PROVE Knobs!TypeOK'
  <2>1. CASE Knobs!Generate(h)
    <3>1. \A g \in Handles : made'[g] <= Decodes /\ calls'[g] <= Calls
      <4>1. /\ made' = [made EXCEPT ![h] = 0] /\ calls' = [calls EXCEPT ![h] = @ + 1]
            /\ calls[h] < Calls
        BY <2>1 DEF Knobs!Generate
      <4>. QED
        BY <4>1
    <3>. QED
      BY <2>1, <3>1 DEF Knobs!Generate
  <2>2. CASE Knobs!Decode(h)
    BY <2>2 DEF Knobs!Decode
  <2>. QED
    BY <1>3, <2>1, <2>2
<1>4. ASSUME NEW h \in Handles, Knobs!Enter(h) \/ Knobs!Close(h) PROVE Knobs!TypeOK'
  BY <1>4 DEF Knobs!Enter, Knobs!Close
<1>5. CASE UNCHANGED Knobs!vars
  BY <1>5 DEF Knobs!vars
<1>. QED
  BY <1>1, <1>2, <1>3, <1>4, <1>5 DEF Knobs!Next, Knobs!Finished

\* A call of another handle that computes holds the lock, so it sees this
\* handle neither take it nor write a knob.
LEMMA OthersWait ==
    ASSUME Knobs!HandlesAssumption, KnobInv, NEW h \in Handles, mu \in {h, NoOne}
    PROVE  \A g \in Handles : g # h => pc[g] \notin {"locked", "prefill", "decode"}
  BY DEF Knobs!HandlesAssumption, KnobInv, LockHeld

\* A step of one handle that writes the knobs while it may.
LEMMA OwnCallStep ==
    ASSUME Knobs!HandlesAssumption, KnobInv, NEW h \in Handles, mu \in {h, NoOne},
           NEW l \in CallPoints, pc' = [pc EXCEPT ![h] = l],
           KnobTypes', Knobs!TypeOK', opt' = opt, args' = args,
           \A g \in Handles : g # h => made'[g] = made[g],
           l \in {"wait", "locked"} => made'[h] = 0,
           l \in {"locked", "prefill", "decode"} => mu' = h,
           l \in {"prefill", "decode"} =>
               /\ params' = args[h].par
               /\ team' = IF l = "prefill" THEN Knobs!TeamOf(h) ELSE Knobs!DecodeTeam(h)
               /\ args[h].seed # 0 => rng' = <<args[h].seed, made'[h]>>
    PROVE  KnobInv'
<1>1. /\ pc'[h] = l
      /\ \A g \in Handles : g # h =>
             pc'[g] = pc[g] /\ pc[g] \notin {"locked", "prefill", "decode"}
  BY OthersWait DEF KnobInv, KnobTypes
<1>2. LockHeld' /\ NotDrawn'
  BY <1>1 DEF KnobInv, LockHeld, NotDrawn
<1>3. \A g \in Handles : Knobs!TeamOf(g)' = Knobs!TeamOf(g) /\ Knobs!DecodeTeam(g)' = Knobs!DecodeTeam(g)
  BY DEF Knobs!TeamOf, Knobs!DecodeTeam
<1>4. Knobs!OwnSettings' /\ Knobs!SeedDecides'
  BY <1>1, <1>3 DEF Knobs!OwnSettings, Knobs!SeedDecides, Knobs!Computing
<1>. QED
  BY <1>2, <1>4 DEF KnobInv

LEMMA KnobStep ==
    ASSUME Knobs!HandlesAssumption, KnobInv, [Knobs!Next]_(Knobs!vars)
    PROVE  KnobInv'
<1>. USE DEF Knobs!Go
<1>0. Knobs!TypeOK'
  BY KnobTypeStep DEF KnobInv
<1>1. ASSUME NEW h \in Handles, Knobs!Open(h) PROVE KnobInv'
  <2>1. KnobTypes'
    BY <1>1 DEF Knobs!Open, KnobInv, KnobTypes, CallPoints
  <2>. QED
    BY <1>1, <2>1, <1>0, OwnCallStep DEF Knobs!Open, CallPoints
<1>2. ASSUME NEW h \in Handles, Knobs!Generate(h) PROVE KnobInv'
  <2>1. /\ pc[h] = "ready" /\ pc'[h] = "wait" /\ made'[h] = 0
        /\ \A g \in Handles : g # h => /\ pc'[g] = pc[g] /\ args'[g] = args[g]
                                       /\ made'[g] = made[g]
        /\ UNCHANGED <<opt, mu, team, params, rng>>
    BY <1>2 DEF Knobs!Generate, KnobInv, KnobTypes
  <2>2. KnobTypes'
    <3>1. PICK p \in Params, s \in Seeds : args' = [args EXCEPT ![h] = [par |-> p, seed |-> s]]
      BY <1>2 DEF Knobs!Generate
    <3>2. s \in Nat
      BY <3>1 DEF Knobs!HandlesAssumption
    <3>. QED
      BY <1>2, <3>1, <3>2 DEF Knobs!Generate, KnobInv, KnobTypes, CallPoints
  <2>3. \A g \in Handles : Knobs!TeamOf(g)' = Knobs!TeamOf(g) /\ Knobs!DecodeTeam(g)' = Knobs!DecodeTeam(g)
    BY <2>1 DEF Knobs!TeamOf, Knobs!DecodeTeam
  <2>. QED
    BY <1>0, <2>1, <2>2, <2>3 DEF KnobInv, LockHeld, NotDrawn, Knobs!OwnSettings, Knobs!SeedDecides, Knobs!Computing
<1>3. ASSUME NEW h \in Handles, Knobs!Enter(h) PROVE KnobInv'
  <2>1. KnobTypes'
    BY <1>3 DEF Knobs!Enter, KnobInv, KnobTypes, CallPoints
  <2>. QED
    BY <1>3, <2>1, <1>0, OwnCallStep DEF Knobs!Enter, Knobs!Lock, CallPoints, KnobInv, NotDrawn
<1>4. ASSUME NEW h \in Handles, Knobs!Configure(h) PROVE KnobInv'
  <2>1. KnobTypes' /\ mu = h /\ made[h] = 0
    BY <1>4 DEF Knobs!Configure, KnobInv, KnobTypes, CallPoints, LockHeld, NotDrawn
  <2>. QED
    BY <1>4, <2>1, <1>0, OwnCallStep DEF Knobs!Configure, CallPoints
<1>5. ASSUME NEW h \in Handles, Knobs!Prefill(h) PROVE KnobInv'
  <2>1. KnobTypes' /\ mu = h
    BY <1>5 DEF Knobs!Prefill, KnobInv, KnobTypes, CallPoints, LockHeld
  <2>2. params = args[h].par /\ (args[h].seed # 0 => rng = <<args[h].seed, made[h]>>)
    BY <1>5 DEF Knobs!Prefill, KnobInv, Knobs!OwnSettings, Knobs!SeedDecides, Knobs!Computing
  <2>. QED
    BY <1>5, <2>1, <2>2, <1>0, OwnCallStep DEF Knobs!Prefill, CallPoints
<1>6. ASSUME NEW h \in Handles, Knobs!Decode(h) PROVE KnobInv'
  <2>1. KnobTypes' /\ mu = h /\ made'[h] = made[h] + 1
        /\ \A g \in Handles : g # h => made'[g] = made[g]
    BY <1>6 DEF Knobs!Decode, KnobInv, KnobTypes, CallPoints, LockHeld
  <2>2. /\ params = args[h].par /\ team = Knobs!DecodeTeam(h)
        /\ args[h].seed # 0 => rng = <<args[h].seed, made[h]>>
    BY <1>6 DEF Knobs!Decode, KnobInv, Knobs!OwnSettings, Knobs!SeedDecides, Knobs!Computing
  <2>3. args[h].seed # 0 => rng' = <<args[h].seed, made'[h]>>
    BY <1>6, <2>1, <2>2 DEF Knobs!Decode
  <2>4. pc' = [pc EXCEPT ![h] = "decode"]
    BY <1>6 DEF Knobs!Decode, KnobInv, KnobTypes
  <2>. QED
    BY <1>6, <2>1, <2>2, <2>3, <2>4, <1>0, OwnCallStep DEF Knobs!Decode, CallPoints
<1>7. ASSUME NEW h \in Handles, Knobs!Leave(h) PROVE KnobInv'
  <2>1. KnobTypes' /\ mu = h
    BY <1>7 DEF Knobs!Leave, Knobs!Unlock, KnobInv, KnobTypes, CallPoints
  <2>. QED
    BY <1>7, <2>1, <1>0, OwnCallStep DEF Knobs!Leave, CallPoints
<1>8. ASSUME NEW h \in Handles, Knobs!Close(h) PROVE KnobInv'
  <2>1. KnobTypes'
    BY <1>8 DEF Knobs!Close, KnobInv, KnobTypes, CallPoints
  <2>. QED
    BY <1>8, <2>1, <1>0, OwnCallStep DEF Knobs!Close, CallPoints
<1>9. CASE UNCHANGED Knobs!vars
  BY <1>0, <1>9 DEF Knobs!vars, KnobInv, KnobTypes, LockHeld, NotDrawn, Knobs!OwnSettings, Knobs!SeedDecides,
              Knobs!Computing, Knobs!TeamOf, Knobs!DecodeTeam
<1>. QED
  BY <1>1, <1>2, <1>3, <1>4, <1>5, <1>6, <1>7, <1>8, <1>9 DEF Knobs!Next, Knobs!Finished

LEMMA KnobSteps == [Next]_vars => [Knobs!Next]_(Knobs!vars)
  BY DEF Next, Settings, Blocks, Lookups, Caching, Streams, Directories, vars,
         knobVars, Knobs!vars

\* Every call of every handle computes with the options, the thread count and
\* the sampling of that handle, and draws what its own seed decides, whatever
\* the other handles do between its calls (moty_generate under g_api_mu,
\* src/c/api/api.c).
THEOREM LibrarySettings == Spec => []OwnSettings
<1>1. Knobs!HandlesAssumption
  BY LibraryAssumption DEF LibraryAssumption
<1>2. Init => KnobInv
  BY <1>1, KnobInit DEF Init
<1>3. KnobInv /\ [Next]_vars => KnobInv'
  BY <1>1, KnobSteps, KnobStep
<1>4. KnobInv => OwnSettings
  BY DEF KnobInv, OwnSettings
<1>. QED
  BY <1>2, <1>3, <1>4, PTL DEF Spec

-----------------------------------------------------------------------------
(***************************************************************************)
(* Who owns which block, for any number of handles, addresses and blocks,  *)
(* when the head's shortlist is off and mmap does not fail (with either of *)
(* them the code frees a block twice or uses a freed one).  Every          *)
(* allocated block has exactly one owner: a handle's weights, its arena,   *)
(* the running operation, or the static.                                   *)
(***************************************************************************)
Loading(h) == op \in {<<"open", h>>, <<"openfail", h>>}
Running(h) == op \in {<<"call", h>>, <<"callfail", h>>}

BlockTypes == /\ op = Memory!Idle \/ \E h \in Handles : Loading(h) \/ Running(h)
         /\ opened \subseteq Handles /\ heap \subseteq Addrs /\ temps \subseteq Addrs
         /\ big \subseteq heap
         /\ track \in [Handles -> SUBSET Addrs] /\ weights \in [Handles -> SUBSET Addrs]
         /\ head \in [Handles -> {{}}]
         /\ arena \in [Handles -> Addrs \cup {Null}]
         /\ static \in Addrs \cup {Null} /\ room \in 0 .. 3

\* The tracker of a handle lists its weights and, while it is being opened,
\* the temporary blocks; the tracker of a call lists the call's.
Tracked ==
  /\ \A h \in Handles : track[h] = weights[h] \cup (IF Loading(h) THEN temps ELSE {})
  /\ call = IF \E h \in Handles : Running(h) THEN temps ELSE {}
  /\ op = Memory!Idle => temps = {}

\* Only a handle that is open, or being opened, has blocks.
InUse == \A h \in Handles :
            /\ Loading(h) => h \notin opened
            /\ Running(h) => h \in opened
            /\ h \notin opened => arena[h] = Null
            /\ h \notin opened /\ ~Loading(h) => weights[h] = {}

\* One owner for each block.
OneOwner ==
  /\ \A g, h \in Handles : g # h => weights[g] \cap weights[h] = {}
  /\ \A g, h \in Handles : arena[g] \notin weights[h]
  /\ \A g, h \in Handles : arena[g] = arena[h] /\ arena[g] # Null => g = h
  /\ \A h \in Handles : weights[h] \cap temps = {} /\ arena[h] \notin temps
  /\ \A h \in Handles : static \notin weights[h] /\ (static = arena[h] => static = Null)
  /\ static \notin temps

\* The heap is what is owned.
Owned(p) == \/ \E h \in Handles : p \in weights[h] \/ p = arena[h]
            \/ p \in temps
            \/ p = static
HeapOwned == \A p \in Addrs : p \in heap <=> Owned(p)

MemoryInv == BlockTypes /\ Tracked /\ InUse /\ OneOwner /\ HeapOwned /\ Memory!FreedOnce

\* What the proofs assume of the constants.
UsualMemory == Memory!OwnershipAssumption /\ ~Shortlist /\ ~MapFails

-----------------------------------------------------------------------------
LEMMA MemoryInit == UsualMemory /\ Memory!Init => MemoryInv
  BY DEF UsualMemory, Memory!OwnershipAssumption, Memory!Init, Memory!Idle, MemoryInv, BlockTypes, Loading, Running, Tracked,
         InUse, OneOwner, HeapOwned, Owned, Memory!FreedOnce

\* mrealloc: it fails and nothing has changed, or the block has moved to an
\* address that was free or its own.
LEMMA Resized ==
    ASSUME UsualMemory, NEW p \in Addrs \cup {Null}, NEW large \in BOOLEAN,
           NEW r \in Memory!MRealloc(p, TRUE, large),
           heap \subseteq Addrs, big \subseteq heap
    PROVE  \/ r.ret = Null /\ r.heap = heap /\ r.big = big
           \/ /\ r.ret \in Addrs /\ r.ret \notin heap \ {p}
              /\ r.heap = (heap \ {p}) \cup {r.ret}
              /\ r.big \subseteq r.heap
<1>. USE DEF UsualMemory, Memory!OwnershipAssumption, Memory!Res
<1>1. \A q, h, b : Memory!MapFailed(h, b) = {}
  BY DEF Memory!MapFailed
<1>2. \A q, h, b, s : s \in Memory!Moved(q, h, b) =>
          \E x \in Addrs \ h : s = Memory!Res(x, (h \ {q}) \cup {x}, (b \ {q}) \cup {x})
  BY <1>1 DEF Memory!Moved
<1>3. ASSUME NEW s \in Memory!Realloc(p, heap, big), p \notin big
      PROVE  \/ s.ret = Null /\ s.heap = heap /\ s.big = big
             \/ /\ s.ret \in Addrs /\ s.ret \notin heap \ {p}
                /\ s.heap = (heap \ {p}) \cup {s.ret} /\ s.big = big
                /\ s.big \subseteq s.heap
  <2>1. \/ s = Memory!Res(Null, heap, big)
        \/ \E q \in (Addrs \ heap) \cup ({p} \ {Null}) :
               s = Memory!Res(q, (heap \ {p}) \cup {q}, big)
    BY <1>3 DEF Memory!Realloc
  <2>2. CASE s = Memory!Res(Null, heap, big)
    BY <2>2
  <2>3. ASSUME NEW q \in (Addrs \ heap) \cup ({p} \ {Null}),
               s = Memory!Res(q, (heap \ {p}) \cup {q}, big)
        PROVE  /\ s.ret \in Addrs /\ s.ret \notin heap \ {p}
               /\ s.heap = (heap \ {p}) \cup {s.ret} /\ s.big = big
               /\ s.big \subseteq s.heap
    <3>1. s.ret = q /\ s.heap = (heap \ {p}) \cup {q} /\ s.big = big
      BY <2>3
    <3>. QED
      BY <1>3, <3>1
  <2>. QED
    BY <2>1, <2>2, <2>3
<1>4. CASE p \in big
  <2>1. r \in Memory!Moved(p, heap, big) /\ heap \in SUBSET Addrs /\ big \in SUBSET heap
    BY <1>4 DEF Memory!MRealloc
  <2>2. PICK x \in Addrs \ heap : r = Memory!Res(x, (heap \ {p}) \cup {x}, (big \ {p}) \cup {x})
    BY <1>2, <2>1
  <2>. QED
    BY <2>1, <2>2
<1>5. CASE p \notin big /\ ~large
  BY <1>3, <1>5 DEF Memory!MRealloc
<1>6. CASE p \notin big /\ large /\ p = Null
  BY <1>2, <1>6 DEF Memory!MRealloc
<1>7. CASE p \notin big /\ large /\ p # Null
  <2>1. PICK s \in Memory!Realloc(p, heap, big) :
            r \in IF s.ret = Null THEN {s} ELSE Memory!Moved(s.ret, s.heap, s.big)
    BY <1>7 DEF Memory!MRealloc
  <2>2. CASE s.ret = Null
    BY <1>3, <1>7, <2>1, <2>2
  <2>3. CASE s.ret # Null
    <3>1. /\ s.ret \in Addrs /\ s.ret \notin heap \ {p}
          /\ s.heap = (heap \ {p}) \cup {s.ret} /\ s.big = big
          /\ s.big \subseteq s.heap
      BY <1>3, <1>7, <2>3
    <3>. DEFINE h == s.heap
                b == s.big
                q == s.ret
    <3>2. /\ h \in SUBSET Addrs /\ b \in SUBSET h /\ q \in Addrs \cup {Null}
          /\ r \in Memory!Moved(q, h, b)
      BY <2>1, <2>3, <3>1
    <3>. HIDE DEF h, b, q
    <3>a. PICK x \in Addrs \ h : r = Memory!Res(x, (h \ {q}) \cup {x}, (b \ {q}) \cup {x})
      BY <1>2, <3>2
    <3>3. r.ret \in Addrs \ h /\ r.heap = (h \ {q}) \cup {r.ret} /\ r.big \subseteq r.heap
      BY <3>2, <3>a
    <3>4. h = (heap \ {p}) \cup {q} /\ q \notin heap \ {p}
      BY <3>1 DEF h, q
    <3>. QED
      BY <3>3, <3>4
  <2>. QED
    BY <2>2, <2>3
<1>. QED
  BY <1>4, <1>5, <1>6, <1>7

-----------------------------------------------------------------------------
(***************************************************************************)
(* The steps.                                                              *)
(***************************************************************************)
\* What runs is one thing on one handle.
LEMMA Phases ==
    \A g, h : /\ Loading(h) => ~Running(g) /\ op # Memory!Idle
              /\ Running(h) => op # Memory!Idle
              /\ Loading(h) /\ Loading(g) => g = h
              /\ Running(h) /\ Running(g) => g = h
  BY DEF Loading, Running, Memory!Idle

\* The step of an operation that keeps running, or of one that begins or ends
\* without touching a block.
LEMMA PhaseSteps ==
    ASSUME UsualMemory, MemoryInv, NEW h \in Handles, Memory!Open(h) \/ Memory!OpenEnd(h) \/ Memory!Call(h) \/ Memory!CallEnd(h)
    PROVE  MemoryInv'
<1>. USE DEF MemoryInv
<1>0. UNCHANGED <<heap, big, wild, weights, head, arena, temps, static, room>>
  BY DEF Memory!Open, Memory!OpenEnd, Memory!Call, Memory!CallEnd, Memory!heaps, Memory!owners, Memory!stats
<1>1. OneOwner' /\ HeapOwned' /\ Memory!FreedOnce'
  BY <1>0 DEF OneOwner, HeapOwned, Owned, Memory!FreedOnce
<1>2. CASE Memory!Open(h)
  <2>1. Loading(h)' /\ \A g \in Handles : ~Loading(g) /\ ~Running(g) /\ ~Running(g)'
                                          /\ (g # h => ~Loading(g)')
    BY <1>2 DEF Memory!Open, Loading, Running, Memory!Idle
  <2>2. UNCHANGED <<track, call, opened>> /\ temps = {} /\ h \notin opened
    BY <1>2 DEF Memory!Open, Memory!owners, Tracked
  <2>. QED
    BY <1>0, <1>1, <2>1, <2>2 DEF BlockTypes, Tracked, InUse
<1>3. CASE Memory!OpenEnd(h)
  <2>1. op' = Memory!Idle /\ Loading(h) /\ \A g \in Handles : ~Running(g) /\ ~Running(g)' /\ ~Loading(g)'
                                          /\ (g # h => ~Loading(g))
    BY <1>3 DEF Memory!OpenEnd, Memory!Opening, Loading, Running, Memory!Idle
  <2>2. UNCHANGED <<track, call>> /\ temps = {} /\ opened' = opened \cup {h}
    BY <1>3 DEF Memory!OpenEnd, Memory!owners
  <2>. QED
    BY <1>0, <1>1, <2>1, <2>2 DEF BlockTypes, Tracked, InUse
<1>4. CASE Memory!Call(h)
  <2>1. Running(h)' /\ \A g \in Handles : ~Running(g) /\ ~Loading(g) /\ ~Loading(g)'
                                          /\ (g # h => ~Running(g)')
    BY <1>4 DEF Memory!Call, Loading, Running, Memory!Idle
  <2>2. UNCHANGED <<track, opened>> /\ call' = {} /\ temps = {} /\ h \in opened
    BY <1>4 DEF Memory!Call, Memory!owners, Tracked
  <2>. QED
    BY <1>0, <1>1, <2>1, <2>2 DEF BlockTypes, Tracked, InUse
<1>5. CASE Memory!CallEnd(h)
  <2>1. op' = Memory!Idle /\ Running(h) /\ \A g \in Handles : ~Loading(g) /\ ~Running(g)' /\ ~Loading(g)'
    BY <1>5 DEF Memory!CallEnd, Memory!Calling, Loading, Running, Memory!Idle
  <2>2. UNCHANGED opened /\ call' = {} /\ temps = {} /\ call = {}
    BY <1>5, <2>1 DEF Memory!CallEnd, Tracked
  <2>3. track' = track
    BY <1>5, <2>2 DEF Memory!CallEnd, BlockTypes
  <2>. QED
    BY <1>0, <1>1, <2>1, <2>2, <2>3 DEF BlockTypes, Tracked, InUse
<1>. QED
  BY <1>2, <1>3, <1>4, <1>5

\* New blocks: the address was free, so nobody else owns it.
LEMMA WeightStep ==
    ASSUME UsualMemory, MemoryInv, NEW h \in Handles, Memory!Weight(h)
    PROVE  MemoryInv'
<1>. USE DEF MemoryInv, UsualMemory, Memory!OwnershipAssumption
<1>1. PICK p \in Addrs \ heap :
         /\ heap' = heap \cup {p} /\ wild' = wild
         /\ track' = [track EXCEPT ![h] = @ \cup {p}]
         /\ weights' = [weights EXCEPT ![h] = @ \cup {p}]
         /\ big' \subseteq heap'
  BY DEF Memory!Weight, Memory!Fresh, Memory!Take, BlockTypes
<1>2. UNCHANGED <<op, opened, head, arena, call, temps, static, room>> /\ Loading(h)
  BY DEF Memory!Weight, Memory!stats, Memory!Opening, Loading
<1>3. \A g \in Handles : /\ weights'[g] = IF g = h THEN weights[g] \cup {p} ELSE weights[g]
                         /\ track'[g] = IF g = h THEN track[g] \cup {p} ELSE track[g]
                         /\ Loading(g)' = Loading(g) /\ Running(g)' = Running(g)
  BY <1>1, <1>2 DEF BlockTypes, Loading, Running
<1>4. BlockTypes'
  BY <1>1, <1>2, <1>3 DEF BlockTypes
<1>5. Tracked' /\ InUse'
  BY <1>2, <1>3, Phases DEF Tracked, InUse
<1>6. ~Owned(p)
  BY <1>1 DEF HeapOwned
<1>7. OneOwner'
  BY <1>1, <1>2, <1>3, <1>6 DEF OneOwner, Owned
<1>8. HeapOwned' /\ Memory!FreedOnce'
  BY <1>1, <1>2, <1>3 DEF HeapOwned, Owned, Memory!FreedOnce
<1>. QED
  BY <1>4, <1>5, <1>7, <1>8

LEMMA TempStep ==
    ASSUME UsualMemory, MemoryInv, NEW h \in Handles, Memory!Temp(h)
    PROVE  MemoryInv'
<1>. USE DEF MemoryInv, UsualMemory, Memory!OwnershipAssumption
<1>1. PICK p \in Addrs \ heap :
         /\ heap' = heap \cup {p} /\ wild' = wild /\ temps' = temps \cup {p}
         /\ IF Memory!Opening(h)
            THEN track' = [track EXCEPT ![h] = @ \cup {p}] /\ UNCHANGED call
            ELSE call' = call \cup {p} /\ UNCHANGED track
         /\ big' \subseteq heap'
  BY DEF Memory!Temp, Memory!Fresh, Memory!Take, BlockTypes
<1>2. UNCHANGED <<op, opened, head, arena, weights, static, room>>
      /\ (Memory!Opening(h) \/ Memory!Calling(h))
  BY DEF Memory!Temp, Memory!stats
<1>3. \A g \in Handles : Loading(g)' = Loading(g) /\ Running(g)' = Running(g)
  BY <1>2 DEF Loading, Running
<1>4. Memory!Opening(h) => Loading(h) /\ ~Running(h)
  BY DEF Memory!Opening, Loading, Running
<1>5. Memory!Calling(h) => Running(h) /\ ~Loading(h) /\ ~Memory!Opening(h)
  BY DEF Memory!Calling, Memory!Opening, Loading, Running
<1>6. track' \in [Handles -> SUBSET Addrs]
      /\ \A g \in Handles : track'[g] = IF Memory!Opening(h) /\ g = h THEN track[g] \cup {p} ELSE track[g]
  <2>1. track \in [Handles -> SUBSET Addrs] /\ p \in Addrs
    BY <1>1 DEF BlockTypes
  <2>2. CASE Memory!Opening(h)
    BY <1>1, <2>1, <2>2
  <2>3. CASE ~Memory!Opening(h)
    BY <1>1, <2>1, <2>3
  <2>. QED
    BY <2>2, <2>3
<1>7. BlockTypes'
  BY <1>1, <1>2, <1>3, <1>6 DEF BlockTypes, Memory!Idle
<1>8. Tracked'
  <2>1. CASE Memory!Opening(h)
    <3>1. \A g \in Handles : ~Running(g) /\ (g # h => ~Loading(g))
      BY <1>4, <2>1, Phases
    <3>. QED
      BY <1>1, <1>2, <1>3, <1>4, <1>6, <2>1, <3>1, Phases DEF Tracked
  <2>2. CASE Memory!Calling(h)
    <3>1. \A g \in Handles : ~Loading(g)
      BY <1>5, <2>2, Phases
    <3>2. Running(h) /\ Running(h)' /\ op' # Memory!Idle /\ track' = track
      BY <1>1, <1>2, <1>3, <1>5, <2>2, Phases
    <3>. QED
      BY <1>1, <1>2, <1>3, <1>5, <2>2, <3>1, <3>2 DEF Tracked
  <2>. QED
    BY <1>2, <2>1, <2>2
<1>9. ~Owned(p)
  BY <1>1 DEF HeapOwned
<1>10. OneOwner'
  BY <1>1, <1>2, <1>9 DEF OneOwner, Owned
<1>11. HeapOwned' /\ Memory!FreedOnce' /\ InUse'
  BY <1>1, <1>2, <1>3 DEF HeapOwned, Owned, Memory!FreedOnce, InUse
<1>. QED
  BY <1>7, <1>8, <1>10, <1>11

\* A temporary block is freed, and its tracker is told.
LEMMA TempGoneStep ==
    ASSUME UsualMemory, MemoryInv, NEW h \in Handles, Memory!TempGone(h)
    PROVE  MemoryInv'
<1>. USE DEF MemoryInv, UsualMemory, Memory!OwnershipAssumption
<1>1. PICK p \in temps :
         /\ heap' = heap \ {p} /\ wild' = wild \cup ({p} \ heap) /\ temps' = temps \ {p}
         /\ IF Memory!Opening(h)
            THEN track' = [track EXCEPT ![h] = @ \ {p}] /\ UNCHANGED call
            ELSE call' = call \ {p} /\ UNCHANGED track
         /\ big' \subseteq heap'
  BY DEF Memory!TempGone, Memory!Freed, BlockTypes
<1>2. UNCHANGED <<op, opened, head, arena, weights, static, room>>
      /\ (Memory!Opening(h) \/ Memory!Calling(h))
  BY DEF Memory!TempGone, Memory!stats
<1>3. \A g \in Handles : Loading(g)' = Loading(g) /\ Running(g)' = Running(g)
  BY <1>2 DEF Loading, Running
<1>4. Memory!Opening(h) => Loading(h) /\ ~Running(h)
  BY DEF Memory!Opening, Loading, Running
<1>5. Memory!Calling(h) => Running(h) /\ ~Loading(h) /\ ~Memory!Opening(h)
  BY DEF Memory!Calling, Memory!Opening, Loading, Running
<1>6. track' \in [Handles -> SUBSET Addrs]
      /\ \A g \in Handles : track'[g] = IF Memory!Opening(h) /\ g = h THEN track[g] \ {p} ELSE track[g]
  BY <1>1 DEF BlockTypes
<1>7. BlockTypes'
  BY <1>1, <1>2, <1>3, <1>6 DEF BlockTypes, Memory!Idle
<1>8. p \in heap /\ p \in Addrs /\ \A g \in Handles : p \notin weights[g] /\ p # arena[g]
  BY <1>1 DEF HeapOwned, Owned, BlockTypes, OneOwner
<1>9. Tracked'
  <2>1. CASE Memory!Opening(h)
    <3>1. \A g \in Handles : ~Running(g) /\ (g # h => ~Loading(g))
      BY <1>4, <2>1, Phases
    <3>. QED
      BY <1>1, <1>2, <1>3, <1>4, <1>6, <1>8, <2>1, <3>1, Phases DEF Tracked
  <2>2. CASE Memory!Calling(h)
    <3>1. \A g \in Handles : ~Loading(g)
      BY <1>5, <2>2, Phases
    <3>2. Running(h) /\ Running(h)' /\ op' # Memory!Idle /\ track' = track
      BY <1>1, <1>2, <1>3, <1>5, <2>2, Phases
    <3>. QED
      BY <1>1, <1>2, <1>3, <1>5, <2>2, <3>1, <3>2 DEF Tracked
  <2>. QED
    BY <1>2, <2>1, <2>2
<1>10. OneOwner'
  BY <1>1, <1>2 DEF OneOwner
<1>11. HeapOwned'
  BY <1>1, <1>2, <1>8 DEF HeapOwned, Owned, OneOwner
<1>12. Memory!FreedOnce' /\ InUse'
  BY <1>1, <1>2, <1>3, <1>8 DEF Memory!FreedOnce, InUse
<1>. QED
  BY <1>7, <1>9, <1>10, <1>11, <1>12

\* Release frees what the handle owns, all of it allocated and nothing twice:
\* the arena is not in the tracker.
LEMMA Released ==
    ASSUME UsualMemory, MemoryInv, NEW h \in Handles, Memory!Release(h)
    PROVE  /\ heap' = heap \ (track[h] \cup {arena[h]})
           /\ big' \subseteq heap'
           /\ wild' = {}
           /\ track' \in [Handles -> SUBSET Addrs] /\ weights' \in [Handles -> SUBSET Addrs]
           /\ head' \in [Handles -> {{}}] /\ arena' \in [Handles -> Addrs \cup {Null}]
           /\ \A g \in Handles :
                 /\ track'[g] = IF g = h THEN {} ELSE track[g]
                 /\ weights'[g] = IF g = h THEN {} ELSE weights[g]
                 /\ arena'[g] = IF g = h THEN Null ELSE arena[g]
           /\ track[h] \subseteq heap
<1>. USE DEF MemoryInv, UsualMemory, Memory!OwnershipAssumption
<1>. DEFINE D == ({arena[h]} \ {Null}) \cup track[h]
<1>1. head[h] = {}
  BY DEF BlockTypes
<1>2. /\ heap' = heap \ D /\ big' = big \ D
      /\ wild' = wild \cup (D \ heap) \cup (track[h] \cap ({arena[h]} \ {Null}))
      /\ track' = [track EXCEPT ![h] = {}] /\ weights' = [weights EXCEPT ![h] = {}]
      /\ head' = [head EXCEPT ![h] = {}] /\ arena' = [arena EXCEPT ![h] = Null]
  BY <1>1 DEF Memory!Release
<1>3. track[h] \subseteq weights[h] \cup temps
  BY DEF Tracked
<1>4. D \subseteq heap /\ Null \notin heap
  BY <1>3 DEF HeapOwned, Owned, BlockTypes
<1>5. arena[h] \notin track[h]
  BY <1>3 DEF OneOwner
<1>6. heap' = heap \ (track[h] \cup {arena[h]})
  BY <1>2, <1>4
<1>7. wild' = {} /\ big' \subseteq heap' /\ track[h] \subseteq heap
  BY <1>2, <1>4, <1>5 DEF Memory!FreedOnce, BlockTypes
<1>. HIDE DEF D
<1>. QED
  BY <1>2, <1>6, <1>7 DEF BlockTypes

LEMMA LoadFails ==
    ASSUME UsualMemory, MemoryInv, NEW h \in Handles, Loading(h), Memory!Release(h),
           op' = Memory!Idle, temps' = {}, UNCHANGED <<opened, call, static, room>>
    PROVE  MemoryInv'
<1>. USE DEF MemoryInv, UsualMemory, Memory!OwnershipAssumption
<1>1. track[h] = weights[h] \cup temps /\ arena[h] = Null /\ call = {}
  BY Phases DEF Tracked, InUse
<1>2. \A g \in Handles : /\ ~Running(g) /\ ~Running(g)' /\ ~Loading(g)'
                         /\ (g # h => ~Loading(g))
  BY Phases DEF Loading, Running, Memory!Idle
<1>3. BlockTypes'
  BY Released DEF BlockTypes
<1>4. Tracked'
  BY <1>1, <1>2, Released DEF Tracked
<1>5. InUse'
  BY <1>1, <1>2, Released DEF InUse
<1>6. OneOwner'
  BY Released DEF OneOwner, BlockTypes
<1>7. HeapOwned'
  <2>. SUFFICES ASSUME NEW p \in Addrs PROVE p \in heap' <=> Owned(p)'
    BY DEF HeapOwned
  <2>1. p \in heap' <=> p \in heap /\ p \notin weights[h] /\ p \notin temps
    BY <1>1, Released
  <2>2. Owned(p)' <=> \/ \E g \in Handles : g # h /\ (p \in weights[g] \/ p = arena[g])
                      \/ p = static
    BY Released DEF Owned
  <2>. QED
    BY <1>1, <2>1, <2>2 DEF HeapOwned, Owned, OneOwner
<1>. QED
  BY <1>3, <1>4, <1>5, <1>6, <1>7, Released DEF Memory!FreedOnce

LEMMA CloseStep ==
    ASSUME UsualMemory, MemoryInv, NEW h \in Handles, Memory!Close(h)
    PROVE  MemoryInv'
<1>. USE DEF MemoryInv, UsualMemory, Memory!OwnershipAssumption
<1>1. /\ op = Memory!Idle /\ h \in opened /\ Memory!Release(h) /\ opened' = opened \ {h}
      /\ UNCHANGED <<op, call, temps, static, room>>
  BY DEF Memory!Close, Memory!stats
<1>2. \A g \in Handles : ~Running(g) /\ ~Running(g)' /\ ~Loading(g)' /\ ~Loading(g)
  BY <1>1, Phases DEF Loading, Running
<1>3. track[h] = weights[h] /\ temps = {} /\ call = {}
  BY <1>1, <1>2 DEF Tracked
<1>4. BlockTypes'
  BY <1>1, Released DEF BlockTypes
<1>5. Tracked' /\ InUse'
  BY <1>1, <1>2, <1>3, Released DEF Tracked, InUse
<1>6. OneOwner'
  BY <1>1, Released DEF OneOwner, BlockTypes
<1>7. HeapOwned'
  <2>. SUFFICES ASSUME NEW p \in Addrs PROVE p \in heap' <=> Owned(p)'
    BY DEF HeapOwned
  <2>1. p \in heap' <=> p \in heap /\ p \notin weights[h] /\ p # arena[h]
    BY <1>1, <1>3, Released
  <2>2. Owned(p)' <=> \/ \E g \in Handles : g # h /\ (p \in weights[g] \/ p = arena[g])
                      \/ p = static
    BY <1>1, <1>3, Released DEF Owned
  <2>. QED
    BY <1>3, <2>1, <2>2 DEF HeapOwned, Owned, OneOwner
<1>. QED
  BY <1>1, <1>4, <1>5, <1>6, <1>7, Released DEF Memory!FreedOnce

\* A call that fails frees what its tracker lists: the temporary blocks.
LEMMA RunFails ==
    ASSUME UsualMemory, MemoryInv, NEW h \in Handles, Running(h), Memory!Freed(call), call' = {},
           op' = Memory!Idle, temps' = {}, UNCHANGED <<opened, Memory!owners, Memory!stats>>
    PROVE  MemoryInv'
<1>. USE DEF MemoryInv, UsualMemory, Memory!OwnershipAssumption, Memory!owners, Memory!stats
<1>1. call = temps
  BY DEF Tracked
<1>2. \A g \in Handles : ~Running(g)' /\ ~Loading(g)' /\ ~Loading(g)
  BY Phases DEF Loading, Running, Memory!Idle
<1>3. temps \subseteq heap
  BY DEF HeapOwned, Owned, BlockTypes
<1>4. heap' = heap \ temps /\ wild' = {} /\ big' \subseteq heap'
  BY <1>1, <1>3 DEF Memory!Freed, Memory!FreedOnce, BlockTypes
<1>5. BlockTypes' /\ Tracked' /\ InUse'
  BY <1>2, <1>4 DEF BlockTypes, Tracked, InUse
<1>6. OneOwner' /\ Memory!FreedOnce'
  BY <1>4 DEF OneOwner, Memory!FreedOnce
<1>7. HeapOwned'
  BY <1>4 DEF HeapOwned, Owned, OneOwner
<1>. QED
  BY <1>5, <1>6, <1>7

LEMMA UnwindSteps ==
    ASSUME UsualMemory, MemoryInv, NEW h \in Handles, Memory!OpenFails(h) \/ Memory!CallFails(h) \/ Memory!Unwind(h)
    PROVE  MemoryInv'
<1>1. CASE Memory!OpenFails(h)
  BY <1>1, LoadFails DEF Memory!OpenFails, Memory!Opening, Loading, Memory!stats
<1>2. CASE Memory!CallFails(h)
  BY <1>2, RunFails DEF Memory!CallFails, Memory!Calling, Running
<1>3. CASE Memory!Unwind(h) /\ op = <<"openfail", h>>
  <2>1. Memory!Release(h) /\ UNCHANGED call /\ op' = Memory!Idle /\ temps' = {} /\ UNCHANGED <<opened, Memory!stats>>
    BY <1>3 DEF Memory!Unwind
  <2>. QED
    BY <1>3, <2>1, LoadFails DEF Loading, Memory!stats
<1>4. CASE Memory!Unwind(h) /\ op = <<"callfail", h>>
  <2>1. Memory!Freed(call) /\ call' = {} /\ op' = Memory!Idle /\ temps' = {} /\ UNCHANGED <<opened, Memory!owners, Memory!stats>>
    BY <1>4 DEF Memory!Unwind
  <2>. QED
    BY <1>4, <2>1, RunFails DEF Running
<1>. QED
  BY <1>1, <1>2, <1>3, <1>4 DEF Memory!Unwind

\* The arena and the static are resized: the block moves, or stays.
LEMMA ArenaStep ==
    ASSUME UsualMemory, MemoryInv, NEW h \in Handles, Memory!Arena(h)
    PROVE  MemoryInv'
<1>. USE DEF MemoryInv, UsualMemory, Memory!OwnershipAssumption, Memory!stats
<1>1. PICK r \in Memory!MRealloc(arena[h], TRUE, TRUE) :
         /\ r.ret # Null /\ heap' = r.heap /\ big' = r.big
         /\ arena' = [arena EXCEPT ![h] = r.ret]
  BY DEF Memory!Arena
<1>2. /\ Running(h)
      /\ UNCHANGED <<op, opened, track, weights, head, call, temps, static, room, wild>>
  BY DEF Memory!Arena, Memory!Calling, Running
<1>3. /\ arena[h] \in Addrs \cup {Null} /\ heap \subseteq Addrs /\ big \subseteq heap
      /\ TRUE \in BOOLEAN
  BY DEF BlockTypes
<1>. DEFINE q == r.ret
<1>4. /\ q \in Addrs /\ q \notin heap \ {arena[h]}
      /\ heap' = (heap \ {arena[h]}) \cup {q} /\ big' \subseteq heap'
  <2>. DEFINE a == arena[h]
  <2>1. a \in Addrs \cup {Null} /\ r \in Memory!MRealloc(a, TRUE, TRUE)
    BY <1>3
  <2>. HIDE DEF a
  <2>2. \/ r.ret = Null /\ r.heap = heap /\ r.big = big
        \/ /\ r.ret \in Addrs /\ r.ret \notin heap \ {a}
           /\ r.heap = (heap \ {a}) \cup {r.ret} /\ r.big \subseteq r.heap
    BY <1>3, <2>1, Resized
  <2>. QED
    BY <1>1, <2>2 DEF a
<1>5. \A g \in Handles : arena'[g] = IF g = h THEN q ELSE arena[g]
  BY <1>1 DEF BlockTypes
<1>6. arena' \in [Handles -> Addrs \cup {Null}]
  BY <1>1, <1>4 DEF BlockTypes
<1>. HIDE DEF q
<1>7. q = arena[h] \/ ~Owned(q)
  BY <1>4 DEF HeapOwned
<1>8. BlockTypes'
  BY <1>2, <1>4, <1>6 DEF BlockTypes, Loading, Running
<1>9. Tracked' /\ InUse' /\ Memory!FreedOnce'
  BY <1>2, <1>5 DEF Tracked, InUse, Memory!FreedOnce, Loading, Running
<1>10. OneOwner'
  BY <1>2, <1>4, <1>5, <1>7 DEF OneOwner, Owned
<1>11. HeapOwned'
  <2>. SUFFICES ASSUME NEW p \in Addrs PROVE p \in heap' <=> Owned(p)'
    BY DEF HeapOwned
  <2>1. Owned(p)' <=> \/ \E g \in Handles : p \in weights[g] \/ (g # h /\ p = arena[g])
                      \/ p = q \/ p \in temps \/ p = static
    BY <1>2, <1>5 DEF Owned
  <2>2. p \in heap /\ p # arena[h] => \/ \E g \in Handles : p \in weights[g] \/ (g # h /\ p = arena[g])
                                     \/ p \in temps \/ p = static
    BY DEF HeapOwned, Owned
  <2>3. (\/ \E g \in Handles : p \in weights[g] \/ (g # h /\ p = arena[g])
         \/ p \in temps \/ p = static) => p \in heap /\ p # arena[h]
    BY DEF HeapOwned, Owned, OneOwner
  <2>. QED
    BY <1>4, <2>1, <2>2, <2>3
<1>. QED
  BY <1>8, <1>9, <1>10, <1>11

LEMMA StaticStep ==
    ASSUME UsualMemory, MemoryInv, NEW h \in Handles, Memory!Grow(h)
    PROVE  MemoryInv'
<1>. USE DEF MemoryInv, UsualMemory, Memory!OwnershipAssumption, Memory!owners
<1>1. PICK m \in room + 1 .. 3 : \E r \in Memory!MRealloc(static, TRUE, m >= 2) :
         /\ r.ret # Null /\ heap' = r.heap /\ big' = r.big
         /\ static' = r.ret /\ room' = m
  BY DEF Memory!Grow
<1>2. PICK r \in Memory!MRealloc(static, TRUE, m >= 2) :
         /\ r.ret # Null /\ heap' = r.heap /\ big' = r.big
         /\ static' = r.ret /\ room' = m
  BY <1>1
<1>3. UNCHANGED <<op, opened, track, weights, head, arena, call, temps, wild>>
  BY DEF Memory!Grow
<1>4. static \in Addrs \cup {Null} /\ heap \subseteq Addrs /\ big \subseteq heap
      /\ (m >= 2) \in BOOLEAN /\ m \in 0 .. 3
  BY DEF BlockTypes
<1>. DEFINE q == r.ret
<1>5. /\ q \in Addrs /\ q \notin heap \ {static}
      /\ heap' = (heap \ {static}) \cup {q} /\ big' \subseteq heap'
  BY <1>2, <1>4, Resized
<1>6. static' = q /\ room' \in 0 .. 3
  BY <1>2, <1>4
<1>. HIDE DEF q
<1>7. q = static \/ ~Owned(q)
  BY <1>5 DEF HeapOwned
<1>8. BlockTypes'
  BY <1>3, <1>5, <1>6 DEF BlockTypes, Loading, Running
<1>9. Tracked' /\ InUse' /\ Memory!FreedOnce'
  BY <1>3 DEF Tracked, InUse, Memory!FreedOnce, Loading, Running
<1>10. OneOwner'
  BY <1>3, <1>5, <1>6, <1>7 DEF OneOwner, Owned
<1>11. HeapOwned'
  BY <1>3, <1>5, <1>6 DEF HeapOwned, Owned, OneOwner
<1>. QED
  BY <1>8, <1>9, <1>10, <1>11

\* A resize that fails has not touched the heap.
LEMMA ResizeFailsStep ==
    ASSUME UsualMemory, MemoryInv, NEW h \in Handles, Memory!ResizeFails(h)
    PROVE  MemoryInv'
<1>. USE DEF MemoryInv, UsualMemory, Memory!OwnershipAssumption, Memory!owners, Memory!stats
<1>1. PICK m \in room + 1 .. 3 : \E r \in Memory!MRealloc(static, TRUE, m >= 2) :
         r.ret = Null /\ heap' = r.heap /\ big' = r.big
  BY DEF Memory!ResizeFails
<1>2. PICK r \in Memory!MRealloc(static, TRUE, m >= 2) :
         r.ret = Null /\ heap' = r.heap /\ big' = r.big
  BY <1>1
<1>3. /\ UNCHANGED <<opened, track, weights, head, arena, call, temps, wild, static, room>>
      /\ Memory!Opening(h) \/ Memory!Calling(h)
      /\ op' = <<IF Memory!Opening(h) THEN "openfail" ELSE "callfail", h>>
  BY DEF Memory!ResizeFails
<1>4. static \in Addrs \cup {Null} /\ heap \subseteq Addrs /\ big \subseteq heap
      /\ (m >= 2) \in BOOLEAN
  BY DEF BlockTypes
<1>5. heap' = heap /\ big' = big
  BY <1>2, <1>4, Resized
<1>6. \A g \in Handles : Loading(g)' = Loading(g) /\ Running(g)' = Running(g)
  BY <1>3 DEF Memory!Opening, Memory!Calling, Loading, Running
<1>7. Loading(h)' \/ Running(h)'
  BY <1>3 DEF Loading, Running
<1>8. op' # Memory!Idle
  BY <1>7, Phases DEF Loading, Running, Memory!Idle
<1>9. BlockTypes' /\ Tracked' /\ InUse'
  BY <1>3, <1>5, <1>6, <1>7, <1>8 DEF BlockTypes, Tracked, InUse
<1>10. OneOwner' /\ HeapOwned' /\ Memory!FreedOnce'
  BY <1>3, <1>5 DEF OneOwner, HeapOwned, Owned, Memory!FreedOnce
<1>. QED
  BY <1>9, <1>10

LEMMA ScratchStep ==
    ASSUME UsualMemory, MemoryInv, Memory!ReleaseScratch
    PROVE  MemoryInv'
<1>. USE DEF MemoryInv, UsualMemory, Memory!OwnershipAssumption, Memory!owners
<1>1. /\ Memory!Freed({static} \ {Null}) /\ static' = Null /\ room' = 0
      /\ UNCHANGED <<op, opened, track, weights, head, arena, call, temps>>
  BY DEF Memory!ReleaseScratch
<1>2. {static} \ {Null} \subseteq heap
  BY DEF HeapOwned, Owned, BlockTypes
<1>3. heap' = heap \ {static} /\ wild' = {} /\ big' \subseteq heap'
  BY <1>1, <1>2 DEF Memory!Freed, Memory!FreedOnce, BlockTypes
<1>4. BlockTypes' /\ Tracked' /\ InUse' /\ Memory!FreedOnce'
  BY <1>1, <1>3 DEF BlockTypes, Tracked, InUse, Memory!FreedOnce, Loading, Running
<1>5. OneOwner'
  BY <1>1 DEF OneOwner, BlockTypes, HeapOwned, Owned
<1>6. HeapOwned'
  BY <1>1, <1>3 DEF HeapOwned, Owned, OneOwner
<1>. QED
  BY <1>4, <1>5, <1>6

LEMMA MemoryStep ==
    ASSUME UsualMemory, MemoryInv, [Memory!Next]_(Memory!vars)
    PROVE  MemoryInv'
<1>1. ASSUME NEW h \in Handles, Memory!BuildHead(h) PROVE FALSE
  BY <1>1 DEF Memory!BuildHead, UsualMemory
<1>2. CASE UNCHANGED Memory!vars
  BY <1>2 DEF Memory!vars, Memory!heaps, Memory!owners, Memory!stats, MemoryInv, BlockTypes, Loading, Running, Tracked, InUse,
              OneOwner, HeapOwned, Owned, Memory!FreedOnce
<1>. QED
  BY <1>1, <1>2, PhaseSteps, WeightStep, TempStep, TempGoneStep, UnwindSteps, CloseStep,
     ArenaStep, StaticStep, ResizeFailsStep, ScratchStep DEF Memory!Next

\* Every block that is allocated between calls belongs to an open handle or
\* to the static, and every pointer leads to a block of its own.
LEMMA MemoryConsequences ==
    ASSUME UsualMemory, MemoryInv
    PROVE  Memory!FreedOnce /\ Memory!NothingLeaks /\ Memory!NothingDangles
<1>. USE DEF MemoryInv, UsualMemory, Memory!OwnershipAssumption
<1>1. \A h \in Handles : head[h] = {}
  BY DEF BlockTypes
<1>2. Memory!NothingLeaks
  <2>. SUFFICES ASSUME op = Memory!Idle
       PROVE  heap = (UNION {Memory!BlocksOf(h) : h \in opened}) \cup ({static} \ {Null})
    BY DEF Memory!NothingLeaks
  <2>1. temps = {} /\ \A h \in Handles : ~Loading(h)
    BY Phases DEF Tracked
  <2>2. \A p \in Addrs : p \in heap <=> (\E h \in opened : p \in Memory!BlocksOf(h)) \/ p = static
    BY <1>1, <2>1 DEF HeapOwned, Owned, InUse, Memory!BlocksOf, BlockTypes
  <2>3. \A h \in opened : Memory!BlocksOf(h) \subseteq Addrs
    BY <1>1 DEF Memory!BlocksOf, BlockTypes
  <2>. QED
    BY <2>2, <2>3 DEF BlockTypes
<1>3. Memory!NothingDangles
  <2>1. \A h \in Handles : Memory!BlocksOf(h) \subseteq heap
    BY <1>1 DEF Memory!BlocksOf, HeapOwned, Owned, BlockTypes
  <2>2. temps \subseteq heap /\ static \in heap \cup {Null}
    BY DEF HeapOwned, Owned, BlockTypes
  <2>3. \A h \in Handles : /\ static \notin Memory!BlocksOf(h)
                           /\ \A g \in Handles \ {h} : Memory!BlocksOf(h) \cap Memory!BlocksOf(g) = {}
    BY <1>1 DEF Memory!BlocksOf, OneOwner
  <2>. QED
    BY <2>1, <2>2, <2>3 DEF Memory!NothingDangles
<1>. QED
  BY <1>2, <1>3

LEMMA MemorySteps == [Next]_vars => [Memory!Next]_(Memory!vars)
  BY DEF Next, Settings, Blocks, Lookups, Caching, Streams, Directories, vars, memoryVars,
         Memory!vars, Memory!heaps, Memory!owners, Memory!stats

\* No block is freed twice, none that is used is gone, and between calls none
\* is left that no open handle owns, wherever an open or a call fails
\* (src/c/nn/alloc.c under moty_fail), with the head's shortlist off and an
\* mmap that does not fail.
THEOREM LibraryMemory ==
    ASSUME Shortlist = FALSE, MapFails = FALSE PROVE Spec => []MemorySound
<1>1. UsualMemory
  BY LibraryAssumption DEF LibraryAssumption, UsualMemory
<1>2. Init => MemoryInv
  BY <1>1, MemoryInit DEF Init
<1>3. MemoryInv /\ [Next]_vars => MemoryInv'
  BY <1>1, MemorySteps, MemoryStep
<1>4. MemoryInv => Memory!TypeOK
  BY DEF MemoryInv, BlockTypes, Tracked, Memory!TypeOK
<1>5. MemoryInv => MemorySound
  BY <1>1, <1>4, MemoryConsequences DEF MemorySound
<1>. QED
  BY <1>2, <1>3, <1>5, PTL DEF Spec

-----------------------------------------------------------------------------
(***************************************************************************)
(* The cache of experts, with one thread in the warm-up.                   *)
(***************************************************************************)
Doing  == task[Cached!Caller]
Sought == want[Cached!Caller]
Spot   == at[Cached!Caller]

\* What the proofs assume of the caches: one thread warms up, the pins leave a
\* slot unless there is one for every expert, and so there is when a token's
\* experts are collected before they are computed with.
OneThread == \E t \in Team : Team = {t}
RoomyCaches == \A u \in Setups : /\ Len(u.pins) < u.cap \/ u.cap = E
                                 /\ "single" \in u.paths => u.cap = E
UsualCaches == Cached!CacheAssumption /\ TickMod \in Nat \ {0} /\ OneThread /\ RoomyCaches

StoreTypes ==
  /\ setup \in Setups /\ phase \in {"pin", "warm", "serve"} /\ next \in Nat
  /\ task \in [Team -> {"idle", "touch", "look", "grow", "load", "name", "got"}]
  /\ want \in [Team -> Cached!Experts \cup {Cached!None}]
  /\ at \in [Team -> Cached!Slots \cup {Cached!None}]
  /\ tick \in [Team -> Nat] /\ nn \in [Team -> Nat] /\ clock \in Nat
  /\ n \in 0 .. Cached!Cap
  /\ eid \in [Cached!Slots -> Cached!Experts \cup {Cached!None}]
  /\ holds \in [Cached!Slots -> Cached!Experts \cup {Cached!None}]
  /\ heat \in [Cached!Experts -> 0 .. HeatMax] /\ last \in [Cached!Experts -> Nat]
  /\ asked \in [Cached!Experts -> Nat] /\ misses \in Nat
  /\ pinned \subseteq Cached!Experts
  /\ path \in {"single", "batch"} /\ plan \in Seq(Cached!Experts)
  /\ es \in Seq(Cached!Experts \X Cached!Slots)

\* Where the thread is in expert_get.
Staged ==
  /\ Doing # "idle" => Sought \in Cached!Experts
  /\ Doing = "grow" => nn[Cached!Caller] = n /\ n < Cached!Cap
  /\ Doing \in {"load", "name", "got"} => Spot \in 1 .. n
  /\ Doing \in {"grow", "load", "name"} => \A s \in Cached!Slots : eid[s] # Sought
  /\ Doing = "load" => holds[Spot] = eid[Spot]
  /\ Doing = "name" => holds[Spot] = Sought
  /\ Doing = "got" => eid[Spot] = Sought

\* A slot that is not being filled holds the expert it names, and no expert is
\* named twice.
Filling(s) == Doing \in {"load", "name"} /\ s = Spot
Filled == \A s \in Cached!Slots :
             /\ s > n => eid[s] = Cached!None /\ holds[s] = Cached!None
             /\ s <= n /\ ~Filling(s) => eid[s] \in Cached!Experts /\ holds[s] = eid[s]
Alone == \A s, x \in Cached!Slots :
            eid[s] = eid[x] /\ eid[s] \in Cached!Experts => s = x

\* While the pins are made they are all there is; later they stay.
InPin == phase = "pin" => /\ Doing = "idle" /\ n = next /\ next <= Len(Cached!Pins)
                          /\ \A s \in 1 .. n : eid[s] = Cached!Pins[s]
                          /\ pinned = {Cached!Pins[i] : i \in 1 .. next}
                          /\ plan = <<>> /\ es = <<>> /\ misses = 0
PinsKept == /\ \A e \in pinned : \E s \in 1 .. n : eid[s] = e /\ ~Filling(s)
            /\ phase # "pin" => pinned = {Cached!Pins[i] : i \in DOMAIN Cached!Pins}
Warming == phase = "warm" => next <= E /\ plan = <<>> /\ es = <<>>

\* With a slot for each expert none is evicted, and all are there once the
\* layer is warm.
Resident(e) == \E s \in 1 .. n : eid[s] = e
Whole == Cached!Cap = E =>
   /\ phase # "pin" => misses + Len(Cached!Pins) = n + (IF Doing = "grow" THEN 1 ELSE 0)
   /\ Doing \in {"load", "name"} => eid[Spot] = Cached!None
   /\ phase = "warm" => \A e \in 0 .. next - 1 : Resident(e) \/ (Doing # "idle" /\ Sought = e)
   /\ phase = "serve" => /\ n = E /\ Doing \in {"idle", "touch", "look", "got"}
                         /\ \A e \in Cached!Experts : Resident(e)

\* A token's experts are collected from a cache that has a slot for each.
Gathered == /\ path = "single" => Cached!Cap = E
            /\ es # <<>> => phase = "serve" /\ Cached!Cap = E
            /\ \A i \in DOMAIN es : es[i][2] \in 1 .. n /\ eid[es[i][2]] = es[i][1]

CacheInv == /\ StoreTypes /\ Staged /\ Filled /\ Alone /\ InPin /\ PinsKept /\ Warming
            /\ Whole /\ Gathered /\ Cached!UsesRouted

-----------------------------------------------------------------------------
\* What the assumptions say of the cache of this run.
LEMMA CacheFacts ==
    ASSUME UsualCaches, setup \in Setups
    PROVE  /\ E \in Nat \ {0} /\ K \in 1 .. E /\ Passes \in Nat /\ HeatMax \in Nat
           /\ TickMod \in Nat \ {0}
           /\ Team = {Cached!Caller}
           /\ Cached!Cap \in 1 .. E
           /\ Cached!Pins \in Seq(Cached!Experts)
           /\ \A i, j \in DOMAIN Cached!Pins :
                  Cached!Pins[i] = Cached!Pins[j] => i = j
           /\ Cached!Paths \subseteq {"single", "batch"}
           /\ Len(Cached!Pins) < Cached!Cap \/ Cached!Cap = E
           /\ "single" \in Cached!Paths => Cached!Cap = E
<1>1. /\ E \in Nat \ {0} /\ K \in 1 .. E /\ Passes \in Nat /\ HeatMax \in Nat
      /\ TickMod \in Nat \ {0}
  BY DEF UsualCaches, Cached!CacheAssumption
<1>2. Team = {Cached!Caller}
  BY DEF UsualCaches, OneThread, Cached!Caller
<1>3. /\ setup.cap \in 1 .. E /\ setup.paths \subseteq {"single", "batch"}
      /\ setup.pins \in Seq(Cached!Experts)
      /\ Cached!IsInjective(setup.pins)
  BY DEF UsualCaches, Cached!CacheAssumption
<1>4. /\ Len(setup.pins) < setup.cap \/ setup.cap = E
      /\ "single" \in setup.paths => setup.cap = E
  BY DEF UsualCaches, RoomyCaches
<1>. QED
  BY <1>1, <1>2, <1>3, <1>4
     DEF Cached!Cap, Cached!Pins, Cached!Paths, Cached!IsInjective

\* As many places as things, no thing in two places: all the things are there.
LEMMA Pigeons ==
    ASSUME NEW a \in Nat, NEW S, IsFiniteSet(S), NEW g \in [1 .. a -> S],
           \A i, j \in 1 .. a : g[i] = g[j] => i = j
    PROVE  /\ a <= Cardinality(S)
           /\ a = Cardinality(S) => \A x \in S : \E i \in 1 .. a : g[i] = x
<1>1. g \in Injection(1 .. a, S)
  BY DEF Injection, IsInjective
<1>2. IsFiniteSet(1 .. a) /\ Cardinality(1 .. a) = a
  BY FS_Interval
<1>3. /\ Cardinality(1 .. a) <= Cardinality(S)
      /\ Cardinality(1 .. a) = Cardinality(S) => g \in Surjection(1 .. a, S)
  BY <1>1, FS_Injection
<1>4. Cardinality(1 .. a) = Cardinality(S) => \A x \in S : \E i \in 1 .. a : g[i] = x
  BY <1>3 DEF Surjection
<1>. QED
  BY <1>2, <1>3, <1>4

LEMMA ExpertsCount ==
    ASSUME E \in Nat \ {0}
    PROVE  IsFiniteSet(Cached!Experts) /\ Cardinality(Cached!Experts) = E
<1>1. IsFiniteSet(0 .. E - 1) /\ Cardinality(0 .. E - 1) = E
  BY FS_Interval
<1>. QED
  BY <1>1 DEF Cached!Experts

\* A full cache with a slot for each expert has every expert.
LEMMA AllThere ==
    ASSUME UsualCaches, StoreTypes, Filled, Alone, n = E, Doing \notin {"load", "name"}
    PROVE  \A e \in Cached!Experts : Resident(e)
<1>1. /\ E \in Nat \ {0} /\ Cached!Cap \in 1 .. E
  BY CacheFacts DEF StoreTypes
<1>2. /\ n \in 0 .. Cached!Cap
      /\ eid \in [Cached!Slots -> Cached!Experts \cup {Cached!None}]
  BY DEF StoreTypes
<1>3. Cached!Slots = 1 .. E
  BY <1>1, <1>2 DEF Cached!Slots
<1>4. \A s \in 1 .. E : eid[s] \in Cached!Experts
  BY <1>1, <1>3 DEF Filled, Filling
<1>5. eid \in [1 .. E -> Cached!Experts]
  BY <1>2, <1>3, <1>4
<1>6. \A i, j \in 1 .. E : eid[i] = eid[j] => i = j
  BY <1>3, <1>4 DEF Alone
<1>. QED
  BY <1>1, <1>5, <1>6, ExpertsCount, Pigeons DEF Resident

\* A full cache that has not been pinned full has an expert that is not pinned.
LEMMA SomeFree ==
    ASSUME UsualCaches, StoreTypes, Filled, Alone, n = Cached!Cap,
           Doing \notin {"load", "name"},
           pinned = {Cached!Pins[i] : i \in DOMAIN Cached!Pins},
           Cached!Cap # E
    PROVE  \E s \in 1 .. n : eid[s] \in Cached!Experts \ pinned
<1>1. /\ Cached!Cap \in 1 .. E /\ E \in Nat
      /\ Cached!Pins \in Seq(Cached!Experts)
      /\ Len(Cached!Pins) < Cached!Cap
  BY CacheFacts DEF StoreTypes
<1>2. \A s \in 1 .. n : s \in Cached!Slots /\ eid[s] \in Cached!Experts
  BY <1>1 DEF Filled, Filling, Cached!Slots
<1>3. SUFFICES ASSUME \A s \in 1 .. n : eid[s] \in pinned PROVE FALSE
  BY <1>2
<1>. DEFINE m == Len(Cached!Pins)
            g == [s \in 1 .. n |-> CHOOSE i \in 1 .. m : Cached!Pins[i] = eid[s]]
<1>4. m \in Nat /\ DOMAIN Cached!Pins = 1 .. m
  BY <1>1
<1>5. \A s \in 1 .. n : \E i \in 1 .. m : Cached!Pins[i] = eid[s]
  BY <1>3, <1>4
<1>6. \A s \in 1 .. n : g[s] \in 1 .. m /\ Cached!Pins[g[s]] = eid[s]
  BY <1>5
<1>7. \A i, j \in 1 .. n : g[i] = g[j] => i = j
  BY <1>2, <1>6 DEF Alone
<1>8. g \in [1 .. n -> 1 .. m] /\ n \in Nat
  BY <1>1, <1>6
<1>9. IsFiniteSet(1 .. m) /\ Cardinality(1 .. m) = m
  BY <1>4, FS_Interval
<1>10. n <= m
  <2>. HIDE DEF g, m
  <2>1. n <= Cardinality(1 .. m)
    BY <1>7, <1>8, <1>9, Pigeons, Zenon
  <2>. QED
    BY <1>9, <2>1
<1>. QED
  BY <1>1, <1>4, <1>10

-----------------------------------------------------------------------------
\* The victim of an eviction: the coldest of those that are not pinned.
LEMMA ScoreType ==
    ASSUME UsualCaches, StoreTypes, NEW c \in Nat, NEW e \in Cached!Experts
    PROVE  Cached!Score(c)[e] \in Nat
<1>1. heat[e] \in Nat /\ last[e] \in Nat /\ TickMod \in Nat \ {0}
  BY CacheFacts DEF StoreTypes
<1>. DEFINE age == (c - last[e]) % TickMod
<1>2. age \in Nat
  BY <1>1
<1>3. Cached!Score(c)[e] = 256 * heat[e] + (IF age < 255 THEN 255 - age ELSE 0)
  BY DEF Cached!Score, Cached!LfruScore
<1>. HIDE DEF age
<1>. QED
  BY <1>1, <1>2, <1>3

LEMMA LeastOf ==
    ASSUME NEW S \in SUBSET Nat, S # {}
    PROVE  \E x \in S : \A y \in S : x <= y
<1>. DEFINE Less == {ss \in Nat \X Nat : ss[1] < ss[2]}
<1>1. OpToRel(<, Nat) = Less
  BY Zenon DEF OpToRel
<1>2. IsWellFoundedOn(Less, Nat)
  BY NatLessThanWellFounded, <1>1, Zenon
<1>3. PICK x \in S : \A y \in S : ~(<<y, x>> \in Less)
  <2>. HIDE DEF Less
  <2>. QED
    BY <1>2, WFMin
<1>4. ASSUME NEW y \in S PROVE x <= y
  <2>1. x \in Nat /\ y \in Nat
    OBVIOUS
  <2>2. ~(y < x)
    BY <1>3, <2>1
  <2>. QED
    BY <2>1, <2>2
<1>. QED
  BY <1>4

LEMMA VictimOf ==
    ASSUME UsualCaches, StoreTypes, Filled, n = Cached!Cap, Doing = "look",
           NEW c \in Nat, NEW v \in Cached!Victims(c)
    PROVE  /\ v \in 1 .. n
           /\ IF \E s \in 1 .. n : eid[s] \notin pinned
              THEN /\ eid[v] \notin pinned
                   /\ \A x \in 1 .. n : eid[x] \notin pinned =>
                         Cached!Score(c)[eid[v]] <= Cached!Score(c)[eid[x]]
              ELSE v = 1
<1>1. Cached!Cap \in 1 .. E /\ E \in Nat
  BY CacheFacts DEF StoreTypes
<1>2. \A s \in 1 .. n : eid[s] \in Cached!Experts
  BY <1>1 DEF Filled, Filling, Cached!Slots
<1>3. Cached!Residents = 1 .. n
  BY <1>2 DEF Cached!Residents
<1>. DEFINE free == {s \in 1 .. n : eid[s] \notin pinned}
            cold == {s \in free : \A x \in free :
                        Cached!Score(c)[eid[s]] <= Cached!Score(c)[eid[x]]}
<1>4. Cached!Victims(c) = IF free = {} THEN {1} ELSE {Cached!Min(cold)}
  BY <1>3 DEF Cached!Victims
<1>5. CASE free = {}
  BY <1>1, <1>4, <1>5
<1>6. CASE free # {}
  <2>. DEFINE values == {Cached!Score(c)[eid[s]] : s \in free}
  <2>1. values \in SUBSET Nat /\ values # {}
    BY <1>2, <1>6, ScoreType
  <2>2. PICK w \in values : \A y \in values : w <= y
    <3>. HIDE DEF values
    <3>. QED
      BY <2>1, LeastOf
  <2>3. PICK s \in free : w = Cached!Score(c)[eid[s]]
    OBVIOUS
  <2>4. s \in cold
    BY <2>2, <2>3
  <2>5. cold \in SUBSET Nat /\ cold # {}
    BY <1>1, <2>4
  <2>6. Cached!Min(cold) \in cold
    <3>. HIDE DEF cold
    <3>1. \E x \in cold : \A y \in cold : x <= y
      BY <2>5, LeastOf
    <3>. QED
      BY <3>1 DEF Cached!Min
  <2>7. v \in cold
    BY <1>4, <1>6, <2>6
  <2>. QED
    BY <2>7
<1>. QED
  BY <1>5, <1>6

-----------------------------------------------------------------------------
\* The pins, before anything is fetched.
LEMMA PinsFit ==
    ASSUME UsualCaches, setup \in Setups
    PROVE  Len(Cached!Pins) <= Cached!Cap
<1>1. /\ Cached!Cap \in 1 .. E /\ E \in Nat \ {0}
      /\ Cached!Pins \in Seq(Cached!Experts)
      /\ Len(Cached!Pins) < Cached!Cap \/ Cached!Cap = E
      /\ \A i, j \in DOMAIN Cached!Pins :
            Cached!Pins[i] = Cached!Pins[j] => i = j
  BY CacheFacts
<1>. DEFINE m == Len(Cached!Pins)
<1>2. /\ m \in Nat /\ DOMAIN Cached!Pins = 1 .. m
      /\ Cached!Pins \in [1 .. m -> Cached!Experts]
  BY <1>1
<1>3. m <= E
  <2>. HIDE DEF m
  <2>1. m <= Cardinality(Cached!Experts)
    BY <1>1, <1>2, ExpertsCount, Pigeons, Zenon
  <2>. QED
    BY <1>1, <2>1, ExpertsCount
<1>. QED
  BY <1>1, <1>2, <1>3

LEMMA PinStep ==
    ASSUME UsualCaches, CacheInv, Cached!Pin, UNCHANGED setup PROVE CacheInv'
<1>. DEFINE e == Cached!Pins[next + 1]
<1>1. /\ E \in Nat \ {0} /\ Cached!Cap \in 1 .. E
      /\ Cached!Pins \in Seq(Cached!Experts)
      /\ Len(Cached!Pins) <= Cached!Cap
      /\ \A i, j \in DOMAIN Cached!Pins :
            Cached!Pins[i] = Cached!Pins[j] => i = j
  BY CacheFacts, PinsFit DEF CacheInv, StoreTypes
<1>2. /\ phase = "pin" /\ next < Len(Cached!Pins) /\ n = next /\ Doing = "idle"
      /\ next \in Nat /\ Len(Cached!Pins) \in Nat
  BY <1>1 DEF CacheInv, StoreTypes, InPin, Cached!Pin
<1>3. /\ next + 1 \in DOMAIN Cached!Pins /\ e \in Cached!Experts
      /\ n + 1 \in Cached!Slots /\ n < Cached!Cap
  BY <1>1, <1>2 DEF Cached!Slots
<1>4. /\ pinned' = pinned \cup {e} /\ n' = n + 1 /\ next' = n + 1
      /\ eid' = [eid EXCEPT ![n + 1] = e] /\ holds' = [holds EXCEPT ![n + 1] = e]
      /\ UNCHANGED <<setup, phase, task, want, at, tick, nn, heat, last, clock, hits, misses,
                     asked, path, plan, es, used>>
  BY <1>2, <1>3 DEF Cached!Pin, Cached!thread, Cached!stats, Cached!pass
<1>5. /\ Doing' = "idle" /\ Cached!Cap' = Cached!Cap
      /\ Cached!Slots' = Cached!Slots /\ Cached!Pins' = Cached!Pins
  BY <1>2, <1>4 DEF Doing, Cached!Cap, Cached!Slots, Cached!Pins
<1>. HIDE DEF e
<1>6. /\ eid'[n + 1] = e /\ holds'[n + 1] = e
      /\ \A s \in Cached!Slots \ {n + 1} : eid'[s] = eid[s] /\ holds'[s] = holds[s]
  BY <1>3, <1>4 DEF CacheInv, StoreTypes
<1>7. StoreTypes'
  <2>1. /\ n' \in 0 .. Cached!Cap' /\ next' \in Nat /\ pinned' \subseteq Cached!Experts
    BY <1>1, <1>2, <1>3, <1>4, <1>5 DEF CacheInv, StoreTypes
  <2>2. /\ eid' \in [Cached!Slots' -> Cached!Experts \cup {Cached!None}]
        /\ holds' \in [Cached!Slots' -> Cached!Experts \cup {Cached!None}]
    BY <1>3, <1>4, <1>5 DEF CacheInv, StoreTypes
  <2>. QED
    BY <1>4, <1>5, <2>1, <2>2 DEF CacheInv, StoreTypes
<1>8. Staged'
  BY <1>5 DEF Staged
<1>9. Filled'
  BY <1>1, <1>2, <1>3, <1>4, <1>5, <1>6 DEF CacheInv, Filled, Filling, Cached!Slots
<1>10. \A s \in 1 .. n : eid[s] # e
  BY <1>1, <1>2, <1>3 DEF CacheInv, InPin, e
<1>11. Alone'
  <2>1. \A s \in Cached!Slots : s > n => eid[s] = Cached!None
    BY DEF CacheInv, Filled
  <2>2. \A s \in Cached!Slots : s \in 1 .. n \/ s > n
    BY <1>1, <1>2 DEF Cached!Slots
  <2>3. e # Cached!None
    BY <1>1, <1>3 DEF Cached!None, Cached!Experts
  <2>4. \A s \in Cached!Slots : eid[s] # e
    BY <2>1, <2>2, <2>3, <1>10
  <2>. QED
    BY <1>5, <1>6, <2>4 DEF CacheInv, Alone
<1>12. InPin'
  <2>1. \A s \in 1 .. n + 1 : eid'[s] = Cached!Pins[s]
    <3>1. \A s \in 1 .. n : s \in Cached!Slots \ {n + 1} /\ eid[s] = Cached!Pins[s]
      BY <1>1, <1>2, <1>3 DEF CacheInv, InPin, Cached!Slots
    <3>. QED
      BY <1>2, <1>6, <3>1 DEF e
  <2>2. pinned' = {Cached!Pins[i] : i \in 1 .. next'}
    <3>1. pinned = {Cached!Pins[i] : i \in 1 .. n}
      BY <1>2 DEF CacheInv, InPin
    <3>. QED
      BY <1>2, <1>4, <3>1 DEF e
  <2>. QED
    BY <1>2, <1>4, <1>5, <2>1, <2>2 DEF CacheInv, InPin
<1>13. PinsKept'
  <2>1. \A p \in pinned : \E s \in 1 .. n : eid[s] = p
    BY DEF CacheInv, PinsKept
  <2>2. \A s \in 1 .. n : s \in Cached!Slots \ {n + 1} /\ s \in 1 .. n + 1
    BY <1>1, <1>2, <1>3 DEF Cached!Slots
  <2>3. \A p \in pinned' : \E s \in 1 .. n' : eid'[s] = p
    <3>1. n + 1 \in 1 .. n'
      BY <1>2, <1>4
    <3>. QED
      BY <1>4, <1>6, <2>1, <2>2, <3>1
  <2>. QED
    BY <1>2, <1>4, <1>5, <2>3 DEF PinsKept, Filling
<1>14. Warming' /\ Whole'
  BY <1>2, <1>4, <1>5 DEF Warming, Whole
<1>15. Gathered'
  BY <1>2, <1>4, <1>5 DEF CacheInv, Gathered, InPin
<1>16. Cached!UsesRouted'
  BY <1>4 DEF CacheInv, Cached!UsesRouted
<1>. QED
  BY <1>7, <1>8, <1>9, <1>11, <1>12, <1>13, <1>14, <1>15, <1>16 DEF CacheInv

\* What a step that leaves the slots alone keeps.
LEMMA SameSetup ==
    ASSUME UNCHANGED setup
    PROVE  /\ Cached!Cap' = Cached!Cap /\ Cached!Slots' = Cached!Slots
           /\ Cached!Pins' = Cached!Pins /\ Cached!Paths' = Cached!Paths
  BY DEF Cached!Cap, Cached!Slots, Cached!Pins, Cached!Paths

LEMMA StoreKept ==
    ASSUME CacheInv, UNCHANGED <<setup, n, eid, holds, pinned>>,
           Doing \notin {"load", "name"}, Doing' \notin {"load", "name"}
    PROVE  /\ Filled' /\ Alone'
           /\ \A e \in pinned' : \E s \in 1 .. n' : eid'[s] = e /\ ~Filling(s)'
<1>1. Filled'
  BY SameSetup DEF CacheInv, Filled, Filling
<1>2. Alone'
  BY SameSetup DEF CacheInv, Alone
<1>3. \A e \in pinned' : \E s \in 1 .. n' : eid'[s] = e /\ ~Filling(s)'
  BY DEF CacheInv, PinsKept, Filling
<1>. QED
  BY <1>1, <1>2, <1>3

\* The pins are made, and the layer is warm: nobody is in expert_get.
LEMMA PinnedStep ==
    ASSUME UsualCaches, CacheInv, Cached!Pinned, UNCHANGED setup PROVE CacheInv'
<1>1. /\ E \in Nat \ {0} /\ Cached!Pins \in Seq(Cached!Experts)
  BY CacheFacts DEF CacheInv, StoreTypes
<1>2. /\ phase = "pin" /\ next = Len(Cached!Pins) /\ phase' = "warm" /\ next' = 0
      /\ UNCHANGED <<setup, task, want, at, tick, nn, n, eid, holds, heat, last, clock, hits,
                     misses, asked, pinned, path, plan, es, used>>
  BY DEF Cached!Pinned, Cached!thread, Cached!store, Cached!stats,
         Cached!pass
<1>3. Doing = "idle" /\ Doing' = "idle" /\ n = next /\ misses = 0 /\ plan = <<>> /\ es = <<>>
      /\ pinned = {Cached!Pins[i] : i \in 1 .. next}
  BY <1>2 DEF CacheInv, InPin, Doing
<1>4. StoreTypes'
  BY <1>2, SameSetup DEF CacheInv, StoreTypes
<1>5. Staged'
  BY <1>3 DEF Staged
<1>6. InPin' /\ Warming'
  BY <1>1, <1>2, <1>3 DEF InPin, Warming
<1>7. PinsKept'
  BY <1>1, <1>2, <1>3, StoreKept, SameSetup DEF PinsKept
<1>8. Whole'
  BY <1>1, <1>2, <1>3, SameSetup DEF Whole
<1>9. Gathered' /\ Cached!UsesRouted'
  BY <1>2, <1>3, SameSetup DEF CacheInv, Gathered, Cached!UsesRouted
<1>. QED
  BY <1>2, <1>3, <1>4, <1>5, <1>6, <1>7, <1>8, <1>9, StoreKept DEF CacheInv

LEMMA WarmedStep ==
    ASSUME UsualCaches, CacheInv, Cached!Warmed, UNCHANGED setup PROVE CacheInv'
<1>1. /\ E \in Nat \ {0} /\ Team = {Cached!Caller} /\ Cached!Cap \in 1 .. E
  BY CacheFacts DEF CacheInv, StoreTypes
<1>2. /\ phase = "warm" /\ next = E /\ phase' = "serve" /\ next' = 0
      /\ Doing = "idle"
      /\ UNCHANGED <<setup, task, want, at, tick, nn, n, eid, holds, heat, last, clock, hits,
                     misses, asked, pinned, path, plan, es, used>>
  BY <1>1 DEF Cached!Warmed, Cached!thread, Cached!store, Cached!stats,
         Cached!pass, Doing
<1>3. Doing' = "idle" /\ plan = <<>> /\ es = <<>>
  BY <1>2 DEF CacheInv, Warming, Doing
<1>4. StoreTypes'
  BY <1>2, SameSetup DEF CacheInv, StoreTypes
<1>5. Staged'
  BY <1>3 DEF Staged
<1>6. InPin' /\ Warming'
  BY <1>2 DEF InPin, Warming
<1>7. PinsKept'
  BY <1>2, <1>3, StoreKept, SameSetup DEF CacheInv, PinsKept
<1>8. Whole'
  <2>1. SUFFICES ASSUME Cached!Cap = E PROVE Whole'
    BY SameSetup, <1>2 DEF Whole
  <2>2. \A e \in Cached!Experts : Resident(e)
    BY <1>2, <2>1 DEF CacheInv, Whole, Cached!Experts
  <2>3. n = E
    <3>1. n \in 0 .. E /\ Cached!Slots = 1 .. E
      BY <1>1, <2>1 DEF CacheInv, StoreTypes, Cached!Slots
    <3>. DEFINE g == [x \in 1 .. E |-> CHOOSE s \in 1 .. n : eid[s] = x - 1]
    <3>2. \A x \in 1 .. E : g[x] \in 1 .. n /\ eid[g[x]] = x - 1
      BY <1>1, <2>2 DEF Resident, Cached!Experts
    <3>3. \A i, j \in 1 .. E : g[i] = g[j] => i = j
      <4>1. \A i, j \in 1 .. E : g[i] = g[j] => i - 1 = j - 1
        BY <3>2
      <4>. HIDE DEF g
      <4>. QED
        BY <4>1
    <3>4. g \in [1 .. E -> 1 .. n]
      BY <3>2
    <3>5. IsFiniteSet(1 .. n) /\ Cardinality(1 .. n) = n
      BY <3>1, FS_Interval
    <3>6. E <= Cardinality(1 .. n)
      <4>. HIDE DEF g
      <4>. QED
        BY <1>1, <3>3, <3>4, <3>5, Pigeons
    <3>. QED
      BY <1>1, <3>1, <3>5, <3>6
  <2>4. \A e \in Cached!Experts : Resident(e)'
    BY <1>2, <2>2 DEF Resident
  <2>. QED
    BY <1>2, <1>3, <2>1, <2>3, <2>4, SameSetup DEF CacheInv, Whole
<1>9. Gathered' /\ Cached!UsesRouted'
  BY <1>2, <1>3, SameSetup DEF CacheInv, Gathered, Cached!UsesRouted
<1>. QED
  BY <1>2, <1>3, <1>4, <1>5, <1>6, <1>7, <1>8, <1>9, StoreKept DEF CacheInv

-----------------------------------------------------------------------------
\* The steps of expert_get.  Nothing is fetched while the pins are made.
LEMMA Asked ==
    ASSUME UsualCaches, CacheInv, NEW e \in Cached!Experts,
           Cached!Ask(Cached!Caller, e), UNCHANGED <<setup, phase, path, es, used>>,
           phase \in {"warm", "serve"}, next' \in Nat, plan' \in Seq(Cached!Experts),
           phase = "warm" => next < E /\ next' = next + 1 /\ e = next /\ plan' = plan,
           phase = "serve" => next' = next
    PROVE  CacheInv'
<1>1. Team = {Cached!Caller} /\ E \in Nat
  BY CacheFacts DEF CacheInv, StoreTypes
<1>2. /\ Doing = "idle" /\ Doing' = "touch" /\ Sought' = e
      /\ task' \in [Team -> {"idle", "touch", "look", "grow", "load", "name", "got"}]
      /\ want' \in [Team -> Cached!Experts \cup {Cached!None}]
      /\ asked' \in [Cached!Experts -> Nat]
  BY <1>1 DEF CacheInv, StoreTypes, Cached!Ask, Doing, Sought
<1>3. UNCHANGED <<setup, phase, path, es, used, at, tick, nn, n, eid, holds, heat, last, clock,
                  hits, misses, pinned>>
  BY DEF Cached!Ask, Cached!store
<1>4. StoreTypes'
  BY <1>2, <1>3, SameSetup DEF CacheInv, StoreTypes
<1>5. Staged'
  BY <1>2 DEF Staged
<1>6. InPin' /\ Warming'
  BY <1>1, <1>3 DEF CacheInv, StoreTypes, InPin, Warming
<1>7. PinsKept'
  BY <1>2, <1>3, StoreKept, SameSetup DEF CacheInv, PinsKept
<1>8. Whole'
  <2>1. \A x \in Nat : Resident(x)' <=> Resident(x)
    BY <1>3 DEF Resident
  <2>2. phase = "warm" /\ Cached!Cap = E =>
           \A x \in 0 .. next' - 1 : Resident(x)' \/ (Doing' # "idle" /\ Sought' = x)
    <3>1. next \in Nat
      BY DEF CacheInv, StoreTypes
    <3>. QED
      BY <1>2, <2>1, <3>1 DEF CacheInv, Whole
  <2>3. \A x \in Cached!Experts : x \in Nat
    BY <1>1 DEF Cached!Experts
  <2>. QED
    BY <1>2, <1>3, <2>1, <2>2, <2>3, SameSetup DEF CacheInv, Whole
<1>9. Gathered' /\ Cached!UsesRouted'
  BY <1>3, SameSetup DEF CacheInv, Gathered, Cached!UsesRouted
<1>. QED
  BY <1>2, <1>3, <1>4, <1>5, <1>6, <1>7, <1>8, <1>9, StoreKept DEF CacheInv

LEMMA AskSteps ==
    ASSUME UsualCaches, CacheInv, UNCHANGED setup,
           Cached!WarmUp(Cached!Caller) \/ Cached!Fetch
    PROVE  CacheInv'
<1>1. E \in Nat \ {0} /\ next \in Nat /\ plan \in Seq(Cached!Experts)
  BY CacheFacts DEF CacheInv, StoreTypes
<1>2. CASE Cached!WarmUp(Cached!Caller)
  <2>1. /\ Cached!Ask(Cached!Caller, next) /\ phase = "warm" /\ next < E
        /\ next' = next + 1 /\ UNCHANGED <<phase, path, plan, es, used>>
    BY <1>2 DEF Cached!WarmUp, Cached!pass
  <2>2. next \in Cached!Experts
    BY <1>1, <2>1 DEF Cached!Experts
  <2>. QED
    BY <1>1, <2>1, <2>2, Asked
<1>3. CASE Cached!Fetch
  <2>1. /\ phase = "serve" /\ plan # <<>> /\ plan' = Tail(plan)
        /\ Cached!Ask(Cached!Caller, Head(plan))
        /\ UNCHANGED <<phase, next, path, es, used>>
    BY <1>3 DEF Cached!Fetch
  <2>2. Head(plan) \in Cached!Experts /\ Tail(plan) \in Seq(Cached!Experts)
    BY <1>1, <2>1
  <2>. QED
    BY <1>1, <2>1, <2>2, Asked
<1>. QED
  BY <1>2, <1>3

\* Between the question and the answer nothing is counted as used.
LEMMA GetFrame ==
    ASSUME UsualCaches, CacheInv, UNCHANGED <<setup, phase, next, path, plan, es, used, pinned>>,
           Doing # "idle", Sought' = Sought, Doing' # "idle",
           \A x \in 1 .. n : x \in 1 .. n' /\ (eid'[x] = eid[x] \/ eid[x] \notin Cached!Experts
                                                 \/ (Cached!Cap # E)),
           Cached!Cap = E /\ phase = "serve" => n' = n
    PROVE  /\ InPin' /\ Warming' /\ Gathered' /\ Cached!UsesRouted'
           /\ phase # "pin"
           /\ Cached!Cap = E /\ phase = "warm" =>
                 \A e \in 0 .. next - 1 : Resident(e)' \/ (Doing' # "idle" /\ Sought' = e)
           /\ Cached!Cap = E /\ phase = "serve" =>
                 \A e \in Cached!Experts : Resident(e)'
<1>1. phase # "pin" /\ E \in Nat
  BY CacheFacts DEF CacheInv, InPin, StoreTypes
<1>2. InPin' /\ Warming'
  BY <1>1 DEF CacheInv, InPin, Warming
<1>3. ASSUME Cached!Cap = E, NEW e \in Cached!Experts, Resident(e)
      PROVE  Resident(e)'
  BY <1>3 DEF Resident
<1>4. phase = "warm" => next <= E /\ next \in Nat
  BY DEF CacheInv, StoreTypes, Warming
<1>5. Cached!Cap = E /\ phase = "warm" =>
         \A e \in 0 .. next - 1 : Resident(e)' \/ (Doing' # "idle" /\ Sought' = e)
  BY <1>1, <1>3, <1>4 DEF CacheInv, Whole, Cached!Experts
<1>6. Cached!Cap = E /\ phase = "serve" =>
         \A e \in Cached!Experts : Resident(e)'
  BY <1>3 DEF CacheInv, Whole
<1>7. Gathered'
  <2>1. es \in Seq(Cached!Experts \X Cached!Slots)
    BY DEF CacheInv, StoreTypes
  <2>2. ASSUME NEW i \in DOMAIN es PROVE es'[i][2] \in 1 .. n' /\ eid'[es'[i][2]] = es'[i][1]
    <3>1. es # <<>>
      BY <2>1
    <3>2. es[i] \in Cached!Experts \X Cached!Slots
      BY <2>1
    <3>3. Cached!Cap = E /\ es[i][2] \in 1 .. n /\ eid[es[i][2]] = es[i][1]
      BY <3>1 DEF CacheInv, Gathered
    <3>. QED
      BY <3>2, <3>3
  <2>. QED
    BY <2>2, SameSetup DEF CacheInv, Gathered
<1>8. Cached!UsesRouted'
  BY DEF CacheInv, Cached!UsesRouted
<1>. QED
  BY <1>1, <1>2, <1>5, <1>6, <1>7, <1>8

LEMMA LookSteps ==
    ASSUME UsualCaches, CacheInv, UNCHANGED setup,
           \/ Cached!Touch(Cached!Caller)
           \/ Cached!Hit(Cached!Caller)
           \/ Cached!Miss(Cached!Caller)
    PROVE  CacheInv'
<1>. DEFINE c == Cached!Caller
<1>1. /\ Team = {c} /\ E \in Nat \ {0} /\ Cached!Cap \in 1 .. E /\ TickMod \in Nat \ {0}
      /\ HeatMax \in Nat
  BY CacheFacts DEF CacheInv, StoreTypes
<1>2. /\ Doing \in {"touch", "look"} /\ Doing' \in {"look", "grow", "got"} /\ Sought' = Sought
      /\ Sought \in Cached!Experts
      /\ UNCHANGED <<phase, next, want, path, plan, es, used, pinned, n, eid, holds, asked>>
      /\ task' \in [Team -> {"idle", "touch", "look", "grow", "load", "name", "got"}]
  BY <1>1 DEF CacheInv, StoreTypes, Staged, Doing, Sought, Cached!Touch, Cached!Hit,
              Cached!Miss, Cached!store, Cached!pass
<1>3. \A s \in 1 .. n : s \in Cached!Slots /\ eid[s] \in Cached!Experts
  BY <1>1, <1>2 DEF CacheInv, StoreTypes, Filled, Filling, Cached!Slots
<1>4. /\ InPin' /\ Warming' /\ Gathered' /\ Cached!UsesRouted' /\ phase # "pin"
      /\ Cached!Cap = E /\ phase = "warm" =>
             \A e \in 0 .. next - 1 : Resident(e)' \/ (Doing' # "idle" /\ Sought' = e)
      /\ Cached!Cap = E /\ phase = "serve" => \A e \in Cached!Experts : Resident(e)'
  BY <1>2, GetFrame
<1>5. PinsKept'
  BY <1>2, StoreKept, SameSetup DEF CacheInv, PinsKept
<1>6. Filled' /\ Alone'
  BY <1>2, StoreKept
<1>7. StoreTypes' /\ Staged' /\ Whole'
  <2>1. CASE Cached!Touch(c)
    <3>1. /\ Doing' = "look"
          /\ heat' = [heat EXCEPT ![Sought] = IF @ < HeatMax THEN @ + 1 ELSE @]
          /\ last' = [last EXCEPT ![Sought] = clock] /\ tick' = [tick EXCEPT ![c] = clock]
          /\ UNCHANGED <<at, nn, clock, misses>>
      BY <1>1, <2>1 DEF CacheInv, StoreTypes, Cached!Touch, Doing, Sought
    <3>2. heat' \in [Cached!Experts -> 0 .. HeatMax]
      <4>1. heat \in [Cached!Experts -> 0 .. HeatMax]
        BY DEF CacheInv, StoreTypes
      <4>. QED
        BY <1>1, <1>2, <3>1, <4>1
    <3>3. last' \in [Cached!Experts -> Nat] /\ tick' \in [Team -> Nat]
      BY <1>1, <1>2, <3>1 DEF CacheInv, StoreTypes
    <3>4. StoreTypes'
      BY <1>2, <3>1, <3>2, <3>3, SameSetup DEF CacheInv, StoreTypes
    <3>5. Staged'
      BY <1>2, <3>1 DEF Staged
    <3>6. Whole'
      BY <1>2, <1>4, <3>1, SameSetup DEF CacheInv, Whole
    <3>. QED
      BY <3>4, <3>5, <3>6
  <2>2. CASE Cached!Hit(c)
    <3>1. /\ Doing = "look" /\ Doing' = "got" /\ clock' = Cached!Tick(c)
          /\ at' = [at EXCEPT ![c] = Cached!Min(Cached!Found(Sought))]
          /\ Cached!Found(Sought) # {}
          /\ UNCHANGED <<tick, nn, heat, last, misses>>
      BY <1>1, <2>2 DEF CacheInv, StoreTypes, Cached!Hit, Doing, Sought
    <3>2. clock' \in Nat
      <4>1. tick[c] \in Nat
        BY <1>1 DEF CacheInv, StoreTypes
      <4>. QED
        BY <1>1, <3>1, <4>1 DEF Cached!Tick
    <3>. DEFINE found == Cached!Found(Sought)
    <3>3. found = {s \in 1 .. n : eid[s] = Sought}
      BY <1>3 DEF Cached!Found, Cached!Residents
    <3>4. Cached!Min(found) \in found
      <4>1. found \in SUBSET Nat
        BY <3>3 DEF CacheInv, StoreTypes
      <4>. HIDE DEF found
      <4>2. found # {}
        BY <3>1 DEF found
      <4>3. \E x \in found : \A y \in found : x <= y
        BY <4>1, <4>2, LeastOf
      <4>. QED
        BY <4>3 DEF Cached!Min
    <3>5. Spot' \in 1 .. n /\ eid[Spot'] = Sought
      BY <1>1, <3>1, <3>3, <3>4 DEF CacheInv, StoreTypes, Spot
    <3>6. at' \in [Team -> Cached!Slots \cup {Cached!None}]
      BY <1>1, <1>3, <3>1, <3>3, <3>4 DEF CacheInv, StoreTypes
    <3>7. StoreTypes'
      BY <1>2, <3>1, <3>2, <3>6, SameSetup DEF CacheInv, StoreTypes
    <3>8. Staged'
      BY <1>2, <3>1, <3>5 DEF Staged
    <3>9. Whole'
      BY <1>2, <1>4, <3>1, SameSetup DEF CacheInv, Whole
    <3>. QED
      BY <3>7, <3>8, <3>9
  <2>3. CASE Cached!Miss(c)
    <3>1. /\ Doing = "look" /\ Doing' = "grow" /\ clock' = Cached!Tick(c)
          /\ misses' = misses + 1 /\ nn' = [nn EXCEPT ![c] = n] /\ n < Cached!Cap
          /\ Cached!Found(Sought) = {}
          /\ UNCHANGED <<at, tick, heat, last>>
      BY <1>1, <2>3 DEF CacheInv, StoreTypes, Cached!Miss, Doing, Sought
    <3>2. clock' \in Nat
      <4>1. tick[c] \in Nat
        BY <1>1 DEF CacheInv, StoreTypes
      <4>. QED
        BY <1>1, <3>1, <4>1 DEF Cached!Tick
    <3>3. \A s \in 1 .. n : eid[s] # Sought
      BY <1>3, <3>1 DEF Cached!Found, Cached!Residents
    <3>4. \A s \in Cached!Slots : eid[s] # Sought
      <4>1. \A s \in Cached!Slots : s > n => eid[s] = Cached!None
        BY DEF CacheInv, Filled
      <4>2. \A s \in Cached!Slots : s \in 1 .. n \/ s > n
        BY <1>1 DEF CacheInv, StoreTypes, Cached!Slots
      <4>3. Sought # Cached!None
        BY <1>1, <1>2 DEF Cached!None, Cached!Experts
      <4>. QED
        BY <3>3, <4>1, <4>2, <4>3
    <3>5. StoreTypes'
      <4>1. nn' \in [Team -> Nat] /\ misses' \in Nat
        BY <1>1, <3>1 DEF CacheInv, StoreTypes
      <4>. QED
        BY <1>2, <3>1, <3>2, <4>1, SameSetup DEF CacheInv, StoreTypes
    <3>6. Staged'
      <4>1. nn'[c] = n
        BY <1>1, <3>1 DEF CacheInv, StoreTypes
      <4>. QED
        BY <1>2, <3>1, <3>4, <4>1, SameSetup DEF Staged
    <3>7. Whole'
      <4>1. SUFFICES ASSUME Cached!Cap = E PROVE Whole'
        BY SameSetup DEF Whole
      <4>2. phase # "serve"
        BY <1>2, <3>3, <4>1 DEF CacheInv, Whole, Resident
      <4>3. misses' + Len(Cached!Pins) = n + 1
        <5>1. misses + Len(Cached!Pins) = n + 0
          BY <1>4, <3>1, <4>1 DEF CacheInv, Whole
        <5>2. misses \in Nat /\ Len(Cached!Pins) \in Nat /\ n \in Nat
          BY <1>1, CacheFacts DEF CacheInv, StoreTypes
        <5>. QED
          BY <3>1, <5>1, <5>2
      <4>. QED
        BY <1>2, <1>4, <3>1, <4>1, <4>2, <4>3, SameSetup DEF Whole
    <3>. QED
      BY <3>5, <3>6, <3>7
  <2>. QED
    BY <2>1, <2>2, <2>3
<1>. QED
  BY <1>4, <1>5, <1>6, <1>7 DEF CacheInv

LEMMA EvictStep ==
    ASSUME UsualCaches, CacheInv, UNCHANGED setup, Cached!Evict(Cached!Caller)
    PROVE  CacheInv'
<1>. DEFINE c == Cached!Caller
<1>1. /\ Team = {c} /\ E \in Nat \ {0} /\ Cached!Cap \in 1 .. E /\ TickMod \in Nat \ {0}
  BY CacheFacts DEF CacheInv, StoreTypes
<1>2. PICK v \in Cached!Victims(Cached!Tick(c)) : at' = [at EXCEPT ![c] = v]
  BY DEF Cached!Evict
<1>3. /\ Doing = "look" /\ Doing' = "load" /\ Sought' = Sought /\ n = Cached!Cap
      /\ Sought \in Cached!Experts /\ Cached!Found(Sought) = {}
      /\ clock' = Cached!Tick(c) /\ misses' = misses + 1
      /\ UNCHANGED <<phase, next, want, path, plan, es, used, pinned, n, eid, holds, asked,
                     tick, nn, heat, last>>
      /\ task' \in [Team -> {"idle", "touch", "look", "grow", "load", "name", "got"}]
  BY <1>1 DEF CacheInv, StoreTypes, Staged, Doing, Sought, Cached!Evict,
              Cached!store, Cached!pass
<1>4. \A s \in Cached!Slots : s \in 1 .. n /\ eid[s] \in Cached!Experts /\ holds[s] = eid[s]
  BY <1>1, <1>3 DEF CacheInv, StoreTypes, Filled, Filling, Cached!Slots
<1>5. \A s \in Cached!Slots : eid[s] # Sought
  BY <1>3, <1>4 DEF Cached!Found, Cached!Residents
<1>6. Cached!Cap # E
  <2>1. SUFFICES ASSUME Cached!Cap = E PROVE FALSE
    OBVIOUS
  <2>2. Resident(Sought)
    BY <1>3, <2>1, AllThere DEF CacheInv
  <2>. QED
    BY <1>3, <1>5, <2>2 DEF Resident, Cached!Slots
<1>7. clock' \in Nat
  <2>1. tick[c] \in Nat
    BY <1>1 DEF CacheInv, StoreTypes
  <2>. QED
    BY <1>1, <1>3, <2>1 DEF Cached!Tick
<1>8. /\ InPin' /\ Warming' /\ Gathered' /\ Cached!UsesRouted' /\ phase # "pin"
  BY <1>3, <1>6, GetFrame
<1>9. v \in Cached!Slots /\ eid[v] \notin pinned
  <2>1. \E s \in 1 .. n : eid[s] \in Cached!Experts \ pinned
    BY <1>3, <1>6, <1>8, SomeFree DEF CacheInv, PinsKept
  <2>2. v \in 1 .. n /\ eid[v] \notin pinned
    BY <1>2, <1>3, <1>7, <2>1, VictimOf DEF CacheInv
  <2>. QED
    BY <1>3, <2>2 DEF Cached!Slots
<1>10. at' \in [Team -> Cached!Slots \cup {Cached!None}] /\ Spot' = v
  BY <1>1, <1>2, <1>9 DEF CacheInv, StoreTypes, Spot
<1>11. StoreTypes'
  <2>1. misses' \in Nat
    BY <1>3 DEF CacheInv, StoreTypes
  <2>. QED
    BY <1>3, <1>7, <1>10, <2>1, SameSetup DEF CacheInv, StoreTypes
<1>12. Staged'
  BY <1>3, <1>4, <1>5, <1>9, <1>10, SameSetup DEF Staged
<1>13. Filled' /\ Alone'
  BY <1>3, <1>4, <1>10, SameSetup DEF CacheInv, Filled, Alone, Filling
<1>14. PinsKept'
  <2>1. \A e \in pinned' : \E s \in 1 .. n' : eid'[s] = e /\ s # v
    BY <1>3, <1>9 DEF CacheInv, PinsKept
  <2>2. \A e \in pinned' : \E s \in 1 .. n' : eid'[s] = e /\ ~Filling(s)'
    BY <1>10, <2>1 DEF Filling
  <2>. QED
    BY <1>3, <2>2, SameSetup DEF CacheInv, PinsKept
<1>15. Whole'
  BY <1>6, SameSetup DEF Whole
<1>. QED
  BY <1>8, <1>11, <1>12, <1>13, <1>14, <1>15 DEF CacheInv

LEMMA GrowStep ==
    ASSUME UsualCaches, CacheInv, UNCHANGED setup, Cached!Grow(Cached!Caller)
    PROVE  CacheInv'
<1>. DEFINE c == Cached!Caller
<1>1. /\ Team = {c} /\ E \in Nat \ {0} /\ Cached!Cap \in 1 .. E
  BY CacheFacts DEF CacheInv, StoreTypes
<1>2. /\ Doing = "grow" /\ Doing' = "load" /\ Sought' = Sought /\ n < Cached!Cap
      /\ Sought \in Cached!Experts
      /\ n' = n + 1 /\ at' = [at EXCEPT ![c] = n + 1]
      /\ UNCHANGED <<phase, next, want, path, plan, es, used, pinned, eid, holds, asked,
                     tick, nn, heat, last, clock, misses>>
      /\ task' \in [Team -> {"idle", "touch", "look", "grow", "load", "name", "got"}]
  BY <1>1 DEF CacheInv, StoreTypes, Staged, Doing, Sought, Cached!Grow,
              Cached!stats, Cached!pass
<1>3. n \in Nat /\ n + 1 \in Cached!Slots
  BY <1>1, <1>2 DEF CacheInv, StoreTypes, Cached!Slots
<1>4. /\ eid[n + 1] = Cached!None /\ holds[n + 1] = Cached!None
  BY <1>3 DEF CacheInv, Filled
<1>5. \A s \in 1 .. n : s \in 1 .. n' /\ s # n + 1
  BY <1>2, <1>3
<1>6. Cached!Cap = E /\ phase = "serve" => n' = n
  BY <1>2 DEF CacheInv, Whole
<1>7. /\ InPin' /\ Warming' /\ Gathered' /\ Cached!UsesRouted' /\ phase # "pin"
      /\ Cached!Cap = E /\ phase = "warm" =>
             \A e \in 0 .. next - 1 : Resident(e)' \/ (Doing' # "idle" /\ Sought' = e)
  BY <1>2, <1>5, <1>6, GetFrame
<1>8. at' \in [Team -> Cached!Slots \cup {Cached!None}] /\ Spot' = n + 1
  BY <1>1, <1>2, <1>3 DEF CacheInv, StoreTypes, Spot
<1>9. StoreTypes'
  <2>1. n' \in 0 .. Cached!Cap'
    BY <1>1, <1>2, <1>3, SameSetup
  <2>. QED
    BY <1>2, <1>8, <2>1, SameSetup DEF CacheInv, StoreTypes
<1>10. Staged'
  <2>1. n + 1 \in 1 .. n' /\ \A s \in Cached!Slots : eid[s] # Sought
    BY <1>2, <1>3 DEF CacheInv, Staged
  <2>. QED
    BY <1>2, <1>4, <1>8, <2>1, SameSetup DEF Staged
<1>11. Filled' /\ Alone'
  <2>1. \A s \in Cached!Slots : (s > n + 1 => s > n) /\ (s <= n + 1 /\ s # n + 1 => s <= n)
    BY <1>1, <1>3 DEF Cached!Slots
  <2>2. Filled'
    BY <1>2, <1>8, <2>1, SameSetup DEF CacheInv, Filled, Filling
  <2>. QED
    BY <1>2, <2>2, SameSetup DEF CacheInv, Alone
<1>12. PinsKept'
  <2>1. \A e \in pinned' : \E s \in 1 .. n' : eid'[s] = e /\ ~Filling(s)'
    BY <1>2, <1>5, <1>8 DEF CacheInv, PinsKept, Filling
  <2>. QED
    BY <1>2, <2>1, SameSetup DEF CacheInv, PinsKept
<1>13. Whole'
  <2>1. SUFFICES ASSUME Cached!Cap = E PROVE Whole'
    BY SameSetup DEF Whole
  <2>2. misses + Len(Cached!Pins) = n + 1 /\ phase # "serve"
    BY <1>2, <1>7, <2>1 DEF CacheInv, Whole
  <2>3. misses' + Len(Cached!Pins') = n' + 0
    BY <1>2, <1>3, <2>2, SameSetup
  <2>. QED
    BY <1>2, <1>4, <1>7, <1>8, <2>1, <2>2, <2>3, SameSetup DEF Whole
<1>. QED
  BY <1>7, <1>9, <1>10, <1>11, <1>12, <1>13 DEF CacheInv

LEMMA LoadStep ==
    ASSUME UsualCaches, CacheInv, UNCHANGED setup, Cached!Load(Cached!Caller)
    PROVE  CacheInv'
<1>. DEFINE c == Cached!Caller
<1>1. /\ Team = {c} /\ E \in Nat \ {0} /\ Cached!Cap \in 1 .. E
  BY CacheFacts DEF CacheInv, StoreTypes
<1>2. /\ Doing = "load" /\ Doing' = "name" /\ Sought' = Sought /\ Spot' = Spot
      /\ Sought \in Cached!Experts /\ Spot \in 1 .. n
      /\ holds' = [holds EXCEPT ![Spot] = Sought]
      /\ UNCHANGED <<phase, next, want, at, path, plan, es, used, pinned, n, eid, asked,
                     tick, nn, heat, last, clock, misses>>
      /\ task' \in [Team -> {"idle", "touch", "look", "grow", "load", "name", "got"}]
  BY <1>1 DEF CacheInv, StoreTypes, Staged, Doing, Sought, Spot, Cached!Load,
              Cached!stats, Cached!pass
<1>3. Spot \in Cached!Slots
  BY <1>1, <1>2 DEF CacheInv, StoreTypes, Cached!Slots
<1>4. /\ holds'[Spot] = Sought
      /\ \A s \in Cached!Slots \ {Spot} : holds'[s] = holds[s]
      /\ holds' \in [Cached!Slots -> Cached!Experts \cup {Cached!None}]
  BY <1>2, <1>3 DEF CacheInv, StoreTypes
<1>5. /\ InPin' /\ Warming' /\ Gathered' /\ Cached!UsesRouted' /\ phase # "pin"
      /\ Cached!Cap = E /\ phase = "warm" =>
             \A e \in 0 .. next - 1 : Resident(e)' \/ (Doing' # "idle" /\ Sought' = e)
      /\ Cached!Cap = E /\ phase = "serve" => \A e \in Cached!Experts : Resident(e)'
  BY <1>2, GetFrame
<1>6. StoreTypes'
  BY <1>2, <1>4, SameSetup DEF CacheInv, StoreTypes
<1>7. Staged'
  BY <1>2, <1>4, SameSetup DEF CacheInv, Staged
<1>8. Filled' /\ Alone'
  <2>1. \A s \in Cached!Slots : s > n => s # Spot
    BY <1>2, <1>1 DEF CacheInv, StoreTypes, Cached!Slots
  <2>2. Filled'
    BY <1>2, <1>4, <2>1, SameSetup DEF CacheInv, Filled, Filling
  <2>. QED
    BY <1>2, <2>2, SameSetup DEF CacheInv, Alone
<1>9. PinsKept'
  BY <1>2, SameSetup DEF CacheInv, PinsKept, Filling
<1>10. Whole'
  BY <1>2, <1>5, SameSetup DEF CacheInv, Whole
<1>. QED
  BY <1>5, <1>6, <1>7, <1>8, <1>9, <1>10 DEF CacheInv

LEMMA NameStep ==
    ASSUME UsualCaches, CacheInv, UNCHANGED setup, Cached!Name(Cached!Caller)
    PROVE  CacheInv'
<1>. DEFINE c == Cached!Caller
<1>1. /\ Team = {c} /\ E \in Nat \ {0} /\ Cached!Cap \in 1 .. E
  BY CacheFacts DEF CacheInv, StoreTypes
<1>2. /\ Doing = "name" /\ Doing' = "got" /\ Sought' = Sought /\ Spot' = Spot
      /\ Sought \in Cached!Experts /\ Spot \in 1 .. n /\ holds[Spot] = Sought
      /\ \A s \in Cached!Slots : eid[s] # Sought
      /\ eid' = [eid EXCEPT ![Spot] = Sought]
      /\ UNCHANGED <<phase, next, want, at, path, plan, es, used, pinned, n, holds, asked,
                     tick, nn, heat, last, clock, misses>>
      /\ task' \in [Team -> {"idle", "touch", "look", "grow", "load", "name", "got"}]
  BY <1>1 DEF CacheInv, StoreTypes, Staged, Doing, Sought, Spot, Cached!Name,
              Cached!stats, Cached!pass
<1>3. Spot \in Cached!Slots /\ 1 .. n \subseteq Cached!Slots
  BY <1>1, <1>2 DEF CacheInv, StoreTypes, Cached!Slots
<1>4. /\ eid'[Spot] = Sought
      /\ \A s \in Cached!Slots \ {Spot} : eid'[s] = eid[s]
      /\ eid' \in [Cached!Slots -> Cached!Experts \cup {Cached!None}]
  BY <1>2, <1>3 DEF CacheInv, StoreTypes
<1>5. Cached!Cap = E => eid[Spot] = Cached!None
  BY <1>2 DEF CacheInv, Whole
<1>6. Cached!None \notin Cached!Experts
  BY <1>1 DEF Cached!None, Cached!Experts
<1>7. \A x \in 1 .. n : x \in 1 .. n' /\ (eid'[x] = eid[x] \/ eid[x] \notin Cached!Experts
                                                 \/ (Cached!Cap # E))
  BY <1>2, <1>3, <1>4, <1>5, <1>6
<1>8. /\ InPin' /\ Warming' /\ Gathered' /\ Cached!UsesRouted' /\ phase # "pin"
      /\ Cached!Cap = E /\ phase = "warm" =>
             \A e \in 0 .. next - 1 : Resident(e)' \/ (Doing' # "idle" /\ Sought' = e)
      /\ Cached!Cap = E /\ phase = "serve" => \A e \in Cached!Experts : Resident(e)'
  BY <1>2, <1>7, GetFrame
<1>9. StoreTypes'
  BY <1>2, <1>4, SameSetup DEF CacheInv, StoreTypes
<1>10. Staged'
  BY <1>2, <1>4, SameSetup DEF CacheInv, Staged
<1>11. Filled' /\ Alone'
  <2>1. \A s \in Cached!Slots : s > n => s # Spot
    BY <1>2, <1>1 DEF CacheInv, StoreTypes, Cached!Slots
  <2>2. Filled'
    BY <1>2, <1>3, <1>4, <2>1, SameSetup DEF CacheInv, Filled, Filling
  <2>. QED
    BY <1>2, <1>4, <2>2, SameSetup DEF CacheInv, Alone
<1>12. PinsKept'
  <2>1. \A e \in pinned' : \E s \in 1 .. n' : eid'[s] = e /\ ~Filling(s)'
    BY <1>2, <1>3, <1>4 DEF CacheInv, PinsKept, Filling
  <2>. QED
    BY <1>2, <2>1, SameSetup DEF CacheInv, PinsKept
<1>13. Whole'
  BY <1>2, <1>8, SameSetup DEF CacheInv, Whole
<1>. QED
  BY <1>8, <1>9, <1>10, <1>11, <1>12, <1>13 DEF CacheInv

-----------------------------------------------------------------------------
\* The slot is given back, computed with at once or collected for its token.
LEMMA FreeSteps ==
    ASSUME UsualCaches, CacheInv, UNCHANGED setup,
           \/ Cached!WarmNext(Cached!Caller)
           \/ Cached!UseOne
           \/ Cached!Collect
    PROVE  CacheInv'
<1>1. Team = {Cached!Caller} /\ E \in Nat /\ Cached!Cap \in 1 .. E
  BY CacheFacts DEF CacheInv, StoreTypes
<1>2. /\ Doing = "got" /\ Doing' = "idle" /\ phase \in {"warm", "serve"}
      /\ UNCHANGED <<phase, next, want, at, tick, nn, n, eid, holds, heat, last, clock, misses,
                     asked, pinned, path, plan>>
      /\ task' \in [Team -> {"idle", "touch", "look", "grow", "load", "name", "got"}]
  BY <1>1 DEF CacheInv, StoreTypes, Doing, Cached!WarmNext, Cached!UseOne,
              Cached!Collect, Cached!Free, Cached!store, Cached!stats,
              Cached!pass
<1>3. /\ Sought \in Cached!Experts /\ Spot \in 1 .. n /\ eid[Spot] = Sought
      /\ Spot \in Cached!Slots
  BY <1>1, <1>2 DEF CacheInv, StoreTypes, Staged, Cached!Slots
<1>4. holds[Spot] = Sought
  BY <1>1, <1>2, <1>3 DEF CacheInv, StoreTypes, Filled, Filling
<1>5. Staged'
  BY <1>2 DEF Staged
<1>6. InPin' /\ (phase = "warm" => es' = es) /\ Filled' /\ Alone' /\ PinsKept'
  BY <1>2, StoreKept, SameSetup
     DEF CacheInv, InPin, PinsKept, Cached!WarmNext, Cached!UseOne,
         Cached!Collect, Cached!pass
<1>7. Warming'
  BY <1>2, <1>6 DEF CacheInv, Warming
<1>8. Whole'
  <2>1. \A e \in Nat : Resident(e)' <=> Resident(e)
    BY <1>2 DEF Resident
  <2>2. \A e \in Cached!Experts : e \in Nat
    BY <1>1 DEF Cached!Experts
  <2>3. Cached!Cap = E /\ phase = "warm" => \A e \in 0 .. next - 1 : Resident(e)'
    <3>1. SUFFICES ASSUME Cached!Cap = E, phase = "warm", NEW e \in 0 .. next - 1
                   PROVE  Resident(e)
      BY <2>1 DEF CacheInv, StoreTypes
    <3>2. Resident(e) \/ Sought = e
      BY <3>1 DEF CacheInv, Whole
    <3>. QED
      BY <1>3, <3>2 DEF Resident
  <2>. QED
    BY <1>2, <2>1, <2>2, <2>3, SameSetup DEF CacheInv, Whole
<1>9. es' \in Seq(Cached!Experts \X Cached!Slots) /\ Gathered'
  <2>1. es \in Seq(Cached!Experts \X Cached!Slots)
    BY DEF CacheInv, StoreTypes
  <2>2. CASE es' = es
    BY <1>2, <2>1, <2>2, SameSetup DEF CacheInv, Gathered
  <2>3. CASE Cached!Collect
    <3>1. /\ phase = "serve" /\ path = "single" /\ es' = Append(es, <<Sought, Spot>>)
      BY <2>3 DEF Cached!Collect, Sought, Spot
    <3>2. Cached!Cap = E
      BY <3>1 DEF CacheInv, Gathered
    <3>3. es' \in Seq(Cached!Experts \X Cached!Slots)
      BY <1>3, <2>1, <3>1
    <3>4. ASSUME NEW i \in DOMAIN es' PROVE es'[i][2] \in 1 .. n /\ eid[es'[i][2]] = es'[i][1]
      <4>1. CASE i \in DOMAIN es
        <5>1. es'[i] = es[i]
          BY <2>1, <3>1, <4>1
        <5>. QED
          BY <4>1, <5>1 DEF CacheInv, Gathered
      <4>2. CASE i \notin DOMAIN es
        <5>1. es'[i] = <<Sought, Spot>>
          <6>. DEFINE w == <<Sought, Spot>>
          <6>1. w \in Cached!Experts \X Cached!Slots
            BY <1>3
          <6>. HIDE DEF w
          <6>2. es' = Append(es, w)
            BY <3>1 DEF w
          <6>3. es'[i] = w
            BY <2>1, <3>4, <4>2, <6>1, <6>2
          <6>. QED
            BY <6>3 DEF w
        <5>. QED
          BY <1>3, <5>1
      <4>. QED
        BY <4>1, <4>2
    <3>. QED
      BY <1>2, <3>1, <3>2, <3>3, <3>4, SameSetup DEF CacheInv, Gathered
  <2>. QED
    BY <2>2, <2>3 DEF Cached!WarmNext, Cached!UseOne, Cached!pass
<1>10. StoreTypes'
  BY <1>2, <1>9, SameSetup DEF CacheInv, StoreTypes
<1>11. Cached!UsesRouted'
  <2>1. used' = used \/ used' = used \cup {<<Sought, holds[Spot]>>}
    BY DEF Cached!WarmNext, Cached!UseOne, Cached!Collect, Cached!pass,
           Sought, Spot
  <2>. QED
    BY <1>4, <2>1 DEF CacheInv, Cached!UsesRouted
<1>. QED
  BY <1>5, <1>6, <1>7, <1>8, <1>9, <1>10, <1>11 DEF CacheInv

\* A token is routed, and the collected experts are computed with.
LEMMA PlanType ==
    ASSUME UsualCaches, setup \in Setups, NEW p, NEW q \in Cached!Plans(p)
    PROVE  /\ q \in Seq(Cached!Experts)
           /\ \A i, j \in DOMAIN q : q[i] = q[j] => i = j
<1>1. K \in 1 .. E /\ E \in Nat
  BY CacheFacts
<1>2. CASE p = "single"
  <2>1. q \in [1 .. K -> Cached!Experts] /\ Cached!IsInjective(q)
    BY <1>2 DEF Cached!Plans
  <2>. QED
    BY <1>1, <2>1 DEF Cached!IsInjective
<1>3. CASE p # "single"
  <2>1. PICK m \in K .. E : q \in [1 .. m -> Cached!Experts]
    BY <1>3 DEF Cached!Plans
  <2>2. \A i, j \in DOMAIN q : i < j => q[i] < q[j]
    BY <1>3 DEF Cached!Plans
  <2>3. m \in Nat /\ DOMAIN q = 1 .. m /\ \A i \in 1 .. m : q[i] \in Int
    BY <1>1, <2>1 DEF Cached!Experts
  <2>4. ASSUME NEW i \in 1 .. m, NEW j \in 1 .. m, q[i] = q[j] PROVE i = j
    <3>1. i \in Int /\ j \in Int /\ ~(i < j) /\ ~(j < i)
      BY <2>2, <2>3, <2>4
    <3>. QED
      BY <3>1
  <2>. QED
    BY <1>1, <2>1, <2>3, <2>4
<1>. QED
  BY <1>2, <1>3

LEMMA ServeSteps ==
    ASSUME UsualCaches, CacheInv, UNCHANGED setup, Cached!Route \/ Cached!UseAll
    PROVE  CacheInv'
<1>1. Team = {Cached!Caller} /\ E \in Nat /\ Cached!Cap \in 1 .. E /\ K \in Nat \ {0}
      /\ Cached!Paths \subseteq {"single", "batch"}
      /\ ("single" \in Cached!Paths => Cached!Cap = E)
  BY CacheFacts DEF CacheInv, StoreTypes
<1>2. /\ phase = "serve" /\ Doing' = Doing /\ Sought' = Sought /\ Spot' = Spot
      /\ UNCHANGED <<phase, task, want, at, tick, nn, n, eid, holds, heat, last, clock, misses,
                     asked, pinned>>
  BY DEF Cached!Route, Cached!UseAll, Cached!Idle, Cached!thread,
         Cached!store, Cached!stats, Doing, Sought, Spot
<1>3. \A s, e \in Nat \cup {Cached!None} :
         (Filling(s)' <=> Filling(s)) /\ (Resident(e)' <=> Resident(e))
  BY <1>2 DEF Filling, Resident
<1>4. Staged' /\ Filled' /\ Alone' /\ InPin' /\ PinsKept' /\ Warming' /\ Whole'
  <2>1. Staged' /\ Alone' /\ InPin' /\ Warming'
    BY <1>2, SameSetup DEF CacheInv, Staged, Alone, InPin, Warming
  <2>2. Filled' /\ PinsKept'
    BY <1>2, SameSetup DEF CacheInv, Filled, PinsKept, Filling
  <2>3. Whole'
    BY <1>2, SameSetup DEF CacheInv, Whole, Resident
  <2>. QED
    BY <2>1, <2>2, <2>3
<1>5. CASE Cached!Route
  <2>1. /\ path' \in Cached!Paths /\ plan' \in Cached!Plans(path') /\ used' = {}
        /\ next' = next + 1 /\ es' = es /\ es = <<>>
    BY <1>5 DEF Cached!Route, Cached!Idle
  <2>2. plan' \in Seq(Cached!Experts) /\ next' \in Nat
    BY <2>1, PlanType DEF CacheInv, StoreTypes
  <2>3. StoreTypes'
    BY <1>1, <1>2, <2>1, <2>2, SameSetup DEF CacheInv, StoreTypes
  <2>4. Gathered'
    BY <1>1, <1>2, <2>1, SameSetup DEF Gathered
  <2>5. Cached!UsesRouted'
    BY <2>1 DEF Cached!UsesRouted
  <2>. QED
    BY <1>4, <2>3, <2>4, <2>5 DEF CacheInv
<1>6. CASE Cached!UseAll
  <2>1. /\ Len(es) = K /\ es' = <<>> /\ UNCHANGED <<next, path, plan>>
        /\ used' = {<<x[1], holds[x[2]]>> : x \in Cached!Range(es)}
    BY <1>6 DEF Cached!UseAll
  <2>2. es \in Seq(Cached!Experts \X Cached!Slots) /\ es # <<>>
    BY <1>1, <2>1 DEF CacheInv, StoreTypes
  <2>3. StoreTypes'
    BY <1>2, <2>1, SameSetup DEF CacheInv, StoreTypes
  <2>4. Gathered'
    BY <2>1, SameSetup DEF CacheInv, Gathered
  <2>5. Cached!UsesRouted'
    <3>1. Doing \notin {"load", "name"}
      BY <2>2 DEF CacheInv, Gathered, Whole
    <3>2. ASSUME NEW i \in DOMAIN es PROVE holds[es[i][2]] = es[i][1]
      <4>1. es[i][2] \in 1 .. n /\ eid[es[i][2]] = es[i][1]
        BY DEF CacheInv, Gathered
      <4>2. es[i][2] \in Cached!Slots
        BY <1>1, <4>1 DEF CacheInv, StoreTypes, Cached!Slots
      <4>. QED
        BY <3>1, <4>1, <4>2 DEF CacheInv, Filled, Filling
    <3>. QED
      BY <2>1, <3>2 DEF Cached!UsesRouted, Cached!Range
  <2>. QED
    BY <1>4, <2>3, <2>4, <2>5 DEF CacheInv
<1>. QED
  BY <1>5, <1>6

-----------------------------------------------------------------------------
LEMMA CacheInit == ASSUME UsualCaches, Cached!Init PROVE CacheInv
<1>. USE DEF Cached!Init
<1>1. Team = {Cached!Caller} /\ E \in Nat \ {0} /\ Cached!Cap \in 1 .. E
      /\ HeatMax \in Nat /\ Cached!Pins \in Seq(Cached!Experts)
  BY CacheFacts
<1>2. Doing = "idle" /\ Cached!None \notin Cached!Experts
  BY <1>1 DEF Doing, Cached!None, Cached!Experts
<1>3. StoreTypes
  BY <1>1 DEF StoreTypes, Cached!Zero
<1>4. Staged /\ Filled
  BY <1>1, <1>2 DEF Staged, Filled, Cached!Slots
<1>5. Alone
  BY <1>2 DEF Alone
<1>6. InPin
  BY <1>1, <1>2 DEF InPin
<1>7. PinsKept /\ Warming /\ Whole /\ Gathered /\ Cached!UsesRouted
  BY <1>1, <1>2 DEF PinsKept, Warming, Whole, Gathered, Cached!UsesRouted
<1>. QED
  BY <1>3, <1>4, <1>5, <1>6, <1>7 DEF CacheInv

\* Who moves: with one thread it is the caller.
LEMMA CacheMoves ==
    ASSUME UsualCaches, setup \in Setups, Cached!Next
    PROVE  \/ UNCHANGED Cached!vars
           \/ /\ UNCHANGED setup
              /\ \/ Cached!Pin \/ Cached!Pinned \/ Cached!Warmed
                 \/ Cached!Route \/ Cached!UseAll
                 \/ Cached!Fetch \/ Cached!WarmUp(Cached!Caller)
                 \/ Cached!UseOne \/ Cached!Collect
                 \/ Cached!WarmNext(Cached!Caller)
                 \/ Cached!Touch(Cached!Caller)
                 \/ Cached!Hit(Cached!Caller)
                 \/ Cached!Miss(Cached!Caller)
                 \/ Cached!Evict(Cached!Caller)
                 \/ Cached!Grow(Cached!Caller)
                 \/ Cached!Load(Cached!Caller)
                 \/ Cached!Name(Cached!Caller)
<1>1. Team = {Cached!Caller}
  BY CacheFacts
<1>2. CASE Cached!Finished
  BY <1>2 DEF Cached!Finished
<1>3. CASE Cached!Step /\ UNCHANGED setup
  <2>1. CASE \E t \in Team : Cached!Get(t) \/ Cached!WarmUp(t) \/ Cached!WarmNext(t)
    <3>1. PICK t \in Team : Cached!Get(t) \/ Cached!WarmUp(t) \/ Cached!WarmNext(t)
      BY <2>1
    <3>2. t = Cached!Caller
      BY <1>1
    <3>3. \/ Cached!Get(Cached!Caller)
          \/ Cached!WarmUp(Cached!Caller)
          \/ Cached!WarmNext(Cached!Caller)
      BY <3>1, <3>2
    <3>. QED
      BY <1>3, <3>3 DEF Cached!Get
  <2>2. CASE \/ Cached!Pin \/ Cached!Pinned \/ Cached!Warmed
             \/ Cached!Serve
    BY <1>3, <2>2 DEF Cached!Serve
  <2>. QED
    BY <1>3, <2>1, <2>2 DEF Cached!Step
<1>. QED
  BY <1>2, <1>3 DEF Cached!Next

LEMMA CacheStill ==
    ASSUME CacheInv, UNCHANGED Cached!vars PROVE CacheInv'
<1>1. UNCHANGED <<setup, phase, next, task, want, at, tick, nn, n, eid, holds, heat, last, clock,
                  misses, asked, pinned, path, plan, es, used>>
  BY DEF Cached!vars, Cached!thread, Cached!store, Cached!stats,
         Cached!pass
<1>2. StoreTypes'
  BY <1>1, SameSetup DEF CacheInv, StoreTypes
<1>3. Staged' /\ Filled' /\ Alone'
  BY <1>1, SameSetup DEF CacheInv, Staged, Filled, Filling, Alone, Doing, Sought, Spot
<1>4. InPin' /\ PinsKept' /\ Warming'
  BY <1>1, SameSetup DEF CacheInv, InPin, PinsKept, Warming, Filling, Doing, Spot
<1>5. Whole' /\ Gathered' /\ Cached!UsesRouted'
  BY <1>1, SameSetup
     DEF CacheInv, Whole, Resident, Gathered, Cached!UsesRouted, Doing, Sought, Spot
<1>. QED
  BY <1>2, <1>3, <1>4, <1>5 DEF CacheInv

LEMMA CacheNext ==
    ASSUME UsualCaches, CacheInv, [Cached!Next]_(Cached!vars) PROVE CacheInv'
<1>1. setup \in Setups
  BY DEF CacheInv, StoreTypes
<1>2. CASE UNCHANGED Cached!vars
  BY <1>2, CacheStill
<1>3. CASE Cached!Next
  BY <1>1, <1>2, <1>3, CacheMoves, PinStep, PinnedStep, WarmedStep, ServeSteps, AskSteps,
     FreeSteps, LookSteps, EvictStep, GrowStep, LoadStep, NameStep
<1>. QED
  BY <1>2, <1>3

LEMMA CacheConsequences ==
    ASSUME UsualCaches, CacheInv
    PROVE  /\ Cached!TypeOK /\ Cached!SlotsTrue /\ Cached!PinnedStays
           /\ Cached!ReadOnce /\ Cached!UsesRouted
<1>1. Team = {Cached!Caller} /\ E \in Nat \ {0} /\ Cached!Cap \in 1 .. E
      /\ Cached!Pins \in Seq(Cached!Experts)
  BY CacheFacts DEF CacheInv, StoreTypes
<1>2. n \in Nat /\ 1 .. n \subseteq Cached!Slots
  BY <1>1 DEF CacheInv, StoreTypes, Cached!Slots
<1>3. Cached!Quiet <=> Doing = "idle"
  BY <1>1 DEF Cached!Quiet, Doing
<1>4. Cached!TypeOK
  <2>1. Doing = "idle" => \A s \in Cached!Slots : eid[s] = Cached!None <=> s > n
    <3>1. \A s \in Cached!Slots : s > n \/ s <= n
      BY <1>1, <1>2 DEF Cached!Slots
    <3>2. Cached!None \notin Cached!Experts
      BY <1>1 DEF Cached!None, Cached!Experts
    <3>3. \A s \in Cached!Slots : s <= n => ~(s > n)
      BY <1>1, <1>2 DEF Cached!Slots
    <3>. QED
      BY <3>1, <3>2, <3>3 DEF CacheInv, Filled, Filling
  <2>2. \A s \in Cached!Slots : eid[s] \in Cached!Experts \cup {Cached!None}
    BY DEF CacheInv, StoreTypes
  <2>3. \A t \in Team :
           /\ task[t] \in {"idle", "touch", "look", "grow", "load", "name", "got"}
           /\ want[t] \in Cached!Experts \cup {Cached!None}
           /\ at[t] \in Cached!Slots \cup {Cached!None}
    BY DEF CacheInv, StoreTypes
  <2>. QED
    BY <1>3, <2>1, <2>2, <2>3 DEF CacheInv, StoreTypes, Cached!TypeOK
<1>5. Cached!SlotsTrue
  <2>1. \A s \in 1 .. n : s \in Cached!Slots /\ s <= n
    BY <1>2
  <2>. QED
    BY <1>3, <2>1 DEF CacheInv, Filled, Filling, Alone, Cached!SlotsTrue
<1>6. Cached!PinnedStays
  <2>1. \A s \in 1 .. n : s \in Cached!Slots /\ s <= n
    BY <1>2
  <2>. QED
    BY <2>1 DEF CacheInv, PinsKept, Filled, Cached!PinnedStays
<1>7. Cached!ReadOnce
  <2>1. ASSUME Cached!Cap = E, phase = "serve" PROVE misses + Len(Cached!Pins) = E
    <3>1. misses + Len(Cached!Pins) = n + 0 /\ n = E
      BY <2>1 DEF CacheInv, Whole
    <3>. QED
      BY <1>2, <3>1
  <2>. QED
    BY <2>1 DEF Cached!ReadOnce
<1>. QED
  BY <1>4, <1>5, <1>6, <1>7 DEF CacheInv

LEMMA StoreSteps ==
  [Next]_vars => [Cached!Next]_(Cached!vars) /\ [Layered!Next]_(Layered!vars) /\ UNCHANGED view
<1>1. UNCHANGED cacheVars => UNCHANGED Cached!vars
  BY DEF cacheVars, Cached!vars, Cached!thread, Cached!store, Cached!stats, Cached!pass
<1>2. UNCHANGED layerVars => UNCHANGED Layered!vars
  BY DEF layerVars, Layered!vars
<1>3. Caching => Cached!Next /\ UNCHANGED <<view, layerVars>>
  BY DEF Caching
<1>4. Streams => Layered!Next /\ UNCHANGED <<view, cacheVars>>
  BY DEF Streams
<1>5. Settings \/ Blocks \/ Lookups \/ Directories => UNCHANGED <<view, cacheVars, layerVars>>
  BY DEF Settings, Blocks, Lookups, Directories
<1>6. UNCHANGED vars => UNCHANGED <<view, cacheVars, layerVars>>
  BY DEF vars
<1>. QED
  BY <1>1, <1>2, <1>3, <1>4, <1>5, <1>6 DEF Next

-----------------------------------------------------------------------------
\* What the heat says: how often an expert was asked for, while the counters
\* do not saturate.
Planned(e) == \E i \in DOMAIN plan : plan[i] = e
Tally ==
  /\ \A e \in Cached!Experts :
        /\ asked[e] = heat[e] + (IF Doing = "touch" /\ Sought = e THEN 1 ELSE 0)
        /\ phase = "pin" => asked[e] = 0
        /\ phase = "warm" => asked[e] = IF e < next THEN 1 ELSE 0
        /\ phase = "serve" => asked[e] <= 1 + next /\ (Planned(e) => asked[e] <= next)
  /\ phase = "serve" => next <= Passes
  /\ \A i, j \in DOMAIN plan : plan[i] = plan[j] => i = j

\* The victim was never asked for more often than an unpinned expert that stays.
ColdVictim ==
  Doing = "load" /\ holds[Spot] # Cached!None =>
     \A x \in Cached!Slots \ {Spot} :
        eid[x] \in pinned \/ asked[holds[Spot]] <= asked[eid[x]]

HotInv == CacheInv /\ Tally /\ ColdVictim

LEMMA HotInit ==
    ASSUME UsualCaches, Cached!Init PROVE HotInv
<1>1. CacheInv
  BY CacheInit
<1>2. Doing = "idle" /\ phase = "pin" /\ plan = <<>>
      /\ \A e \in Cached!Experts : asked[e] = 0 /\ heat[e] = 0
  BY CacheFacts DEF Cached!Init, Cached!Zero, Doing
<1>. QED
  BY <1>1, <1>2 DEF HotInv, Tally, ColdVictim

\* A lower score means no more accesses: recency counts less than one of them.
LEMMA ScoreOrder ==
    ASSUME UsualCaches, StoreTypes, NEW c \in Nat,
           NEW e \in Cached!Experts, NEW x \in Cached!Experts,
           Cached!Score(c)[e] <= Cached!Score(c)[x]
    PROVE  heat[e] <= heat[x]
<1>. DEFINE Recent(k) == LET age == (c - last[k]) % TickMod
                         IN  IF age < 255 THEN 255 - age ELSE 0
<1>1. TickMod \in Nat \ {0} /\ \A k \in Cached!Experts : heat[k] \in Nat /\ last[k] \in Nat
  BY CacheFacts DEF StoreTypes
<1>2. \A k \in Cached!Experts : (c - last[k]) % TickMod \in Nat
  BY <1>1
<1>3. \A k \in Cached!Experts : Recent(k) \in 0 .. 255
  BY <1>2
<1>4. \A k \in Cached!Experts : Cached!Score(c)[k] = 256 * heat[k] + Recent(k)
  BY DEF Cached!Score, Cached!LfruScore
<1>. HIDE DEF Recent
<1>5. 256 * heat[e] + Recent(e) <= 256 * heat[x] + Recent(x)
  BY <1>4
<1>6. heat[e] \in Nat /\ heat[x] \in Nat /\ Recent(e) \in 0 .. 255 /\ Recent(x) \in 0 .. 255
  BY <1>1, <1>3
<1>7. \A a, b \in Nat, r, q \in 0 .. 255 : 256 * a + r <= 256 * b + q => a <= b
  OBVIOUS
<1>. QED
  BY <1>5, <1>6, <1>7

\* A step that asks for nothing and touches nothing keeps the tally.
LEMMA TallyKept ==
    ASSUME Tally, UNCHANGED <<phase, next, plan, asked, heat>>,
           (Doing # "touch" /\ Doing' # "touch") \/ UNCHANGED <<Doing, Sought>>
    PROVE  Tally'
<1>1. \A e \in Cached!Experts : Planned(e)' <=> Planned(e)
  BY DEF Planned
<1>. QED
  BY <1>1 DEF Tally

LEMMA AskTally ==
    ASSUME UsualCaches, HotInv, NEW e \in Cached!Experts,
           Cached!Ask(Cached!Caller, e), UNCHANGED phase,
           phase \in {"warm", "serve"},
           phase = "warm" => next' = next + 1 /\ e = next /\ plan' = plan,
           phase = "serve" => next' = next /\ plan # <<>> /\ e = Head(plan) /\ plan' = Tail(plan)
    PROVE  Tally' /\ ColdVictim'
<1>1. Team = {Cached!Caller} /\ E \in Nat /\ plan \in Seq(Cached!Experts)
      /\ next \in Nat
  BY CacheFacts DEF HotInv, CacheInv, StoreTypes
<1>2. /\ Doing = "idle" /\ Doing' = "touch" /\ Sought' = e /\ heat' = heat
      /\ asked \in [Cached!Experts -> Nat] /\ asked' = [asked EXCEPT ![e] = @ + 1]
      /\ heat \in [Cached!Experts -> 0 .. HeatMax]
  BY <1>1 DEF HotInv, CacheInv, StoreTypes, Cached!Ask, Doing, Sought
<1>3. asked'[e] = asked[e] + 1 /\ \A x \in Cached!Experts \ {e} : asked'[x] = asked[x]
  BY <1>2
<1>4. \A x \in Cached!Experts : asked[x] \in Nat /\ heat[x] \in Nat
  BY <1>2, CacheFacts DEF HotInv, CacheInv, StoreTypes
<1>5. \A x \in Cached!Experts :
         asked'[x] = heat'[x] + (IF Doing' = "touch" /\ Sought' = x THEN 1 ELSE 0)
  <2>1. \A x \in Cached!Experts : asked[x] = heat[x] + 0
    BY <1>2 DEF HotInv, Tally
  <2>. QED
    BY <1>2, <1>3, <1>4, <2>1
<1>6. phase = "warm" => \A x \in Cached!Experts : asked'[x] = IF x < next' THEN 1 ELSE 0
  <2>1. \A x \in Cached!Experts : x \in Nat
    BY <1>1 DEF Cached!Experts
  <2>2. phase = "warm" => \A x \in Cached!Experts : asked[x] = IF x < next THEN 1 ELSE 0
    BY DEF HotInv, Tally
  <2>3. phase = "warm" => asked[e] = 0 /\ next' = next + 1 /\ e = next
    BY <1>1, <2>2
  <2>. QED
    BY <1>1, <1>3, <2>1, <2>2, <2>3
<1>7. phase = "serve" =>
         \A x \in Cached!Experts : asked'[x] <= 1 + next' /\ (Planned(x)' => asked'[x] <= next')
  <2>1. SUFFICES ASSUME phase = "serve", NEW x \in Cached!Experts
                 PROVE  asked'[x] <= 1 + next' /\ (Planned(x)' => asked'[x] <= next')
    OBVIOUS
  <2>2. plan # <<>> /\ e = plan[1] /\ plan' = Tail(plan) /\ next' = next
    BY <1>1, <2>1
  <2>3. 1 \in DOMAIN plan
    BY <1>1, <2>2
  <2>4. asked[e] <= next
    BY <2>1, <2>2, <2>3 DEF HotInv, Tally, Planned
  <2>5. asked[x] <= 1 + next /\ (Planned(x) => asked[x] <= next)
    BY <2>1 DEF HotInv, Tally
  <2>6. \A i \in DOMAIN plan' : i + 1 \in DOMAIN plan /\ i \in Nat \ {0} /\ plan'[i] = plan[i + 1]
    BY <1>1, <2>2
  <2>7. Planned(x)' => Planned(x) /\ x # e
    <3>1. SUFFICES ASSUME NEW i \in DOMAIN plan', plan'[i] = x PROVE Planned(x) /\ x # e
      BY DEF Planned
    <3>2. Planned(x)
      BY <2>6, <3>1 DEF Planned
    <3>3. i + 1 # 1
      BY <2>6
    <3>4. plan[i + 1] # plan[1]
      BY <2>3, <2>6, <3>3 DEF HotInv, Tally
    <3>. QED
      BY <2>2, <2>6, <3>1, <3>2, <3>4
  <2>. QED
    BY <1>1, <1>3, <1>4, <2>2, <2>4, <2>5, <2>7
<1>8. \A i, j \in DOMAIN plan' : plan'[i] = plan'[j] => i = j
  <2>1. CASE phase = "warm"
    BY <2>1 DEF HotInv, Tally
  <2>2. CASE phase = "serve"
    <3>1. \A i \in DOMAIN plan' : i + 1 \in DOMAIN plan /\ i \in Nat \ {0} /\ plan'[i] = plan[i + 1]
      BY <1>1, <2>2
    <3>2. ASSUME NEW i \in DOMAIN plan', NEW j \in DOMAIN plan', plan'[i] = plan'[j] PROVE i = j
      <4>1. i + 1 = j + 1
        BY <3>1, <3>2 DEF HotInv, Tally
      <4>. QED
        BY <3>1, <4>1
    <3>. QED
      BY <3>2
  <2>. QED
    BY <2>1, <2>2
<1>9. phase' = "serve" => next' <= Passes
  BY DEF HotInv, Tally
<1>. QED
  BY <1>2, <1>5, <1>6, <1>7, <1>8, <1>9 DEF Tally, ColdVictim

LEMMA PhaseTally ==
    ASSUME UsualCaches, HotInv, UNCHANGED setup,
           \/ Cached!Pin \/ Cached!Pinned \/ Cached!Warmed
           \/ Cached!Route \/ Cached!UseAll
    PROVE  Tally' /\ ColdVictim'
<1>1. Team = {Cached!Caller} /\ E \in Nat /\ next \in Nat /\ Passes \in Nat
      /\ \A e \in Cached!Experts : e \in 0 .. E - 1 /\ asked[e] \in Nat
  BY CacheFacts DEF HotInv, CacheInv, StoreTypes, Cached!Experts
<1>2. /\ Doing' = Doing /\ Sought' = Sought /\ Spot' = Spot
      /\ UNCHANGED <<asked, heat>>
  BY DEF Cached!Pin, Cached!Pinned, Cached!Warmed, Cached!Route,
         Cached!UseAll, Cached!thread, Cached!stats, Doing, Sought, Spot
<1>3. \A e \in Cached!Experts :
         asked'[e] = heat'[e] + (IF Doing' = "touch" /\ Sought' = e THEN 1 ELSE 0)
  BY <1>2 DEF HotInv, Tally
<1>4. CASE Cached!UseAll
  <2>1. UNCHANGED <<phase, next, plan, holds, eid, pinned>>
    BY <1>4 DEF Cached!UseAll, Cached!store
  <2>2. Tally'
    BY <1>2, <2>1, TallyKept DEF HotInv
  <2>. QED
    BY <1>2, <2>1, <2>2, SameSetup DEF HotInv, ColdVictim
<1>5. CASE Cached!Route
  <2>1. /\ phase = "serve" /\ phase' = phase /\ Doing = "idle" /\ next < Passes /\ next' = next + 1
        /\ plan' \in Cached!Plans(path')
    BY <1>5 DEF Cached!Route, Cached!Idle, Doing
  <2>2. \A i, j \in DOMAIN plan' : plan'[i] = plan'[j] => i = j
    BY <2>1, PlanType DEF HotInv, CacheInv, StoreTypes
  <2>3. \A e \in Cached!Experts : asked'[e] <= next'
    BY <1>1, <1>2, <2>1 DEF HotInv, Tally
  <2>4. \A e \in Cached!Experts : asked'[e] <= 1 + next' /\ (Planned(e)' => asked'[e] <= next')
    BY <1>1, <1>2, <2>1, <2>3
  <2>. QED
    BY <1>1, <1>2, <1>3, <2>1, <2>2, <2>4 DEF Tally, ColdVictim
<1>6. CASE Cached!Pin
  <2>1. phase = "pin" /\ phase' = phase /\ Doing = "idle" /\ plan' = plan
    BY <1>6 DEF Cached!Pin, Cached!pass, HotInv, CacheInv, InPin
  <2>. QED
    BY <1>2, <1>3, <2>1 DEF HotInv, Tally, ColdVictim
<1>7. CASE Cached!Pinned
  <2>1. phase = "pin" /\ phase' = "warm" /\ next' = 0 /\ Doing = "idle" /\ plan' = plan
    BY <1>7 DEF Cached!Pinned, Cached!pass, HotInv, CacheInv, InPin
  <2>2. \A e \in Cached!Experts : asked'[e] = IF e < next' THEN 1 ELSE 0
    BY <1>1, <1>2, <2>1 DEF HotInv, Tally
  <2>. QED
    BY <1>2, <1>3, <2>1, <2>2 DEF HotInv, Tally, ColdVictim
<1>8. CASE Cached!Warmed
  <2>1. phase = "warm" /\ next = E /\ phase' = "serve" /\ next' = 0 /\ Doing = "idle"
        /\ plan' = plan /\ plan = <<>>
    BY <1>1, <1>8 DEF Cached!Warmed, Cached!pass, HotInv, CacheInv, Warming, Doing
  <2>2. \A e \in Cached!Experts : asked'[e] <= 1 + next' /\ ~Planned(e)'
    BY <1>1, <1>2, <2>1 DEF HotInv, Tally, Planned
  <2>. QED
    BY <1>1, <1>2, <1>3, <2>1, <2>2 DEF HotInv, Tally, ColdVictim
<1>. QED
  BY <1>4, <1>5, <1>6, <1>7, <1>8

LEMMA GetTally ==
    ASSUME UsualCaches, Passes < HeatMax, HotInv, UNCHANGED setup,
           \/ Cached!Touch(Cached!Caller)
           \/ Cached!Hit(Cached!Caller)
           \/ Cached!Miss(Cached!Caller)
           \/ Cached!Evict(Cached!Caller)
           \/ Cached!Grow(Cached!Caller)
           \/ Cached!Load(Cached!Caller)
           \/ Cached!Name(Cached!Caller)
           \/ Cached!WarmNext(Cached!Caller)
           \/ Cached!UseOne
           \/ Cached!Collect
    PROVE  Tally' /\ ColdVictim'
<1>. DEFINE c == Cached!Caller
<1>1. Team = {c} /\ E \in Nat /\ Passes \in Nat /\ HeatMax \in Nat
      /\ TickMod \in Nat \ {0} /\ Cached!Cap \in 1 .. E
  BY CacheFacts DEF HotInv, CacheInv, StoreTypes
<1>2. task \in [Team -> {"idle", "touch", "look", "grow", "load", "name", "got"}]
  BY DEF HotInv, CacheInv, StoreTypes
<1>3. CASE Cached!Touch(c)
  <2>1. /\ Doing = "touch" /\ Doing' = "look" /\ Sought \in Cached!Experts
        /\ heat' = [heat EXCEPT ![Sought] = IF @ < HeatMax THEN @ + 1 ELSE @]
        /\ UNCHANGED <<phase, next, plan, asked>>
    BY <1>1, <1>2, <1>3
       DEF HotInv, CacheInv, Staged, Cached!Touch, Cached!pass, Doing, Sought
  <2>2. /\ heat \in [Cached!Experts -> 0 .. HeatMax] /\ next \in Nat
        /\ asked \in [Cached!Experts -> Nat]
    BY DEF HotInv, CacheInv, StoreTypes
  <2>3. phase # "pin" /\ asked[Sought] <= 1 + Passes
    <3>1. phase # "pin"
      BY <2>1 DEF HotInv, CacheInv, InPin
    <3>2. phase = "warm" \/ phase = "serve"
      BY <3>1 DEF HotInv, CacheInv, StoreTypes
    <3>3. CASE phase = "warm"
      BY <1>1, <2>1, <3>3 DEF HotInv, Tally
    <3>4. CASE phase = "serve"
      <4>1. asked[Sought] <= 1 + next /\ next <= Passes
        BY <2>1, <3>4 DEF HotInv, Tally
      <4>2. asked[Sought] \in Nat
        BY <2>1, <2>2
      <4>3. \A a, b, d \in Nat : a <= 1 + b /\ b <= d => a <= 1 + d
        OBVIOUS
      <4>4. next \in Nat /\ Passes \in Nat
        BY <1>1, <2>2
      <4>. QED
        BY <3>1, <4>1, <4>2, <4>3, <4>4
    <3>. QED
      BY <3>1, <3>2, <3>3, <3>4
  <2>4. heat[Sought] + 1 = asked[Sought] /\ heat[Sought] \in Nat
    BY <1>1, <2>1, <2>2 DEF HotInv, Tally
  <2>5. heat[Sought] < HeatMax
    BY <1>1, <2>3, <2>4
  <2>6. heat'[Sought] = heat[Sought] + 1
        /\ \A e \in Cached!Experts \ {Sought} : heat'[e] = heat[e]
    BY <2>1, <2>2, <2>5
  <2>7. \A e \in Cached!Experts : asked'[e] = heat'[e] + 0
    <3>1. \A e \in Cached!Experts \ {Sought} : asked[e] = heat[e] + 0
      BY <2>1 DEF HotInv, Tally
    <3>. QED
      BY <2>1, <2>2, <2>4, <2>6, <3>1
  <2>8. \A e \in Cached!Experts : Planned(e)' <=> Planned(e)
    BY <2>1 DEF Planned
  <2>. QED
    BY <2>1, <2>7, <2>8 DEF HotInv, Tally, ColdVictim
<1>4. CASE ~Cached!Touch(c)
  <2>1. /\ Doing # "touch" /\ Doing' # "touch"
        /\ UNCHANGED <<phase, next, plan, asked, heat>>
    BY <1>1, <1>2, <1>4
       DEF Cached!Hit, Cached!Miss, Cached!Evict, Cached!Grow,
           Cached!Load, Cached!Name, Cached!WarmNext, Cached!UseOne,
           Cached!Collect, Cached!Free, Cached!stats, Cached!pass, Doing
  <2>2. Tally'
    BY <2>1, TallyKept DEF HotInv
  <2>3. ColdVictim'
    <3>1. CASE Cached!Evict(c)
      <4>1. PICK v \in Cached!Victims(Cached!Tick(c)) : at' = [at EXCEPT ![c] = v]
        BY <3>1 DEF Cached!Evict
      <4>2. /\ Doing = "look" /\ n = Cached!Cap
            /\ UNCHANGED <<n, eid, holds, pinned, asked, heat, last>>
        BY <3>1 DEF Cached!Evict, Cached!store, Doing
      <4>3. \A s \in Cached!Slots : s \in 1 .. n /\ eid[s] \in Cached!Experts /\ holds[s] = eid[s]
        BY <1>1, <4>2 DEF HotInv, CacheInv, StoreTypes, Filled, Filling, Cached!Slots
      <4>. DEFINE k == Cached!Tick(c)
      <4>4. k \in Nat
        <5>1. tick[c] \in Nat
          BY <1>1 DEF HotInv, CacheInv, StoreTypes
        <5>. QED
          BY <1>1, <5>1 DEF Cached!Tick
      <4>5. /\ v \in 1 .. n
            /\ \A x \in 1 .. n : eid[x] \notin pinned =>
                  Cached!Score(k)[eid[v]] <= Cached!Score(k)[eid[x]]
        BY <4>1, <4>2, <4>4, VictimOf DEF HotInv, CacheInv
      <4>6. v \in Cached!Slots /\ Spot' = v
        BY <1>1, <4>1, <4>2, <4>5 DEF HotInv, CacheInv, StoreTypes, Cached!Slots, Spot
      <4>. HIDE DEF k
      <4>7. ASSUME NEW x \in Cached!Slots PROVE eid[x] \in pinned \/ asked[eid[v]] <= asked[eid[x]]
        <5>1. SUFFICES ASSUME eid[x] \notin pinned PROVE asked[eid[v]] <= asked[eid[x]]
          OBVIOUS
        <5>2. /\ eid[x] \in Cached!Experts /\ eid[v] \in Cached!Experts
              /\ Cached!Score(k)[eid[v]] <= Cached!Score(k)[eid[x]]
          BY <4>3, <4>5, <4>6, <5>1
        <5>3. heat[eid[v]] <= heat[eid[x]]
          BY <4>4, <5>2, ScoreOrder DEF HotInv, CacheInv
        <5>4. asked[eid[v]] = heat[eid[v]] + 0 /\ asked[eid[x]] = heat[eid[x]] + 0
          BY <4>2, <5>2 DEF HotInv, Tally
        <5>5. heat[eid[v]] \in Nat /\ heat[eid[x]] \in Nat
          BY <1>1, <5>2 DEF HotInv, CacheInv, StoreTypes
        <5>. QED
          BY <5>3, <5>4, <5>5
      <4>. QED
        BY <4>2, <4>3, <4>6, <4>7, SameSetup DEF ColdVictim
    <3>2. CASE Cached!Grow(c)
      <4>1. /\ Doing = "grow" /\ at' = [at EXCEPT ![c] = n + 1] /\ UNCHANGED <<eid, holds>>
        BY <1>1, <1>2, <3>2 DEF HotInv, CacheInv, Staged, Cached!Grow, Doing
      <4>2. n \in Nat /\ n < Cached!Cap
        BY <1>1, <4>1 DEF HotInv, CacheInv, StoreTypes, Staged
      <4>3. n + 1 \in Cached!Slots /\ n + 1 > n /\ Spot' = n + 1
        BY <1>1, <4>1, <4>2 DEF HotInv, CacheInv, StoreTypes, Cached!Slots, Spot
      <4>4. holds'[Spot'] = Cached!None
        BY <4>1, <4>3 DEF HotInv, CacheInv, Filled
      <4>. QED
        BY <4>4 DEF ColdVictim
    <3>3. CASE ~Cached!Evict(c) /\ ~Cached!Grow(c)
      <4>1. Doing' # "load"
        BY <1>1, <1>2, <1>4, <3>3
           DEF Cached!Hit, Cached!Miss, Cached!Load, Cached!Name,
               Cached!WarmNext, Cached!UseOne, Cached!Collect, Cached!Free,
               Doing
      <4>. QED
        BY <4>1 DEF ColdVictim
    <3>. QED
      BY <3>1, <3>2, <3>3
  <2>. QED
    BY <2>2, <2>3
<1>. QED
  BY <1>3, <1>4

LEMMA HotStill ==
    ASSUME UsualCaches, HotInv, UNCHANGED Cached!vars PROVE Tally' /\ ColdVictim'
<1>1. UNCHANGED <<setup, phase, next, task, want, at, n, eid, holds, heat, asked, pinned, plan>>
  BY DEF Cached!vars, Cached!thread, Cached!store, Cached!stats,
         Cached!pass
<1>2. UNCHANGED <<Doing, Sought, Spot>> /\ Cached!Slots' = Cached!Slots
  BY <1>1, SameSetup DEF Doing, Sought, Spot
<1>3. Tally'
  BY <1>1, <1>2, TallyKept DEF HotInv
<1>4. ColdVictim'
  BY <1>1, <1>2 DEF HotInv, ColdVictim
<1>. QED
  BY <1>3, <1>4

LEMMA HotAsks ==
    ASSUME UsualCaches, HotInv, UNCHANGED setup,
           Cached!Fetch \/ Cached!WarmUp(Cached!Caller)
    PROVE  Tally' /\ ColdVictim'
<1>1. E \in Nat \ {0} /\ plan \in Seq(Cached!Experts) /\ next \in Nat
  BY CacheFacts DEF HotInv, CacheInv, StoreTypes
<1>2. CASE Cached!Fetch
  <2>1. /\ phase = "serve" /\ plan # <<>> /\ plan' = Tail(plan) /\ UNCHANGED <<phase, next>>
        /\ Cached!Ask(Cached!Caller, Head(plan))
    BY <1>2 DEF Cached!Fetch
  <2>2. Head(plan) \in Cached!Experts
    BY <1>1, <2>1
  <2>. QED
    BY <2>1, <2>2, AskTally
<1>3. CASE Cached!WarmUp(Cached!Caller)
  <2>1. /\ phase = "warm" /\ next < E /\ next' = next + 1 /\ UNCHANGED <<phase, plan>>
        /\ Cached!Ask(Cached!Caller, next)
    BY <1>3 DEF Cached!WarmUp, Cached!pass
  <2>2. next \in Cached!Experts
    BY <1>1, <2>1 DEF Cached!Experts
  <2>. QED
    BY <2>1, <2>2, AskTally
<1>. QED
  BY <1>2, <1>3

LEMMA HotNext ==
    ASSUME UsualCaches, Passes < HeatMax, HotInv, [Cached!Next]_(Cached!vars)
    PROVE  HotInv'
<1>1. setup \in Setups
  BY DEF HotInv, CacheInv, StoreTypes
<1>2. CacheInv'
  BY CacheNext DEF HotInv
<1>3. Tally' /\ ColdVictim'
  <2>1. CASE UNCHANGED Cached!vars
    BY <2>1, HotStill
  <2>2. CASE Cached!Next
    BY <1>1, <2>1, <2>2, CacheMoves, HotAsks, PhaseTally, GetTally
  <2>. QED
    BY <2>1, <2>2
<1>. QED
  BY <1>2, <1>3 DEF HotInv

\* What KeepsHot says of a step.
LeavesHot ==
  \A s \in Cached!Slots :
     (holds[s] # Cached!None /\ holds'[s] # holds[s]) =>
        \A x \in Cached!Slots \ {s} :
           eid[x] \in pinned \/ asked[holds[s]] <= asked[eid[x]]

\* Weights are replaced by a load, at the slot expert_get has taken; a pin
\* takes a slot nobody has.
LEMMA HotLeaves ==
    ASSUME UsualCaches, HotInv, [Cached!Next]_(Cached!vars)
    PROVE  LeavesHot
<1>1. setup \in Setups /\ holds \in [Cached!Slots -> Cached!Experts \cup {Cached!None}]
  BY DEF HotInv, CacheInv, StoreTypes
<1>2. CASE holds' = holds
  BY <1>2 DEF LeavesHot
<1>3. CASE Cached!Load(Cached!Caller)
  <2>1. Doing = "load" /\ \A s \in Cached!Slots \ {Spot} : holds'[s] = holds[s]
    BY <1>1, <1>3 DEF Cached!Load, Doing, Spot
  <2>. QED
    BY <2>1 DEF HotInv, ColdVictim, LeavesHot
<1>4. CASE Cached!Pin
  <2>1. /\ Cached!Cap \in 1 .. E /\ E \in Nat /\ n \in Nat
        /\ next < Len(Cached!Pins) /\ n = next
    BY <1>1, <1>4, CacheFacts DEF HotInv, CacheInv, StoreTypes, InPin, Cached!Pin
  <2>2. n < Cached!Cap
    BY <1>1, <1>4, <2>1, PinsFit DEF HotInv, CacheInv
  <2>3. \A s \in Cached!Slots \ {n + 1} : holds'[s] = holds[s]
    BY <1>1, <1>4, <2>2 DEF Cached!Pin
  <2>4. n + 1 \in Cached!Slots /\ n + 1 > n
    BY <2>1, <2>2 DEF Cached!Slots
  <2>5. holds[n + 1] = Cached!None
    BY <2>4 DEF HotInv, CacheInv, Filled
  <2>. QED
    BY <2>3, <2>5 DEF LeavesHot
<1>5. CASE holds' # holds /\ ~Cached!Load(Cached!Caller) /\ ~Cached!Pin
  <2>1. holds' = holds
    BY <1>1, <1>5, CacheMoves
       DEF Cached!Pinned, Cached!Warmed, Cached!Route, Cached!UseAll,
           Cached!Fetch, Cached!WarmUp, Cached!Ask, Cached!UseOne,
           Cached!Collect, Cached!WarmNext, Cached!Free, Cached!Touch,
           Cached!Hit, Cached!Miss, Cached!Evict, Cached!Grow,
           Cached!Name, Cached!vars, Cached!store
  <2>. QED
    BY <1>5, <2>1
<1>. QED
  BY <1>2, <1>3, <1>4, <1>5

\* An expert that loses its slot was never asked for more often than an unpinned
\* one that stays (lfru_victim over heat and last, src/c/runtime/moecache.c):
\* for any number of experts, slots and pins and any routing, with one thread
\* and as long as the counters cannot saturate.
THEOREM CacheKeepsHot ==
    ASSUME OneThread, RoomyCaches, Passes < HeatMax PROVE Spec => KeepsHot
<1>1. UsualCaches
  BY LibraryAssumption
     DEF LibraryAssumption, UsualCaches, Cached!TierAssumption
<1>2. Init => HotInv
  BY <1>1, HotInit DEF Init
<1>3. HotInv /\ [Next]_vars => HotInv' /\ [LeavesHot]_(Cached!vars)
  BY <1>1, StoreSteps, HotNext, HotLeaves
<1>4. KeepsHot <=> [][LeavesHot]_(Cached!vars)
  BY Zenon DEF KeepsHot, Cached!KeepsHot, LeavesHot
<1>. QED
  BY <1>2, <1>3, <1>4, PTL DEF Spec

-----------------------------------------------------------------------------
(***************************************************************************)
(* The layers that are streamed.                                           *)
(***************************************************************************)
\* The running totals of a sequence exist: the shortest beginning without them
\* would be one longer than a beginning with them.
LEMMA SumsAre ==
    ASSUME NEW s \in Seq(Nat)
    PROVE  /\ Layered!Sums(s) \in [0..Len(s) -> Nat]
           /\ Layered!Sums(s)[0] = 0
           /\ \A j \in 1..Len(s) :
                Layered!Sums(s)[j] = Layered!Sums(s)[j - 1] + s[j]
<1>. DEFINE IsSums(g, m) == /\ g \in [0..m -> Nat] /\ g[0] = 0
                            /\ \A j \in 1..m : g[j] = g[j - 1] + s[j]
            Bad == {m \in 0..Len(s) : \A g : ~IsSums(g, m)}
<1>1. Len(s) \in Nat /\ \A j \in 1..Len(s) : s[j] \in Nat
  OBVIOUS
<1>2. Bad = {}
  <2>1. SUFFICES ASSUME Bad # {} PROVE FALSE
    OBVIOUS
  <2>2. Bad \in SUBSET Nat
    BY <1>1
  <2>3. PICK m \in Bad : \A k \in Bad : m <= k
    <3>. HIDE DEF Bad
    <3>. QED
      BY <2>1, <2>2, LeastOf
  <2>4. m \in 0..Len(s) /\ \A g : ~IsSums(g, m)
    BY <2>3
  <2>5. m # 0
    <3>1. IsSums([j \in 0..0 |-> 0], 0)
      OBVIOUS
    <3>. QED
      BY <2>4, <3>1
  <2>6. PICK g : IsSums(g, m - 1)
    <3>1. m - 1 \in 0..Len(s) /\ ~(m <= m - 1)
      BY <1>1, <2>4, <2>5
    <3>2. m - 1 \notin Bad
      BY <2>3, <3>1
    <3>. QED
      BY <3>1, <3>2
  <2>. DEFINE h == [j \in 0..m |-> IF j = m THEN g[m - 1] + s[m] ELSE g[j]]
  <2>7. m \in 1..Len(s) /\ m - 1 \in 0..m - 1
    BY <1>1, <2>4, <2>5
  <2>8. h \in [0..m -> Nat]
    BY <1>1, <2>6, <2>7
  <2>9. h[0] = 0 /\ \A j \in 1..m : h[j] = h[j - 1] + s[j]
    BY <1>1, <2>6, <2>7, SMTT(60)
  <2>. HIDE DEF h
  <2>. QED
    BY <2>4, <2>8, <2>9
<1>3. PICK g : IsSums(g, Len(s))
  <2>1. Len(s) \in 0..Len(s)
    BY <1>1
  <2>. QED
    BY <1>2, <2>1
<1>4. g = [j \in 0..Len(s) |-> IF j = 0 THEN 0 ELSE g[j - 1] + s[j]]
  BY <1>1, <1>3
<1>. DEFINE S == Layered!Sums(s)
<1>5. S = [j \in 0..Len(s) |-> IF j = 0 THEN 0 ELSE S[j - 1] + s[j]]
  BY <1>4, Zenon DEF Layered!Sums
<1>. HIDE DEF S
<1>. DEFINE Differ == {j \in 0..Len(s) : S[j] # g[j]}
<1>6. Differ = {}
  <2>1. SUFFICES ASSUME Differ # {} PROVE FALSE
    OBVIOUS
  <2>2. Differ \in SUBSET Nat
    BY <1>1
  <2>3. PICK j \in Differ : \A k \in Differ : j <= k
    <3>. HIDE DEF Differ
    <3>. QED
      BY <2>1, <2>2, LeastOf
  <2>4. j \in 0..Len(s) /\ S[j] # g[j]
    BY <2>3
  <2>5. j # 0
    BY <1>1, <1>3, <1>5, <2>4
  <2>6. j - 1 \in 0..Len(s) /\ ~(j <= j - 1) /\ j \in 1..Len(s)
    BY <1>1, <2>4, <2>5
  <2>7. S[j - 1] = g[j - 1]
    BY <2>3, <2>6
  <2>8. S[j] = S[j - 1] + s[j]
    BY <1>5, <2>4, <2>5, Zenon
  <2>9. g[j] = g[j - 1] + s[j]
    BY <1>3, <2>6
  <2>. QED
    BY <2>4, <2>7, <2>8, <2>9
<1>7. S = g
  <2>1. \A j \in 0..Len(s) : S[j] = g[j]
    BY <1>6
  <2>2. S = [j \in 0..Len(s) |-> S[j]] /\ g = [j \in 0..Len(s) |-> g[j]]
    BY <1>4, <1>5, Zenon
  <2>. QED
    BY <2>1, <2>2, Zenon
<1>. QED
  BY <1>3, <1>7 DEF S

\* The running totals only grow, by what is added.
LEMMA SumsGrow ==
    ASSUME NEW s \in Seq(Nat)
    PROVE  /\ Layered!Total(s) \in Nat
           /\ \A j \in 0..Len(s) : Layered!Sums(s)[j] <= Layered!Total(s)
           /\ \A j \in 1..Len(s) :
                 Layered!Sums(s)[j - 1] + s[j] <= Layered!Total(s)
           /\ \A i, j \in 0..Len(s) : i <= j =>
                 Layered!Sums(s)[i] <= Layered!Sums(s)[j]
<1>. DEFINE S == Layered!Sums(s)
<1>1. Len(s) \in Nat /\ \A j \in 1..Len(s) : s[j] \in Nat
  OBVIOUS
<1>2. S \in [0..Len(s) -> Nat] /\ \A j \in 1..Len(s) : S[j] = S[j - 1] + s[j]
  BY SumsAre
<1>. HIDE DEF S
<1>3. \A i, j \in 0..Len(s) : i <= j => S[i] <= S[j]
  <2>1. SUFFICES ASSUME NEW i \in 0..Len(s)
                 PROVE  {j \in 0..Len(s) : i <= j /\ ~(S[i] <= S[j])} = {}
    OBVIOUS
  <2>. DEFINE Less == {j \in 0..Len(s) : i <= j /\ ~(S[i] <= S[j])}
  <2>2. SUFFICES ASSUME Less # {} PROVE FALSE
    OBVIOUS
  <2>3. Less \in SUBSET Nat
    BY <1>1
  <2>4. PICK j \in Less : \A k \in Less : j <= k
    <3>. HIDE DEF Less
    <3>. QED
      BY <2>2, <2>3, LeastOf
  <2>5. j \in 0..Len(s) /\ i <= j /\ ~(S[i] <= S[j])
    BY <2>4
  <2>6. i # j
    BY <1>2, <2>5
  <2>7. j - 1 \in 0..Len(s) /\ i <= j - 1 /\ j \in 1..Len(s) /\ ~(j <= j - 1)
    BY <1>1, <2>5, <2>6
  <2>8. S[i] <= S[j - 1]
    BY <2>4, <2>7
  <2>9. S[i] \in Nat /\ S[j - 1] \in Nat /\ s[j] \in Nat /\ S[j] = S[j - 1] + s[j]
    BY <1>1, <1>2, <2>5, <2>7
  <2>. QED
    BY <2>5, <2>8, <2>9
<1>4. Layered!Total(s) = S[Len(s)]
  BY DEF Layered!Total, S
<1>5. \A j \in 0..Len(s) : S[j] <= S[Len(s)]
  BY <1>1, <1>3
<1>6. \A j \in 1..Len(s) : S[j - 1] + s[j] <= S[Len(s)]
  <2>1. \A j \in 1..Len(s) : j \in 0..Len(s)
    BY <1>1
  <2>. QED
    BY <1>2, <1>5, <2>1
<1>7. S[Len(s)] \in Nat
  BY <1>1, <1>2
<1>. QED
  BY <1>3, <1>4, <1>5, <1>6, <1>7 DEF S

\* The largest of a set of naturals that has a bound.
LEMMA LargestOf ==
    ASSUME NEW S \in SUBSET Nat, S # {}, NEW b \in Nat, \A x \in S : x <= b
    PROVE  Layered!Max(S) \in S /\ \A y \in S : y <= Layered!Max(S)
<1>. DEFINE Gaps == {k \in 0..b : b - k \in S}
<1>1. Gaps # {}
  <2>1. PICK x \in S : TRUE
    OBVIOUS
  <2>2. b - x \in 0..b /\ b - (b - x) = x
    BY <2>1
  <2>. QED
    BY <2>2
<1>2. PICK k \in Gaps : \A x \in Gaps : k <= x
  <2>1. Gaps \in SUBSET Nat
    OBVIOUS
  <2>. HIDE DEF Gaps
  <2>. QED
    BY <1>1, <2>1, LeastOf
<1>3. \A y \in S : y <= b - k
  <2>1. SUFFICES ASSUME NEW y \in S PROVE y <= b - k
    OBVIOUS
  <2>2. b - y \in 0..b /\ b - (b - y) = y
    OBVIOUS
  <2>3. k <= b - y
    BY <1>2, <2>2
  <2>. QED
    BY <1>2, <2>3
<1>4. b - k \in S
  BY <1>2
<1>5. \A x \in S : x \in Nat
  OBVIOUS
<1>6. \E x \in S : \A y \in S : x >= y
  BY <1>3, <1>4, <1>5
<1>. QED
  BY <1>5, <1>6 DEF Layered!Max

\* What the shapes say of the sizes of the layers.
LEMMA LayerSizes ==
    ASSUME Layered!StreamingAssumption, shape \in [Layered!Layers -> Shapes]
    PROVE  /\ NL \in Nat \ {0} /\ Fixed \in Nat
           /\ \A l \in Layered!Layers :
                 /\ shape[l] \in Seq(Nat \ {0}) /\ shape[l] \in Seq(Nat)
                 /\ Layered!Mats(l) = 1..Len(shape[l])
                 /\ Layered!Bytes(l) \in Nat
           /\ Layered!BytesBelow(0) = 0
           /\ \A R \in 0..NL : Layered!BytesBelow(R) \in Nat
           /\ \A l \in Layered!Layers :
                 Layered!Bytes(l) <= Layered!BytesBelow(NL)
<1>1. NL \in Nat \ {0} /\ Fixed \in Nat /\ Shapes \subseteq Seq(Nat \ {0})
  BY DEF Layered!StreamingAssumption
<1>2. \A l \in Layered!Layers : shape[l] \in Seq(Nat \ {0}) /\ shape[l] \in Seq(Nat)
  <2>1. SUFFICES ASSUME NEW l \in Layered!Layers
                 PROVE  shape[l] \in Seq(Nat \ {0}) /\ shape[l] \in Seq(Nat)
    OBVIOUS
  <2>2. shape[l] \in Seq(Nat \ {0})
    BY <1>1
  <2>3. \A q \in Seq(Nat \ {0}) : q \in Seq(Nat)
    OBVIOUS
  <2>. QED
    BY <2>2, <2>3
<1>3. \A l \in Layered!Layers : Layered!Bytes(l) \in Nat
  BY <1>2, SumsGrow DEF Layered!Bytes
<1>. DEFINE t(R) == [q \in 1..R |-> Layered!Bytes(q - 1)]
<1>4. \A R \in 0..NL : t(R) \in Seq(Nat) /\ Len(t(R)) = R
  <2>1. SUFFICES ASSUME NEW R \in 0..NL PROVE t(R) \in Seq(Nat) /\ Len(t(R)) = R
    OBVIOUS
  <2>2. \A q \in 1..R : q - 1 \in Layered!Layers
    BY <1>1 DEF Layered!Layers
  <2>3. \A q \in 1..R : Layered!Bytes(q - 1) \in Nat
    BY <1>3, <2>2
  <2>. QED
    BY <1>1, <2>3
<1>5. \A R \in 0..NL : Layered!BytesBelow(R) = Layered!Total(t(R))
  BY DEF Layered!BytesBelow
<1>6. \A R \in 0..NL : Layered!BytesBelow(R) \in Nat
  <2>. HIDE DEF t
  <2>. QED
    BY <1>4, <1>5, SumsGrow
<1>7. Layered!BytesBelow(0) = 0
  <2>1. 0 \in 0..NL
    BY <1>1
  <2>. HIDE DEF t
  <2>2. Layered!Sums(t(0))[0] = 0
    BY <1>4, <2>1, SumsAre
  <2>. QED
    BY <1>4, <1>5, <2>1, <2>2 DEF Layered!Total
<1>8. \A l \in Layered!Layers : Layered!Bytes(l) <= Layered!BytesBelow(NL)
  <2>1. SUFFICES ASSUME NEW l \in Layered!Layers
                 PROVE  Layered!Bytes(l) <= Layered!BytesBelow(NL)
    OBVIOUS
  <2>2. l + 1 \in 1..NL /\ l = (l + 1) - 1 /\ NL \in 0..NL
    BY <1>1 DEF Layered!Layers
  <2>3. t(NL)[l + 1] = Layered!Bytes(l)
    BY <2>2
  <2>. HIDE DEF t
  <2>4. t(NL) \in Seq(Nat) /\ Len(t(NL)) = NL
    BY <1>4, <2>2
  <2>5. /\ Layered!Sums(t(NL))[l] \in Nat
        /\ Layered!Sums(t(NL))[l] + Layered!Bytes(l) <= Layered!Total(t(NL))
    <3>1. Layered!Sums(t(NL))[(l + 1) - 1] + t(NL)[l + 1] <= Layered!Total(t(NL))
      BY <2>2, <2>4, SumsGrow
    <3>2. Layered!Sums(t(NL)) \in [0..NL -> Nat]
      BY <2>4, SumsAre
    <3>. QED
      BY <1>1, <2>2, <2>3, <3>1, <3>2 DEF Layered!Layers
  <2>6. Layered!Total(t(NL)) \in Nat /\ Layered!Bytes(l) \in Nat
    BY <1>3, <2>4, SumsGrow
  <2>. QED
    BY <1>5, <2>2, <2>5, <2>6
<1>9. \A l \in Layered!Layers : Layered!Mats(l) = 1..Len(shape[l])
  BY <1>2 DEF Layered!Mats
<1>. QED
  BY <1>1, <1>2, <1>3, <1>6, <1>7, <1>8, <1>9

LEMMA LargestFits ==
    ASSUME Layered!StreamingAssumption, shape \in [Layered!Layers -> Shapes],
           NEW S \in SUBSET Layered!Layers
    PROVE  /\ Layered!Largest(S) \in Nat
           /\ \A l \in S : Layered!Bytes(l) <= Layered!Largest(S)
           /\ Layered!Largest(S) <= Layered!Largest(Layered!Layers)
<1>. DEFINE Of(L) == {Layered!Bytes(l) : l \in L} \cup {0}
            b == Layered!BytesBelow(NL)
<1>1. NL \in Nat \ {0} /\ b \in Nat
      /\ \A l \in Layered!Layers : Layered!Bytes(l) \in Nat /\ Layered!Bytes(l) <= b
  BY LayerSizes
<1>. HIDE DEF b
<1>2. \A L \in SUBSET Layered!Layers :
         Of(L) \in SUBSET Nat /\ Of(L) # {} /\ \A x \in Of(L) : x <= b
  BY <1>1
<1>3. \A L \in SUBSET Layered!Layers :
         /\ Layered!Max(Of(L)) \in Of(L)
         /\ \A y \in Of(L) : y <= Layered!Max(Of(L))
  <2>. HIDE DEF Of
  <2>. QED
    BY <1>1, <1>2, LargestOf
<1>4. \A L : Layered!Largest(L) = Layered!Max(Of(L))
  BY DEF Layered!Largest
<1>5. Of(S) \subseteq Of(Layered!Layers)
  OBVIOUS
<1>6. \A l \in S : Layered!Bytes(l) \in Of(S)
  OBVIOUS
<1>. HIDE DEF Of
<1>. QED
  BY <1>2, <1>3, <1>4, <1>5, <1>6

\* What budget_resident decides: the layers kept fit beside the largest scratch.
LEMMA ResidentFits ==
    ASSUME Layered!StreamingAssumption, shape \in [Layered!Layers -> Shapes],
           budget \in Budgets
    PROVE  /\ budget \in Nat /\ Layered!Resident \in 0..NL
           /\ budget = 0 => Layered!Resident = NL
           /\ budget # 0 => \/ Layered!Resident = 0
                            \/ Layered!FitsResident(Layered!Resident)
<1>. DEFINE Kept == {0} \cup {R \in 1..NL : \A q \in 1..R : Layered!FitsResident(q)}
<1>1. NL \in Nat \ {0} /\ budget \in Nat
  BY DEF Layered!StreamingAssumption
<1>2. Kept \in SUBSET Nat /\ Kept # {} /\ \A x \in Kept : x <= NL
  BY <1>1
<1>3. Layered!Max(Kept) \in Kept
  <2>. HIDE DEF Kept
  <2>. QED
    BY <1>1, <1>2, LargestOf
<1>4. Layered!Resident = IF budget = 0 THEN NL ELSE Layered!Max(Kept)
  BY DEF Layered!Resident
<1>5. \A R \in Kept : R \in 0..NL /\ (R = 0 \/ Layered!FitsResident(R))
  BY <1>1
<1>. HIDE DEF Kept
<1>. QED
  BY <1>1, <1>3, <1>4, <1>5

\* Where a matrix of a layer begins in the scratch.
Offset(l, j) == Layered!Sums(shape[l])[j]

Written == UNION {{l} \X Layered!Mats(l) : l \in Layered!Layers}
LayerTypes ==
  /\ shape \in [Layered!Layers -> Shapes] /\ budget \in Budgets
  /\ resident = Layered!Resident
  /\ DOMAIN scratch = 0..Layered!ScratchSize - 1
  /\ \A c \in DOMAIN scratch : scratch[c] = Layered!Unread \/ scratch[c] \in Written
  /\ DOMAIN f = Layered!Layers
  /\ \A l \in Layered!Layers : f[l] \in [Layered!Mats(l) -> Int]
  /\ forward \in [kind : {"idle", "step", "verify"}, layer : Layered!Layers,
                  read : Nat, off : Nat]

\* A forward reads a layer's matrices one after the other from the start of the
\* scratch; what it has read of this layer is there, and no draft is verified
\* while a layer is streamed.
Reading ==
  /\ forward.kind = "idle" => forward = Layered!Idle
  /\ forward.kind = "verify" => budget = 0
  /\ forward.read <= Len(shape[forward.layer])
  /\ forward.off = Offset(forward.layer, forward.read)
  /\ \A l \in Layered!Layers : \A j \in Layered!Mats(l) :
        f[l][j] # Layered!NotRead => Layered!Streamed(l) /\ f[l][j] = Offset(l, j - 1)
  /\ \A j \in 1..forward.read :
        /\ f[forward.layer][j] = Offset(forward.layer, j - 1)
        /\ \A c \in DOMAIN scratch :
              c \in Offset(forward.layer, j - 1)..Offset(forward.layer, j) - 1 =>
                 scratch[c] = <<forward.layer, j>>

LayerInv == LayerTypes /\ Reading

\* The assumption about drafts: the engine that verifies them streams no layer.
NoStreamedDraft == Verified \subseteq {0}

\* A streamed layer has room in the scratch.
LEMMA RoomFor ==
    ASSUME Layered!StreamingAssumption, LayerTypes
    PROVE  /\ Layered!ScratchSize \in Nat /\ Layered!Room = Layered!ScratchSize
           /\ Layered!ScratchSize <= Layered!Largest(Layered!Layers)
           /\ \A l \in Layered!Layers : \A j \in Layered!Mats(l) :
                 /\ j \in Nat \ {0} /\ shape[l][j] \in Nat \ {0}
                 /\ Offset(l, j - 1) \in Nat /\ Offset(l, j) = Offset(l, j - 1) + shape[l][j]
                 /\ Layered!Streamed(l) => Offset(l, j) <= Layered!ScratchSize
<1>. DEFINE R == {l \in Layered!Layers : Layered!Streamed(l)}
<1>1. Layered!ScratchSize = Layered!Largest(R)
  BY DEF Layered!ScratchSize
<1>2. R \in SUBSET Layered!Layers
  OBVIOUS
<1>3. \A l \in Layered!Layers : Layered!Streamed(l) => l \in R
  OBVIOUS
<1>. HIDE DEF R
<1>4. /\ Layered!ScratchSize \in Nat
      /\ \A l \in R : Layered!Bytes(l) <= Layered!ScratchSize
      /\ Layered!ScratchSize <= Layered!Largest(Layered!Layers)
  BY <1>1, <1>2, LargestFits DEF LayerTypes
<1>5. Layered!Room = Layered!ScratchSize
  <2>1. Layered!Room = Cardinality(0..Layered!ScratchSize - 1)
    BY DEF LayerTypes, Layered!Room, Layered!Cardinality, Cardinality
  <2>2. Cardinality(0..Layered!ScratchSize - 1)
          = IF 0 > Layered!ScratchSize - 1 THEN 0
            ELSE (Layered!ScratchSize - 1) - 0 + 1
    BY <1>4, FS_Interval
  <2>. QED
    BY <1>4, <2>1, <2>2
<1>6. ASSUME NEW l \in Layered!Layers, NEW j \in Layered!Mats(l)
      PROVE  /\ j \in Nat \ {0} /\ shape[l][j] \in Nat \ {0}
             /\ Offset(l, j - 1) \in Nat /\ Offset(l, j) = Offset(l, j - 1) + shape[l][j]
             /\ Layered!Streamed(l) => Offset(l, j) <= Layered!ScratchSize
  <2>1. shape[l] \in Seq(Nat \ {0}) /\ shape[l] \in Seq(Nat) /\ j \in 1..Len(shape[l])
        /\ Layered!Bytes(l) \in Nat
    BY <1>6, LayerSizes DEF LayerTypes
  <2>2. j \in Nat \ {0} /\ shape[l][j] \in Nat \ {0} /\ j - 1 \in 0..Len(shape[l])
        /\ j \in 0..Len(shape[l])
    BY <2>1
  <2>3. /\ Offset(l, j - 1) \in Nat /\ Offset(l, j) \in Nat
        /\ Offset(l, j) = Offset(l, j - 1) + shape[l][j]
    BY <2>1, <2>2, SumsAre DEF Offset
  <2>4. Offset(l, j) <= Layered!Bytes(l)
    BY <2>1, <2>2, SumsGrow DEF Offset, Layered!Bytes
  <2>5. Layered!Streamed(l) => Offset(l, j) <= Layered!ScratchSize
    BY <1>3, <1>4, <2>1, <2>3, <2>4
  <2>. QED
    BY <2>2, <2>3, <2>5
<1>. QED
  BY <1>4, <1>5, <1>6

LEMMA LayersInit ==
    ASSUME Layered!StreamingAssumption, Layered!Init PROVE LayerInv
<1>. USE DEF Layered!Init
<1>1. NL \in Nat \ {0} /\ 0 \in Layered!Layers
  BY DEF Layered!StreamingAssumption, Layered!Layers
<1>2. shape[0] \in Seq(Nat)
  BY <1>1, LayerSizes
<1>3. Offset(0, 0) = 0
  BY <1>2, SumsAre DEF Offset
<1>4. LayerTypes
  BY <1>1 DEF LayerTypes, Layered!Idle, Layered!NotRead
<1>5. Reading
  <2>1. /\ forward = Layered!Idle /\ forward.kind = "idle" /\ forward.read = 0
        /\ forward.layer = 0 /\ forward.off = 0
    BY DEF Layered!Idle
  <2>2. Len(shape[0]) \in Nat /\ 1..0 = {}
    BY <1>2
  <2>. QED
    BY <1>3, <2>1, <2>2 DEF Reading
<1>. QED
  BY <1>4, <1>5 DEF LayerInv

LEMMA LayersNext ==
    ASSUME Layered!StreamingAssumption, NoStreamedDraft, LayerInv,
           [Layered!Next]_(Layered!vars)
    PROVE  LayerInv'
<1>1. /\ shape \in [Layered!Layers -> Shapes] /\ NL \in Nat \ {0}
      /\ 0 \in Layered!Layers
      /\ \A l \in Layered!Layers :
            /\ shape[l] \in Seq(Nat) /\ Len(shape[l]) \in Nat
            /\ Layered!Mats(l) = 1..Len(shape[l])
      /\ \A l \in Layered!Layers : Offset(l, 0) = 0
  BY LayerSizes, SumsAre DEF LayerInv, LayerTypes, Offset, Layered!Layers
<1>2. UNCHANGED <<shape, budget, resident>>
  BY DEF Layered!Next, Layered!vars, Layered!Step, Layered!StepArgmaxAll,
         Layered!Begin, Layered!LayerStreamIn, Layered!Compute
<1>3. /\ Layered!Resident' = Layered!Resident
      /\ Layered!ScratchSize' = Layered!ScratchSize
      /\ \A l : Layered!Mats(l)' = Layered!Mats(l)
      /\ \A l : Layered!Streamed(l)' <=> Layered!Streamed(l)
      /\ \A l, j : Offset(l, j)' = Offset(l, j)
      /\ Written' = Written
  <2>1. /\ \A l : Layered!Mats(l)' = Layered!Mats(l)
        /\ \A l : Layered!Streamed(l)' <=> Layered!Streamed(l)
        /\ \A l, j : Offset(l, j)' = Offset(l, j)
        /\ \A l : Layered!Bytes(l)' = Layered!Bytes(l)
    BY <1>2 DEF Layered!Mats, Layered!Streamed, Offset, Layered!Bytes
  <2>2. \A S : Layered!Largest(S)' = Layered!Largest(S)
    BY <1>2 DEF Layered!Largest, Layered!Bytes
  <2>3. \A R : Layered!BytesBelow(R)' = Layered!BytesBelow(R)
    BY <1>2 DEF Layered!BytesBelow, Layered!Bytes
  <2>4. Layered!Resident' = Layered!Resident
    BY <1>2 DEF Layered!Resident, Layered!FitsResident, Layered!Largest,
                Layered!BytesBelow, Layered!Bytes
  <2>5. Layered!ScratchSize' = Layered!ScratchSize
    BY <1>2 DEF Layered!ScratchSize, Layered!Largest, Layered!Bytes,
                Layered!Streamed
  <2>6. Written' = Written
    BY <2>1 DEF Written
  <2>. QED
    BY <2>1, <2>4, <2>5, <2>6
<1>4. CASE UNCHANGED Layered!vars
  <2>1. UNCHANGED <<scratch, f, forward>>
    BY <1>4 DEF Layered!vars
  <2>2. LayerTypes'
    BY <1>2, <1>3, <2>1 DEF LayerInv, LayerTypes
  <2>3. Reading'
    BY <1>2, <1>3, <2>1 DEF LayerInv, Reading
  <2>. QED
    BY <2>2, <2>3 DEF LayerInv
<1>5. ASSUME Layered!Step \/ Layered!StepArgmaxAll PROVE LayerInv'
  <2>1. PICK k \in {"step", "verify"} : Layered!Begin(k) /\ (k = "verify" => budget \in Verified)
    BY <1>5 DEF Layered!Step, Layered!StepArgmaxAll
  <2>2. /\ forward' = [Layered!Idle EXCEPT !.kind = k] /\ UNCHANGED <<scratch, f>>
        /\ k = "verify" => budget = 0
    BY <2>1 DEF Layered!Begin, NoStreamedDraft
  <2>3. /\ forward' = [kind |-> k, layer |-> 0, read |-> 0, off |-> 0]
        /\ forward'.kind = k /\ forward'.layer = 0 /\ forward'.read = 0 /\ forward'.off = 0
    BY <2>2 DEF Layered!Idle
  <2>4. LayerTypes'
    <3>1. (forward \in [kind : {"idle", "step", "verify"}, layer : Layered!Layers,
                        read : Nat, off : Nat])'
      BY <1>1, <2>3
    <3>. QED
      BY <1>2, <1>3, <2>2, <3>1 DEF LayerInv, LayerTypes
  <2>5. Reading'
    BY <1>1, <1>2, <1>3, <2>1, <2>2, <2>3 DEF LayerInv, Reading
  <2>. QED
    BY <2>4, <2>5 DEF LayerInv
<1>6. ASSUME Layered!Compute PROVE LayerInv'
  <2>1. forward \in [kind : {"idle", "step", "verify"}, layer : Layered!Layers,
                     read : Nat, off : Nat]
    BY DEF LayerInv, LayerTypes
  <2>2. UNCHANGED <<scratch, f>> /\ forward.kind # "idle"
    BY <1>6 DEF Layered!Compute
  <2>3. CASE forward' = Layered!Idle
    <3>1. /\ forward'.kind = "idle" /\ forward'.layer = 0 /\ forward'.read = 0 /\ forward'.off = 0
          /\ forward' = [kind |-> "idle", layer |-> 0, read |-> 0, off |-> 0]
      BY <2>3 DEF Layered!Idle
    <3>2. LayerTypes'
      BY <1>1, <1>2, <1>3, <2>2, <3>1 DEF LayerInv, LayerTypes
    <3>3. Reading'
      BY <1>1, <1>2, <1>3, <2>2, <2>3, <3>1 DEF LayerInv, Reading, Layered!Idle
    <3>. QED
      BY <3>2, <3>3 DEF LayerInv
  <2>4. CASE /\ forward.layer # NL - 1
             /\ forward' = [Layered!Idle EXCEPT !.kind = forward.kind,
                                                     !.layer = forward.layer + 1]
    <3>1. /\ forward' = [kind |-> forward.kind, layer |-> forward.layer + 1, read |-> 0, off |-> 0]
          /\ forward'.kind = forward.kind /\ forward'.layer = forward.layer + 1
          /\ forward'.read = 0 /\ forward'.off = 0
      BY <2>4 DEF Layered!Idle
    <3>2. forward.layer + 1 \in Layered!Layers
      BY <1>1, <2>1, <2>4 DEF Layered!Layers
    <3>3. LayerTypes'
      BY <1>1, <1>2, <1>3, <2>1, <2>2, <3>1, <3>2 DEF LayerInv, LayerTypes
    <3>4. Reading'
      BY <1>1, <1>2, <1>3, <2>2, <3>1, <3>2 DEF LayerInv, Reading
    <3>. QED
      BY <3>3, <3>4 DEF LayerInv
  <2>. QED
    BY <1>6, <2>3, <2>4 DEF Layered!Compute, Layered!LastLayer
<1>7. ASSUME Layered!LayerStreamIn PROVE LayerInv'
  <2>. DEFINE l == forward.layer
              j == forward.read + 1
              o == forward.off
  <2>1. /\ l \in Layered!Layers /\ forward.read \in Nat /\ o \in Nat
        /\ forward.kind \in {"idle", "step", "verify"}
        /\ forward \in [kind : {"idle", "step", "verify"}, layer : Layered!Layers,
                        read : Nat, off : Nat]
    BY DEF LayerInv, LayerTypes
  <2>2. /\ forward.kind = "step" /\ Layered!Streamed(l) /\ forward.read < Len(shape[l])
    BY <1>7 DEF Layered!LayerStreamIn, Layered!ToRead, Layered!Streams
  <2>3. /\ scratch' = [c \in DOMAIN scratch |->
                         IF c \in o..o + shape[l][j] - 1 THEN <<l, j>> ELSE scratch[c]]
        /\ f' = [f EXCEPT ![l][j] = o]
        /\ forward' = [forward EXCEPT !.read = j, !.off = o + shape[l][j]]
    BY <1>7 DEF Layered!LayerStreamIn, Layered!Advanced
  <2>4. j \in Layered!Mats(l) /\ j \in Nat /\ j - 1 = forward.read
    BY <1>1, <2>1, <2>2
  <2>5. /\ o = Offset(l, j - 1) /\ shape[l][j] \in Nat \ {0}
        /\ Offset(l, j) = o + shape[l][j]
    BY <2>1, <2>4, RoomFor DEF LayerInv, Reading
  <2>6. /\ forward'.kind = "step" /\ forward'.layer = l /\ forward'.read = j
        /\ forward'.off = Offset(l, j)
        /\ forward' \in [kind : {"idle", "step", "verify"}, layer : Layered!Layers,
                         read : Nat, off : Nat]
    <3>1. o + shape[l][j] = Offset(l, j) /\ o + shape[l][j] \in Nat
      BY <2>1, <2>5
    <3>2. forward' = [kind |-> "step", layer |-> l, read |-> j, off |-> o + shape[l][j]]
      BY <2>1, <2>2, <2>3
    <3>. HIDE DEF l, j, o
    <3>. QED
      BY <2>1, <2>4, <3>1, <3>2
  <2>7. /\ DOMAIN f' = Layered!Layers
        /\ f'[l] = [f[l] EXCEPT ![j] = o]
        /\ \A x \in Layered!Layers \ {l} : f'[x] = f[x]
    BY <2>1, <2>3 DEF LayerInv, LayerTypes
  <2>8. \A x \in Layered!Layers : f'[x] \in [Layered!Mats(x) -> Int]
    BY <2>1, <2>4, <2>7 DEF LayerInv, LayerTypes
  <2>9. /\ f'[l][j] = o
        /\ \A x \in Layered!Layers : \A i \in Layered!Mats(x) :
              x # l \/ i # j => f'[x][i] = f[x][i]
    BY <2>1, <2>4, <2>7 DEF LayerInv, LayerTypes
  <2>10. /\ DOMAIN scratch' = DOMAIN scratch
         /\ \A c \in DOMAIN scratch : c \in o..o + shape[l][j] - 1 => scratch'[c] = <<l, j>>
         /\ \A c \in DOMAIN scratch : c \notin o..o + shape[l][j] - 1 => scratch'[c] = scratch[c]
    BY <2>3
  <2>. HIDE DEF l, j, o
  <2>11. LayerTypes'
    <3>1. \A c \in DOMAIN scratch' :
             scratch'[c] = Layered!Unread \/ scratch'[c] \in Written
      <4>1. <<l, j>> \in Written
        BY <2>1, <2>4 DEF Written
      <4>. QED
        BY <2>10, <4>1 DEF LayerInv, LayerTypes
    <3>2. DOMAIN scratch' = 0..Layered!ScratchSize - 1
      BY <2>10 DEF LayerInv, LayerTypes
    <3>3. /\ shape' \in [Layered!Layers -> Shapes] /\ budget' \in Budgets
          /\ resident' = Layered!Resident
      BY <1>2 DEF LayerInv, LayerTypes
    <3>. QED
      BY <1>3, <2>6, <2>7, <2>8, <3>1, <3>2, <3>3 DEF LayerTypes
  <2>12. Reading'
    <3>1. forward'.kind # "idle" /\ forward'.kind # "verify"
      BY <2>6
    <3>2. forward'.read <= Len(shape'[forward'.layer])
      BY <1>1, <1>2, <2>1, <2>4, <2>6
    <3>3. (forward.off = Offset(forward.layer, forward.read))'
      BY <1>3, <2>6
    <3>4. \A x \in Layered!Layers : \A i \in Layered!Mats(x) :
             f'[x][i] # Layered!NotRead =>
                Layered!Streamed(x) /\ f'[x][i] = Offset(x, i - 1)
      BY <2>2, <2>5, <2>9 DEF LayerInv, Reading, l
    <3>5. ASSUME NEW i \in 1..forward'.read
          PROVE  /\ f'[l][i] = Offset(l, i - 1)
                 /\ \A c \in DOMAIN scratch :
                       c \in Offset(l, i - 1)..Offset(l, i) - 1 => scratch'[c] = <<l, i>>
      <4>1. CASE i = j
        <5>1. f'[l][j] = Offset(l, j - 1)
          BY <2>5, <2>9
        <5>2. Offset(l, j - 1)..Offset(l, j) - 1 = o..o + shape[l][j] - 1
          BY <2>1, <2>5
        <5>. QED
          BY <2>10, <4>1, <5>1, <5>2
      <4>2. CASE i # j
        <5>1. i \in 1..forward.read /\ i \in Layered!Mats(l) /\ i <= j - 1
          BY <1>1, <2>1, <2>2, <2>4, <2>6, <4>2 DEF j, l
        <5>2. /\ f[l][i] = Offset(l, i - 1)
              /\ \A c \in DOMAIN scratch :
                    c \in Offset(l, i - 1)..Offset(l, i) - 1 => scratch[c] = <<l, i>>
          BY <5>1 DEF LayerInv, Reading, l
        <5>3. Offset(l, i) <= o
          <6>1. shape[l] \in Seq(Nat) /\ i \in 0..Len(shape[l]) /\ j - 1 \in 0..Len(shape[l])
            BY <1>1, <2>1, <2>4, <5>1
          <6>. QED
            BY <2>5, <5>1, <6>1, SumsGrow DEF Offset
        <5>4. Offset(l, i) \in Nat /\ Offset(l, i - 1) \in Nat
          BY <2>1, <5>1, RoomFor DEF LayerInv
        <5>5. \A c \in DOMAIN scratch : c \in Offset(l, i - 1)..Offset(l, i) - 1 =>
                 c \notin o..o + shape[l][j] - 1
          BY <2>1, <5>3, <5>4
        <5>. QED
          BY <2>1, <2>9, <2>10, <4>2, <5>1, <5>2, <5>5
      <4>. QED
        BY <4>1, <4>2
    <3>. QED
      BY <1>2, <1>3, <2>6, <2>10, <3>1, <3>2, <3>3, <3>4, <3>5 DEF Reading
  <2>. QED
    BY <2>11, <2>12 DEF LayerInv
<1>. QED
  BY <1>4, <1>5, <1>6, <1>7 DEF Layered!Next

LEMMA LayersConsequences ==
    ASSUME Layered!StreamingAssumption, NoStreamedDraft, LayerInv
    PROVE  /\ Layered!TypeOK /\ Layered!UsesOwn
           /\ Layered!InScratch /\ Layered!WithinMemory
<1>. DEFINE Room == Layered!ScratchSize
<1>1. /\ shape \in [Layered!Layers -> Shapes] /\ budget \in Budgets
      /\ NL \in Nat \ {0} /\ resident = Layered!Resident /\ resident \in 0..NL
      /\ \A l \in Layered!Layers : l \in 0..NL - 1
      /\ DOMAIN scratch = 0..Room - 1
  BY LayerSizes, ResidentFits DEF LayerInv, LayerTypes, Layered!Layers
<1>2. /\ Room \in Nat /\ Layered!Room = Room
      /\ \A l \in Layered!Layers : \A j \in Layered!Mats(l) :
            /\ j \in Nat \ {0} /\ shape[l][j] \in Nat \ {0}
            /\ Offset(l, j - 1) \in Nat /\ Offset(l, j) = Offset(l, j - 1) + shape[l][j]
            /\ Layered!Streamed(l) => Offset(l, j) <= Room
  BY RoomFor DEF LayerInv
<1>. HIDE DEF Room
<1>3. \A l \in Layered!Layers : \A j \in Layered!Mats(l) :
         f[l][j] # Layered!NotRead =>
            /\ Layered!Streamed(l) /\ f[l][j] = Offset(l, j - 1)
            /\ Layered!Cells(l, j) = Offset(l, j - 1)..Offset(l, j) - 1
  BY <1>2 DEF LayerInv, Reading, Layered!Cells
<1>4. Layered!TypeOK
  <2>1. \A l \in Layered!Layers : \A j \in Layered!Mats(l) : f[l][j] \in -1..Room
    <3>1. SUFFICES ASSUME NEW l \in Layered!Layers, NEW j \in Layered!Mats(l)
                   PROVE  f[l][j] \in -1..Room
      OBVIOUS
    <3>2. CASE f[l][j] = Layered!NotRead
      BY <1>2, <3>2 DEF Layered!NotRead
    <3>3. CASE f[l][j] # Layered!NotRead
      <4>1. /\ f[l][j] = Offset(l, j - 1) /\ Offset(l, j) <= Room
            /\ Offset(l, j - 1) \in Nat /\ Offset(l, j) = Offset(l, j - 1) + shape[l][j]
            /\ shape[l][j] \in Nat
        BY <1>2, <1>3, <3>3
      <4>. QED
        BY <1>2, <4>1
    <3>. QED
      BY <3>2, <3>3
  <2>2. \A l \in Layered!Layers : f[l] \in [Layered!Mats(l) -> -1..Room]
    BY <2>1 DEF LayerInv, LayerTypes
  <2>. QED
    BY <1>1, <1>2, <2>2 DEF LayerInv, LayerTypes, Written, Layered!TypeOK
<1>5. Layered!InScratch
  <2>1. SUFFICES ASSUME NEW l \in Layered!Layers, NEW j \in Layered!Mats(l),
                        f[l][j] # Layered!NotRead
                 PROVE  Layered!Cells(l, j) \subseteq DOMAIN scratch
    BY DEF Layered!InScratch
  <2>2. /\ Layered!Cells(l, j) = Offset(l, j - 1)..Offset(l, j) - 1
        /\ Offset(l, j - 1) \in Nat /\ Offset(l, j) <= Room
        /\ Offset(l, j) = Offset(l, j - 1) + shape[l][j] /\ shape[l][j] \in Nat
    BY <1>2, <1>3, <2>1
  <2>3. Offset(l, j) \in Nat
    BY <2>2
  <2>. QED
    BY <1>1, <1>2, <2>2, <2>3
<1>6. Layered!UsesOwn
  <2>. DEFINE l == forward.layer
  <2>1. SUFFICES ASSUME forward.kind # "idle", ~Layered!ToRead, Layered!Streamed(l),
                        NEW j \in Layered!Mats(l)
                 PROVE  /\ f[l][j] # Layered!NotRead
                        /\ \A c \in Layered!Cells(l, j) :
                              c \in DOMAIN scratch /\ scratch[c] = <<l, j>>
    BY DEF Layered!UsesOwn
  <2>2. /\ l \in Layered!Layers /\ forward.read \in Nat
        /\ forward.kind \in {"idle", "step", "verify"}
    BY DEF LayerInv, LayerTypes
  <2>3. forward.kind = "step"
    <3>1. forward.kind = "verify" => budget = 0
      BY DEF LayerInv, Reading
    <3>2. budget = 0 => resident = NL
      BY <1>1, ResidentFits
    <3>3. resident # NL
      BY <1>1, <2>1, <2>2 DEF Layered!Streamed
    <3>. QED
      BY <2>1, <2>2, <3>1, <3>2, <3>3
  <2>4. j \in 1..forward.read
    <3>1. ~(forward.read < Len(shape[l]))
      BY <2>1, <2>3 DEF Layered!ToRead, Layered!Streams
    <3>2. Layered!Mats(l) = 1..Len(shape[l]) /\ shape[l] \in Seq(Nat)
      BY <1>1, <2>2, LayerSizes
    <3>3. Len(shape[l]) \in Nat
      BY <3>2
    <3>. QED
      BY <2>1, <2>2, <3>1, <3>2, <3>3
  <2>5. /\ f[l][j] = Offset(l, j - 1)
        /\ \A c \in DOMAIN scratch :
              c \in Offset(l, j - 1)..Offset(l, j) - 1 => scratch[c] = <<l, j>>
    BY <2>4 DEF LayerInv, Reading
  <2>6. f[l][j] # Layered!NotRead
    BY <1>2, <2>1, <2>2, <2>5 DEF Layered!NotRead
  <2>7. Layered!Cells(l, j) = Offset(l, j - 1)..Offset(l, j) - 1
    BY <1>3, <2>1, <2>2, <2>6
  <2>8. Layered!Cells(l, j) \subseteq DOMAIN scratch
    BY <1>5, <2>1, <2>2, <2>6 DEF Layered!InScratch
  <2>. QED
    BY <2>5, <2>6, <2>7, <2>8
<1>7. Layered!WithinMemory
  <2>. DEFINE Widest == Layered!Largest(Layered!Layers)
              Below  == Layered!BytesBelow(resident)
  <2>1. SUFFICES ASSUME budget > 0, Fixed + Widest <= budget
                 PROVE  Fixed + Below + Room <= budget
    BY <1>2 DEF Layered!WithinMemory
  <2>2. budget \in Nat /\ Fixed \in Nat /\ Below \in Nat /\ Widest \in Nat /\ Room <= Widest
    BY <1>1, LayerSizes, LargestFits, ResidentFits, RoomFor DEF LayerInv, Room
  <2>3. CASE resident = 0
    <3>1. Below = 0
      BY <2>3, <1>1, LayerSizes
    <3>. HIDE DEF Below, Widest
    <3>. QED
      BY <1>2, <2>1, <2>2, <3>1
  <2>4. CASE resident # 0
    <3>1. Fixed + Widest + Below <= budget
      BY <1>1, <2>1, <2>4, ResidentFits DEF Layered!FitsResident
    <3>. HIDE DEF Below, Widest
    <3>. QED
      BY <1>2, <2>2, <3>1
  <2>. QED
    BY <2>3, <2>4
<1>. QED
  BY <1>4, <1>5, <1>6, <1>7

-----------------------------------------------------------------------------
\* What the cache and the layers keep, together.
StoreInv == CacheInv /\ LayerInv

LEMMA StoreAlways ==
    ASSUME OneThread, RoomyCaches, NoStreamedDraft
    PROVE  Spec => [](StoreInv /\ StoresSound /\ UsesOwn)
<1>1. UsualCaches /\ Layered!StreamingAssumption
  BY LibraryAssumption
     DEF LibraryAssumption, UsualCaches, Cached!TierAssumption
<1>2. Init => StoreInv
  BY <1>1, CacheInit, LayersInit DEF Init, StoreInv
<1>3. StoreInv /\ [Next]_vars => StoreInv'
  BY <1>1, StoreSteps, CacheNext, LayersNext DEF StoreInv
<1>4. StoreInv => StoreInv /\ StoresSound /\ UsesOwn
  <2>1. SUFFICES ASSUME StoreInv PROVE StoresSound /\ UsesOwn
    OBVIOUS
  <2>2. /\ Cached!TypeOK /\ Cached!SlotsTrue /\ Cached!PinnedStays
        /\ Cached!ReadOnce /\ Cached!UsesRouted
    BY <1>1, <2>1, CacheConsequences DEF StoreInv
  <2>3. /\ Layered!TypeOK /\ Layered!UsesOwn
        /\ Layered!InScratch /\ Layered!WithinMemory
    BY <1>1, <2>1, LayersConsequences DEF StoreInv
  <2>. QED
    BY <2>1, <2>2, <2>3
       DEF UsesOwn, UsesRouted, StoresSound
<1>. QED
  BY <1>2, <1>3, <1>4, PTL DEF Spec

\* A forward computes with the experts its tokens were routed to (expert_get,
\* src/c/runtime/moecache.c) and every layer over its own weights
\* (layer_stream_in, src/c/runtime/rt_model_load.h): for any number of experts,
\* slots, pins, layers and matrices and any budget, with one thread, a slot left
\* by the pins, and no draft verified while layers are streamed.
THEOREM WeightsAreOwn ==
    ASSUME OneThread, RoomyCaches, NoStreamedDraft PROVE Spec => []UsesOwn
  BY StoreAlways, PTL

-----------------------------------------------------------------------------
(***************************************************************************)
(* The pointer tables.                                                     *)
(***************************************************************************)
Free == {Finder!Empty, Finder!Dead}
EntriesOf(t) == {i \in 0..t.cap - 1 : t.cells[i] \notin Free}
UsedOf(t)    == {i \in 0..t.cap - 1 : t.cells[i] # Finder!Empty}
StoredIn(t)  == {t.cells[i] : i \in DOMAIN t.cells} \ Free

IsTable(t) ==
  /\ t = [cells |-> t.cells, cap |-> t.cap, used |-> t.used, live |-> t.live]
  /\ t.cap \in 0..MaxCap /\ t.used \in Nat /\ t.live \in Nat
  /\ t.cells \in [0..t.cap - 1 -> Pointers \cup Free]

\* The counters count, and half the cells were never used.
Counted(t) == /\ t.live = Cardinality(EntriesOf(t)) /\ t.used = Cardinality(UsedOf(t))
              /\ t.used * 2 <= t.cap

\* A pointer is in one cell, and no cell before it on its way was never used.
Once(t) == \A i, x \in 0..t.cap - 1 : t.cells[i] \notin Free /\ t.cells[i] = t.cells[x] => i = x
Passed(t, p, k) == \A j \in 0..k - 1 : t.cells[Finder!Cell(t, p, j)] # Finder!Empty
Probed(t) == \A i \in 0..t.cap - 1 : t.cells[i] \notin Free =>
                \E k \in 0..t.cap - 1 : /\ Finder!Cell(t, t.cells[i], k) = i
                                        /\ Passed(t, t.cells[i], k)

TableInv(t) == IsTable(t) /\ Counted(t) /\ Once(t) /\ Probed(t)

LEMMA TableFacts ==
  /\ IsFiniteSet(Pointers) /\ Pointers \subseteq Nat /\ Pointers \cap Free = {}
  /\ FirstCap \in Nat /\ FirstCap > 1 /\ MaxCap \in Nat
  /\ \A p \in Pointers, cap \in 1..MaxCap : Hash(p, cap) \in 0..cap - 1
  BY LibraryAssumption
     DEF LibraryAssumption, Finder!PtrTableAssumption, Finder!IsFiniteSet, IsFiniteSet, Free,
         Finder!Empty, Finder!Dead

\* A probe visits every cell once.
LEMMA CellsVisited ==
    ASSUME NEW t, t.cap \in 1..MaxCap, NEW p \in Pointers
    PROVE  /\ \A k \in 0..t.cap - 1 : Finder!Cell(t, p, k) \in 0..t.cap - 1
           /\ \A k, j \in 0..t.cap - 1 : Finder!Cell(t, p, k) = Finder!Cell(t, p, j) => k = j
           /\ \A i \in 0..t.cap - 1 : \E k \in 0..t.cap - 1 : Finder!Cell(t, p, k) = i
<1>. DEFINE c == t.cap
            h == Hash(p, c)
<1>1. c \in Nat \ {0} /\ h \in 0..c - 1
  BY TableFacts
<1>2. \A k : Finder!Cell(t, p, k) = (h + k) % c
  BY DEF Finder!Cell
<1>. HIDE DEF c, h
<1>3. \A k \in 0..c - 1 : (h + k) % c = IF h + k < c THEN h + k ELSE h + k - c
  BY <1>1
<1>4. \A k \in 0..c - 1 : Finder!Cell(t, p, k) = IF h + k < c THEN h + k ELSE h + k - c
  BY <1>2, <1>3
<1>5. \A i \in 0..c - 1 : \E k \in 0..c - 1 : Finder!Cell(t, p, k) = i
  <2>1. SUFFICES ASSUME NEW i \in 0..c - 1 PROVE \E k \in 0..c - 1 : Finder!Cell(t, p, k) = i
    OBVIOUS
  <2>2. CASE h <= i
    <3>1. i - h \in 0..c - 1 /\ h + (i - h) = i /\ h + (i - h) < c
      BY <1>1, <2>2
    <3>. QED
      BY <1>4, <3>1
  <2>3. CASE ~(h <= i)
    <3>1. i - h + c \in 0..c - 1 /\ h + (i - h + c) = i + c /\ ~(h + (i - h + c) < c)
          /\ h + (i - h + c) - c = i
      BY <1>1, <2>3
    <3>2. Finder!Cell(t, p, i - h + c) = h + (i - h + c) - c
      BY <1>4, <3>1
    <3>. QED
      BY <3>1, <3>2
  <2>. QED
    BY <2>2, <2>3
<1>6. \A k \in 0..c - 1 : Finder!Cell(t, p, k) \in 0..c - 1
  BY <1>1, <1>4
<1>7. \A k, j \in 0..c - 1 : Finder!Cell(t, p, k) = Finder!Cell(t, p, j) => k = j
  BY <1>1, <1>4
<1>. QED
  BY <1>5, <1>6, <1>7 DEF c

\* The first cell on a probe that holds one of S.
LEMMA FirstOnProbe ==
    ASSUME NEW t, t.cap \in 1..MaxCap, NEW p \in Pointers, NEW S,
           NEW i \in 0..t.cap - 1, t.cells[i] \in S
    PROVE  \E k \in 0..t.cap - 1 :
              /\ Finder!First(t, p, S) = Finder!Cell(t, p, k)
              /\ t.cells[Finder!Cell(t, p, k)] \in S
              /\ \A j \in 0..t.cap - 1 : t.cells[Finder!Cell(t, p, j)] \in S => k <= j
<1>. DEFINE ks == Finder!Steps(t, p, S)
<1>1. /\ ks \in SUBSET Nat
      /\ \A k : k \in ks <=> k \in 0..t.cap - 1 /\ t.cells[Finder!Cell(t, p, k)] \in S
  BY DEF Finder!Steps
<1>2. ks # {}
  <2>1. PICK k \in 0..t.cap - 1 : Finder!Cell(t, p, k) = i
    BY CellsVisited
  <2>. QED
    BY <1>1, <2>1
<1>3. Finder!First(t, p, S) = Finder!Cell(t, p, CHOOSE k \in ks : \A j \in ks : k <= j)
  BY DEF Finder!First
<1>. HIDE DEF ks
<1>4. \E k \in ks : \A j \in ks : k <= j
  BY <1>1, <1>2, LeastOf
<1>5. PICK k : k = (CHOOSE z \in ks : \A j \in ks : z <= j)
  OBVIOUS
<1>6. k \in ks /\ \A j \in ks : k <= j
  BY <1>4, <1>5
<1>. QED
  BY <1>1, <1>3, <1>5, <1>6

\* Half the cells of a table were never used: one is left.
LEMMA CellLeft ==
    ASSUME NEW t, IsTable(t), Counted(t), t.cap > 0
    PROVE  \E i \in 0..t.cap - 1 : t.cells[i] = Finder!Empty
<1>1. SUFFICES ASSUME \A i \in 0..t.cap - 1 : t.cells[i] # Finder!Empty PROVE FALSE
  OBVIOUS
<1>2. UsedOf(t) = 0..t.cap - 1
  BY <1>1 DEF UsedOf
<1>3. t.cap \in Nat /\ MaxCap \in Nat
  BY TableFacts DEF IsTable
<1>4. Cardinality(0..t.cap - 1) = IF 0 > t.cap - 1 THEN 0 ELSE (t.cap - 1) - 0 + 1
  BY <1>3, FS_Interval, SMTT(60)
<1>. QED
  BY <1>2, <1>3, <1>4 DEF Counted

LEMMA CellsFinite ==
    ASSUME NEW t, IsTable(t)
    PROVE  /\ t.cap \in Nat /\ IsFiniteSet(EntriesOf(t)) /\ IsFiniteSet(UsedOf(t))
           /\ Cardinality(EntriesOf(t)) \in Nat /\ Cardinality(UsedOf(t)) \in Nat
           /\ EntriesOf(t) \subseteq UsedOf(t)
           /\ Cardinality(EntriesOf(t)) <= Cardinality(UsedOf(t))
<1>1. t.cap \in Nat /\ IsFiniteSet(0..t.cap - 1)
  <2>1. t.cap \in Nat /\ t.cap - 1 \in Int
    BY TableFacts DEF IsTable
  <2>. QED
    BY <2>1, FS_Interval
<1>2. EntriesOf(t) \in SUBSET UsedOf(t) /\ UsedOf(t) \in SUBSET (0..t.cap - 1)
  BY DEF EntriesOf, UsedOf, Free
<1>3. IsFiniteSet(UsedOf(t))
  BY <1>1, <1>2, FS_Subset
<1>. QED
  BY <1>1, <1>2, <1>3, FS_Subset, FS_CardinalityType

\* What PutIn makes of a table that has room.
LEMMA PutInIs ==
    ASSUME NEW t, TableInv(t), t.cap > 0, NEW p \in Pointers, p \notin StoredIn(t)
    PROVE  \E i \in 0..t.cap - 1, k \in 0..t.cap - 1 :
              /\ t.cells[i] \in Free /\ Finder!Cell(t, p, k) = i /\ Passed(t, p, k)
              /\ Finder!PutIn(t, p) =
                    [cells |-> [t.cells EXCEPT ![i] = p], cap |-> t.cap,
                     used |-> IF t.cells[i] = Finder!Empty THEN t.used + 1 ELSE t.used,
                     live |-> t.live + 1]
<1>1. t.cap \in 1..MaxCap
      /\ t = [cells |-> t.cells, cap |-> t.cap, used |-> t.used, live |-> t.live]
  BY DEF TableInv, IsTable
<1>2. PICK i \in 0..t.cap - 1 : t.cells[i] \in Free
  BY CellLeft DEF TableInv, Free
<1>3. PICK k \in 0..t.cap - 1 :
         /\ Finder!First(t, p, Free) = Finder!Cell(t, p, k)
         /\ t.cells[Finder!Cell(t, p, k)] \in Free
         /\ \A j \in 0..t.cap - 1 : t.cells[Finder!Cell(t, p, j)] \in Free => k <= j
  BY <1>1, <1>2, FirstOnProbe
<1>4. Finder!Cell(t, p, k) \in 0..t.cap - 1
  BY <1>1, CellsVisited
<1>5. Passed(t, p, k)
  <2>1. \A j \in 0..k - 1 : j \in 0..t.cap - 1 /\ ~(k <= j)
    BY <1>1
  <2>. QED
    BY <1>3, <2>1 DEF Passed, Free
<1>6. Finder!PutIn(t, p) =
         [t EXCEPT !.cells[Finder!Cell(t, p, k)] = p, !.live = @ + 1,
            !.used = IF t.cells[Finder!Cell(t, p, k)] = Finder!Empty THEN @ + 1 ELSE @]
  BY <1>3 DEF Finder!PutIn, Free
<1>. DEFINE x == Finder!Cell(t, p, k)
<1>7. Finder!PutIn(t, p) =
         [cells |-> [t.cells EXCEPT ![x] = p], cap |-> t.cap,
          used |-> IF t.cells[x] = Finder!Empty THEN t.used + 1 ELSE t.used,
          live |-> t.live + 1]
  <2>. HIDE DEF x
  <2>1. Finder!PutIn(t, p) =
           [t EXCEPT !.cells[x] = p, !.live = @ + 1,
              !.used = IF t.cells[x] = Finder!Empty THEN @ + 1 ELSE @]
    BY <1>6 DEF x
  <2>. QED
    BY <1>1, <2>1
<1>. QED
  BY <1>3, <1>4, <1>5, <1>7

LEMMA PutInKeeps ==
    ASSUME NEW t, TableInv(t), t.cap > 0, (t.used + 1) * 2 <= t.cap,
           NEW p \in Pointers, p \notin StoredIn(t)
    PROVE  /\ TableInv(Finder!PutIn(t, p))
           /\ Finder!PutIn(t, p).cap = t.cap /\ Finder!PutIn(t, p).live = t.live + 1
           /\ StoredIn(Finder!PutIn(t, p)) = StoredIn(t) \cup {p}
           /\ (\A i \in 0..t.cap - 1 : t.cells[i] # Finder!Dead) =>
                 \A i \in 0..t.cap - 1 : Finder!PutIn(t, p).cells[i] # Finder!Dead
<1>. DEFINE r == Finder!PutIn(t, p)
<1>1. PICK i \in 0..t.cap - 1, k \in 0..t.cap - 1 :
         /\ t.cells[i] \in Free /\ Finder!Cell(t, p, k) = i /\ Passed(t, p, k)
         /\ r = [cells |-> [t.cells EXCEPT ![i] = p], cap |-> t.cap,
                 used |-> IF t.cells[i] = Finder!Empty THEN t.used + 1 ELSE t.used,
                 live |-> t.live + 1]
  BY PutInIs
<1>. HIDE DEF r
<1>2. /\ t.cap \in 0..MaxCap /\ t.cap \in Nat /\ t.used \in Nat /\ t.live \in Nat
      /\ t.cells \in [0..t.cap - 1 -> Pointers \cup Free]
  BY CellsFinite DEF TableInv, IsTable
<1>3. /\ r.cap = t.cap /\ r.live = t.live + 1
      /\ r.used = IF t.cells[i] = Finder!Empty THEN t.used + 1 ELSE t.used
      /\ r.cells = [t.cells EXCEPT ![i] = p]
  BY <1>1
<1>4. /\ r.cells[i] = p /\ \A x \in 0..t.cap - 1 : x # i => r.cells[x] = t.cells[x]
      /\ DOMAIN r.cells = 0..t.cap - 1 /\ DOMAIN t.cells = 0..t.cap - 1
  BY <1>2, <1>3
<1>5. p \notin Free /\ p # Finder!Empty /\ \A x \in 0..t.cap - 1 : t.cells[x] # p
  <2>1. p \notin Free
    BY TableFacts
  <2>. QED
    BY <1>4, <2>1 DEF StoredIn, Free
<1>6. \A q, j : Finder!Cell(r, q, j) = Finder!Cell(t, q, j)
  BY <1>3 DEF Finder!Cell
<1>7. IsTable(r)
  BY <1>1, <1>2, <1>3, SMTT(60) DEF IsTable
<1>8. Counted(r)
  <2>1. EntriesOf(r) = EntriesOf(t) \cup {i} /\ i \notin EntriesOf(t)
    BY <1>1, <1>3, <1>4, <1>5 DEF EntriesOf
  <2>2. UsedOf(r) = UsedOf(t) \cup {i} /\ (i \in UsedOf(t) <=> t.cells[i] # Finder!Empty)
    BY <1>1, <1>3, <1>4, <1>5 DEF UsedOf
  <2>3. /\ Cardinality(EntriesOf(r)) = Cardinality(EntriesOf(t)) + 1
        /\ Cardinality(UsedOf(r)) = IF t.cells[i] = Finder!Empty THEN Cardinality(UsedOf(t)) + 1
                                    ELSE Cardinality(UsedOf(t))
    BY <2>1, <2>2, CellsFinite, FS_AddElement DEF TableInv
  <2>. QED
    BY <1>2, <1>3, <2>3 DEF TableInv, Counted
<1>9. Once(r)
  BY <1>3, <1>4, <1>5 DEF TableInv, Once
<1>10. Probed(r)
  <2>1. \A x \in 0..t.cap - 1 : t.cells[x] # Finder!Empty => r.cells[x] # Finder!Empty
    BY <1>4, <1>5
  <2>2. \A q \in Pointers, j \in 0..t.cap - 1 : Passed(t, q, j) => Passed(r, q, j)
    <3>1. SUFFICES ASSUME NEW q \in Pointers, NEW j \in 0..t.cap - 1, Passed(t, q, j),
                          NEW z \in 0..j - 1
                   PROVE  r.cells[Finder!Cell(t, q, z)] # Finder!Empty
      BY <1>6 DEF Passed
    <3>2. z \in 0..t.cap - 1
      BY <1>2
    <3>3. Finder!Cell(t, q, z) \in 0..t.cap - 1
      BY <1>2, <3>2, CellsVisited
    <3>. QED
      BY <2>1, <3>1, <3>3 DEF Passed
  <2>3. SUFFICES ASSUME NEW x \in 0..t.cap - 1, r.cells[x] \notin Free
                 PROVE  \E j \in 0..t.cap - 1 : /\ Finder!Cell(r, r.cells[x], j) = x
                                                /\ Passed(r, r.cells[x], j)
    BY <1>3 DEF Probed
  <2>4. CASE x = i
    BY <1>1, <1>4, <1>6, <2>2, <2>4
  <2>5. CASE x # i
    <3>1. r.cells[x] = t.cells[x] /\ t.cells[x] \in Pointers
      BY <1>2, <1>4, <2>3, <2>5
    <3>2. PICK j \in 0..t.cap - 1 : Finder!Cell(t, t.cells[x], j) = x /\ Passed(t, t.cells[x], j)
      BY <2>3, <3>1 DEF TableInv, Probed
    <3>. QED
      BY <1>6, <2>2, <3>1, <3>2
  <2>. QED
    BY <2>4, <2>5
<1>11. StoredIn(r) = StoredIn(t) \cup {p}
  BY <1>1, <1>4, <1>5 DEF StoredIn
<1>12. (\A x \in 0..t.cap - 1 : t.cells[x] # Finder!Dead) =>
          \A x \in 0..t.cap - 1 : r.cells[x] # Finder!Dead
  BY <1>4, <1>5 DEF Free
<1>. QED
  BY <1>3, <1>7, <1>8, <1>9, <1>10, <1>11, <1>12 DEF TableInv, r

\* A block is found when it is stored, from its own first cell on.
LEMMA FoundStored ==
    ASSUME NEW t, TableInv(t), t.cap > 0, NEW p \in Pointers
    PROVE  /\ Finder!Probe(t, p) \in 0..t.cap - 1
           /\ p \in StoredIn(t) => t.cells[Finder!Probe(t, p)] = p
           /\ p \notin StoredIn(t) => t.cells[Finder!Probe(t, p)] # p
<1>1. /\ t.cap \in 1..MaxCap /\ t.cap \in Nat /\ DOMAIN t.cells = 0..t.cap - 1
      /\ p \notin Free /\ p # Finder!Empty
  BY CellsFinite, TableFacts DEF TableInv, IsTable, Free
<1>2. PICK e \in 0..t.cap - 1 : t.cells[e] = Finder!Empty
  BY CellLeft DEF TableInv
<1>3. PICK k \in 0..t.cap - 1 :
         /\ Finder!First(t, p, {p, Finder!Empty}) = Finder!Cell(t, p, k)
         /\ t.cells[Finder!Cell(t, p, k)] \in {p, Finder!Empty}
         /\ \A j \in 0..t.cap - 1 : t.cells[Finder!Cell(t, p, j)] \in {p, Finder!Empty} => k <= j
  <2>1. t.cells[e] \in {p, Finder!Empty}
    BY <1>2
  <2>. QED
    BY <1>1, <2>1, FirstOnProbe
<1>4. Finder!Probe(t, p) = Finder!Cell(t, p, k)
  BY <1>3 DEF Finder!Probe
<1>5. Finder!Probe(t, p) \in 0..t.cap - 1
  BY <1>1, <1>4, CellsVisited
<1>6. ASSUME p \in StoredIn(t) PROVE t.cells[Finder!Probe(t, p)] = p
  <2>1. PICK i \in 0..t.cap - 1 : t.cells[i] = p
    BY <1>1, <1>6 DEF StoredIn
  <2>2. PICK j \in 0..t.cap - 1 : Finder!Cell(t, p, j) = i /\ Passed(t, p, j)
    BY <1>1, <2>1 DEF TableInv, Probed
  <2>3. k <= j
    BY <1>3, <2>1, <2>2
  <2>4. CASE k = j
    BY <1>4, <2>1, <2>2, <2>4
  <2>5. CASE k # j
    <3>1. k \in 0..j - 1
      BY <1>1, <2>3, <2>5
    <3>. QED
      BY <1>3, <1>4, <2>2, <3>1 DEF Passed
  <2>. QED
    BY <2>4, <2>5
<1>7. ASSUME p \notin StoredIn(t) PROVE t.cells[Finder!Probe(t, p)] # p
  BY <1>1, <1>5, <1>7 DEF StoredIn
<1>. QED
  BY <1>5, <1>6, <1>7

LEMMA TakenKeeps ==
    ASSUME NEW t, TableInv(t), t.cap > 0, NEW p \in Pointers, p \in StoredIn(t)
    PROVE  /\ TableInv(Finder!Taken(t, p))
           /\ StoredIn(Finder!Taken(t, p)) = StoredIn(t) \ {p}
<1>. DEFINE r == Finder!Taken(t, p)
            i == Finder!Probe(t, p)
<1>1. i \in 0..t.cap - 1 /\ t.cells[i] = p
  BY FoundStored
<1>2. /\ t.cap \in 0..MaxCap /\ t.cap \in Nat /\ t.used \in Nat /\ t.live \in Nat
      /\ t.cells \in [0..t.cap - 1 -> Pointers \cup Free]
      /\ t = [cells |-> t.cells, cap |-> t.cap, used |-> t.used, live |-> t.live]
  BY CellsFinite DEF TableInv, IsTable
<1>3. r = [t EXCEPT !.cells[i] = Finder!Dead, !.live = @ - 1]
  BY DEF Finder!Taken
<1>. HIDE DEF r, i
<1>4. r = [cells |-> [t.cells EXCEPT ![i] = Finder!Dead], cap |-> t.cap, used |-> t.used,
           live |-> t.live - 1]
  BY <1>2, <1>3
<1>5. /\ r.cap = t.cap /\ r.live = t.live - 1 /\ r.used = t.used
      /\ r.cells = [t.cells EXCEPT ![i] = Finder!Dead]
  BY <1>4
<1>6. /\ r.cells[i] = Finder!Dead /\ \A x \in 0..t.cap - 1 : x # i => r.cells[x] = t.cells[x]
      /\ DOMAIN r.cells = 0..t.cap - 1 /\ DOMAIN t.cells = 0..t.cap - 1
  BY <1>1, <1>2, <1>5
<1>7. p \notin Free /\ p # Finder!Empty /\ Finder!Dead \in Free /\ Finder!Dead # Finder!Empty
  BY TableFacts DEF Free, Finder!Empty, Finder!Dead
<1>8. \A q, j : Finder!Cell(r, q, j) = Finder!Cell(t, q, j)
  BY <1>5 DEF Finder!Cell
<1>9. EntriesOf(r) = EntriesOf(t) \ {i} /\ i \in EntriesOf(t) /\ UsedOf(r) = UsedOf(t)
  BY <1>1, <1>5, <1>6, <1>7 DEF EntriesOf, UsedOf
<1>10. Cardinality(EntriesOf(r)) = Cardinality(EntriesOf(t)) - 1
       /\ Cardinality(EntriesOf(t)) \in Nat /\ Cardinality(EntriesOf(r)) \in Nat
  BY <1>9, CellsFinite, FS_RemoveElement, FS_CardinalityType DEF TableInv
<1>11. IsTable(r) /\ Counted(r)
  <2>1. r.live = Cardinality(EntriesOf(r)) /\ r.live \in Nat
    BY <1>5, <1>10 DEF TableInv, Counted
  <2>2. r.cells \in [0..t.cap - 1 -> Pointers \cup Free]
    BY <1>2, <1>5, <1>7
  <2>. QED
    BY <1>2, <1>4, <1>5, <1>9, <2>1, <2>2 DEF TableInv, IsTable, Counted
<1>12. Once(r)
  BY <1>5, <1>6, <1>7 DEF TableInv, Once
<1>13. Probed(r)
  <2>1. \A x \in 0..t.cap - 1 : t.cells[x] # Finder!Empty => r.cells[x] # Finder!Empty
    BY <1>6, <1>7
  <2>2. SUFFICES ASSUME NEW x \in 0..t.cap - 1, r.cells[x] \notin Free
                 PROVE  \E j \in 0..t.cap - 1 : /\ Finder!Cell(r, r.cells[x], j) = x
                                                /\ Passed(r, r.cells[x], j)
    BY <1>5 DEF Probed
  <2>3. r.cells[x] = t.cells[x] /\ t.cells[x] \in Pointers
    BY <1>2, <1>6, <1>7, <2>2
  <2>4. PICK j \in 0..t.cap - 1 : Finder!Cell(t, t.cells[x], j) = x /\ Passed(t, t.cells[x], j)
    BY <2>2, <2>3 DEF TableInv, Probed
  <2>5. \A z \in 0..j - 1 : z \in 0..t.cap - 1 /\ Finder!Cell(t, t.cells[x], z) \in 0..t.cap - 1
    <3>1. \A z \in 0..j - 1 : z \in 0..t.cap - 1
      BY <1>2
    <3>2. t.cap \in 1..MaxCap
      BY <1>2
    <3>. QED
      BY <2>3, <3>1, <3>2, CellsVisited
  <2>6. Passed(r, t.cells[x], j)
    BY <1>8, <2>1, <2>4, <2>5 DEF Passed
  <2>. QED
    BY <1>8, <2>3, <2>4, <2>6
<1>14. StoredIn(r) = StoredIn(t) \ {p}
  <2>1. \A x \in 0..t.cap - 1 : t.cells[x] = p => x = i
    BY <1>1, <1>7 DEF TableInv, Once
  <2>. QED
    BY <1>1, <1>6, <1>7, <2>1 DEF StoredIn
<1>. QED
  BY <1>11, <1>12, <1>13, <1>14 DEF TableInv, r

\* The table that is filled when another grows.
LEMMA MovedIs ==
    ASSUME NEW t, t.cap \in Nat
    PROVE  /\ Finder!Moved(t)[0] = Finder!Blank(Finder!NewCap(t))
           /\ \A j \in 1..t.cap : Finder!Moved(t)[j] =
                 IF Finder!Entry(t.cells[j - 1])
                 THEN Finder!PutIn(Finder!Moved(t)[j - 1], t.cells[j - 1])
                 ELSE Finder!Moved(t)[j - 1]
<1>. DEFINE c == t.cap
            B == Finder!Blank(Finder!NewCap(t))
            Then(x, j) == IF Finder!Entry(t.cells[j - 1]) THEN Finder!PutIn(x, t.cells[j - 1]) ELSE x
            IsMoved(g, m) == /\ g = [j \in 0..m |-> g[j]] /\ g[0] = B
                             /\ \A j \in 1..m : g[j] = Then(g[j - 1], j)
            Bad == {m \in 0..c : \A g : ~IsMoved(g, m)}
<1>1. c \in Nat
  OBVIOUS
<1>. HIDE DEF B, Then
<1>2. Bad = {}
  <2>1. SUFFICES ASSUME Bad # {} PROVE FALSE
    OBVIOUS
  <2>2. Bad \in SUBSET Nat
    BY <1>1
  <2>3. PICK m \in Bad : \A k \in Bad : m <= k
    <3>. HIDE DEF Bad
    <3>. QED
      BY <2>1, <2>2, LeastOf
  <2>4. m \in 0..c /\ \A g : ~IsMoved(g, m)
    BY <2>3
  <2>5. m # 0
    <3>1. IsMoved([j \in 0..0 |-> B], 0)
      OBVIOUS
    <3>. QED
      BY <2>4, <3>1
  <2>6. PICK g : IsMoved(g, m - 1)
    <3>1. m - 1 \in 0..c /\ ~(m <= m - 1)
      BY <1>1, <2>4, <2>5
    <3>2. m - 1 \notin Bad
      BY <2>3, <3>1
    <3>. QED
      BY <3>1, <3>2
  <2>. DEFINE h == [j \in 0..m |-> IF j = m THEN Then(g[m - 1], m) ELSE g[j]]
  <2>7. m \in 1..c /\ m - 1 \in 0..m - 1
    BY <1>1, <2>4, <2>5
  <2>8. h = [j \in 0..m |-> h[j]]
    OBVIOUS
  <2>9. h[0] = B /\ \A j \in 1..m : h[j] = Then(h[j - 1], j)
    <3>1. h[0] = B
      BY <1>1, <2>6, <2>7
    <3>2. \A j \in 1..m : j \in 0..m /\ j - 1 \in 0..m /\ j - 1 # m /\ (j # m => j \in 1..m - 1)
      BY <1>1, <2>7
    <3>3. \A j \in 1..m : h[j - 1] = g[j - 1]
      BY <3>2
    <3>4. h[m] = Then(g[m - 1], m)
      BY <1>1, <2>7
    <3>5. \A j \in 1..m : j # m => h[j] = g[j]
      BY <3>2
    <3>6. \A j \in 1..m - 1 : g[j] = Then(g[j - 1], j)
      BY <2>6
    <3>. HIDE DEF h
    <3>. QED
      BY <3>1, <3>2, <3>3, <3>4, <3>5, <3>6
  <2>. HIDE DEF h
  <2>. QED
    BY <2>4, <2>8, <2>9
<1>3. PICK g : IsMoved(g, c)
  <2>1. c \in 0..c
    BY <1>1
  <2>. QED
    BY <1>2, <2>1
<1>. DEFINE S == Finder!Moved(t)
<1>4. S = [j \in 0..c |-> IF j = 0 THEN B ELSE Then(S[j - 1], j)]
  <2>1. g = [j \in 0..c |-> IF j = 0 THEN B ELSE Then(g[j - 1], j)]
    <3>1. \A j \in 0..c : g[j] = IF j = 0 THEN B ELSE Then(g[j - 1], j)
      BY <1>1, <1>3
    <3>2. g = [j \in 0..c |-> g[j]]
      BY <1>3
    <3>. QED
      BY <3>1, <3>2, Zenon
  <2>. QED
    BY <2>1, Zenon DEF Finder!Moved, B, Then, S
<1>. HIDE DEF S
<1>5. S[0] = B /\ \A j \in 1..c : S[j] = Then(S[j - 1], j)
  BY <1>1, <1>4
<1>. QED
  BY <1>5 DEF S, B, Then

\* An empty table.
LEMMA BlankIs ==
    ASSUME NEW c \in 0..MaxCap
    PROVE  /\ TableInv(Finder!Blank(c)) /\ StoredIn(Finder!Blank(c)) = {}
           /\ Finder!Blank(c).cap = c /\ Finder!Blank(c).live = 0
           /\ \A i \in 0..c - 1 : Finder!Blank(c).cells[i] # Finder!Dead
<1>. DEFINE b == Finder!Blank(c)
<1>1. b = [cells |-> [i \in 0..c - 1 |-> Finder!Empty], cap |-> c, used |-> 0, live |-> 0]
  BY DEF Finder!Blank
<1>. HIDE DEF b
<1>2. /\ b.cap = c /\ b.used = 0 /\ b.live = 0 /\ c \in Nat
      /\ b.cells = [i \in 0..c - 1 |-> Finder!Empty]
  BY <1>1, TableFacts
<1>3. Finder!Empty \in Free /\ Finder!Empty # Finder!Dead
  BY DEF Free, Finder!Empty, Finder!Dead
<1>4. EntriesOf(b) = {} /\ UsedOf(b) = {} /\ StoredIn(b) = {}
  BY <1>2, <1>3 DEF EntriesOf, UsedOf, StoredIn
<1>5. IsTable(b)
  BY <1>1, <1>2, <1>3 DEF IsTable
<1>6. Counted(b)
  BY <1>2, <1>4, FS_EmptySet DEF Counted
<1>7. Once(b) /\ Probed(b)
  BY <1>2, <1>3 DEF Once, Probed
<1>. QED
  BY <1>2, <1>3, <1>4, <1>5, <1>6, <1>7 DEF TableInv, b

\* There is room for one more in the table that is filled.
LEMMA RoomInNew ==
    ASSUME NEW t, TableInv(t), kind \in Tables, Finder!Full(t)
    PROVE  /\ Finder!NewCap(t) \in Nat \ {0}
           /\ (t.live + 1) * 2 <= Finder!NewCap(t)
<1>1. /\ t.cap \in Nat /\ t.used \in Nat /\ t.live \in Nat
      /\ t.live <= t.used /\ t.used * 2 <= t.cap
  BY CellsFinite DEF TableInv, IsTable, Counted
<1>2. FirstCap \in Nat /\ FirstCap > 1
  BY TableFacts
<1>3. CASE t.cap = 0
  BY <1>1, <1>2, <1>3 DEF Finder!NewCap
<1>4. CASE t.cap # 0 /\ kind = "registry" /\ (t.live + 1) * 4 <= t.cap
  <2>1. Finder!NewCap(t) = t.cap
    BY <1>4 DEF Finder!NewCap
  <2>. QED
    BY <1>1, <1>4, <2>1
<1>5. CASE t.cap # 0 /\ ~(kind = "registry" /\ (t.live + 1) * 4 <= t.cap)
  <2>1. Finder!NewCap(t) = t.cap * 2
    BY <1>5 DEF Finder!NewCap
  <2>. QED
    BY <1>1, <1>5, <2>1
<1>. QED
  BY <1>3, <1>4, <1>5

\* Growing keeps what is stored, drops the tombstones and leaves room; it never
\* has to grow again while it moves the cells.
LEMMA GrownKeeps ==
    ASSUME NEW t, TableInv(t), kind \in Tables, Finder!Full(t), Finder!NewCap(t) <= MaxCap
    PROVE  /\ TableInv(Finder!Grown(t)) /\ StoredIn(Finder!Grown(t)) = StoredIn(t)
           /\ Finder!Grown(t).cap > 0
           /\ (Finder!Grown(t).used + 1) * 2 <= Finder!Grown(t).cap
<1>. DEFINE N == Finder!NewCap(t)
            M(j) == Finder!Moved(t)[j]
            Before(j) == {x \in 0..j - 1 : t.cells[x] \notin Free}
            Done(j) == /\ TableInv(M(j)) /\ M(j).cap = N
                       /\ \A i \in 0..N - 1 : M(j).cells[i] # Finder!Dead
                       /\ StoredIn(M(j)) = {t.cells[x] : x \in Before(j)}
                       /\ M(j).live = Cardinality(Before(j))
            Bad == {j \in 0..t.cap : ~Done(j)}
<1>1. /\ t.cap \in Nat /\ t.used \in Nat /\ t.live \in Nat
      /\ t.cells \in [0..t.cap - 1 -> Pointers \cup Free] /\ DOMAIN t.cells = 0..t.cap - 1
      /\ IsFiniteSet(EntriesOf(t)) /\ t.live = Cardinality(EntriesOf(t))
  BY CellsFinite DEF TableInv, IsTable, Counted
<1>2. N \in Nat \ {0} /\ (t.live + 1) * 2 <= N /\ N \in 0..MaxCap /\ N > 0
  BY RoomInNew, TableFacts
<1>3. /\ M(0) = Finder!Blank(N)
      /\ \A j \in 1..t.cap : M(j) = IF t.cells[j - 1] \notin Free
                                    THEN Finder!PutIn(M(j - 1), t.cells[j - 1]) ELSE M(j - 1)
  BY <1>1, MovedIs DEF Finder!Entry, Free
<1>. HIDE DEF M, N
<1>4. ASSUME NEW j \in 0..t.cap
      PROVE  /\ IsFiniteSet(Before(j)) /\ Cardinality(Before(j)) \in Nat
             /\ Cardinality(Before(j)) <= t.live
  <2>1. Before(j) \in SUBSET EntriesOf(t)
    BY <1>1, <1>4 DEF EntriesOf
  <2>. HIDE DEF Before
  <2>. QED
    BY <1>1, <2>1, FS_Subset, FS_CardinalityType
<1>5. ASSUME NEW j \in 0..t.cap, Done(j)
      PROVE  (M(j).used + 1) * 2 <= N /\ M(j).used = M(j).live
  <2>1. /\ IsTable(M(j)) /\ M(j).used = Cardinality(UsedOf(M(j)))
        /\ M(j).live = Cardinality(EntriesOf(M(j))) /\ M(j).cap = N
    BY <1>5 DEF TableInv, Counted
  <2>2. UsedOf(M(j)) = EntriesOf(M(j))
    BY <1>5, <2>1 DEF UsedOf, EntriesOf, Free
  <2>3. M(j).used = M(j).live /\ M(j).live <= t.live /\ M(j).live \in Nat
    BY <1>4, <1>5, <2>1, <2>2
  <2>. QED
    BY <1>1, <1>2, <2>3
<1>6. Done(0)
  <2>1. Before(0) = {}
    OBVIOUS
  <2>2. {t.cells[x] : x \in Before(0)} = {}
    BY <2>1
  <2>. HIDE DEF Before
  <2>. QED
    BY <1>2, <1>3, <2>1, <2>2, BlankIs, FS_EmptySet
<1>7. ASSUME NEW j \in 1..t.cap, Done(j - 1) PROVE Done(j)
  <2>1. j - 1 \in 0..t.cap - 1 /\ j - 1 \in 0..t.cap
    BY <1>1
  <2>2. CASE t.cells[j - 1] \in Free
    <3>1. Before(j) = Before(j - 1)
      BY <1>1, <2>1, <2>2
    <3>2. M(j) = M(j - 1)
      BY <1>3, <2>2
    <3>. HIDE DEF Before
    <3>. QED
      BY <1>7, <3>1, <3>2
  <2>3. CASE t.cells[j - 1] \notin Free
    <3>. DEFINE p == t.cells[j - 1]
    <3>1. M(j) = Finder!PutIn(M(j - 1), p)
      BY <1>3, <2>3
    <3>2. Before(j) = Before(j - 1) \cup {j - 1} /\ j - 1 \notin Before(j - 1)
      BY <1>1, <2>1, <2>3
    <3>3. p \in Pointers /\ \A x \in Before(j - 1) : t.cells[x] # p
      <4>1. p \in Pointers
        BY <1>1, <2>1, <2>3
      <4>2. \A x \in Before(j - 1) : x \in 0..t.cap - 1 /\ x # j - 1
        BY <1>1, <2>1
      <4>. QED
        BY <2>1, <2>3, <4>1, <4>2 DEF TableInv, Once
    <3>. HIDE DEF p
    <3>4. p \notin StoredIn(M(j - 1))
      BY <1>7, <3>3
    <3>5. /\ TableInv(M(j - 1)) /\ M(j - 1).cap = N
          /\ (M(j - 1).used + 1) * 2 <= M(j - 1).cap
          /\ \A i \in 0..M(j - 1).cap - 1 : M(j - 1).cells[i] # Finder!Dead
      BY <1>5, <1>7, <2>1
    <3>6. /\ TableInv(M(j)) /\ M(j).cap = N /\ M(j).live = M(j - 1).live + 1
          /\ StoredIn(M(j)) = StoredIn(M(j - 1)) \cup {p}
          /\ \A i \in 0..N - 1 : M(j).cells[i] # Finder!Dead
      BY <1>2, <3>1, <3>3, <3>4, <3>5, PutInKeeps
    <3>7. Cardinality(Before(j)) = Cardinality(Before(j - 1)) + 1
      <4>1. IsFiniteSet(Before(j - 1))
        BY <1>4, <2>1
      <4>. HIDE DEF Before
      <4>. QED
        BY <3>2, <4>1, FS_AddElement
    <3>8. {t.cells[x] : x \in Before(j)} = {t.cells[x] : x \in Before(j - 1)} \cup {p}
      <4>. HIDE DEF Before
      <4>. QED
        BY <3>2 DEF p
    <3>. HIDE DEF Before
    <3>. QED
      BY <1>7, <3>6, <3>7, <3>8
  <2>. QED
    BY <2>2, <2>3
<1>. HIDE DEF Done
<1>8. Bad = {}
  <2>1. SUFFICES ASSUME Bad # {} PROVE FALSE
    OBVIOUS
  <2>2. Bad \in SUBSET Nat
    BY <1>1
  <2>3. PICK j \in Bad : \A x \in Bad : j <= x
    <3>. HIDE DEF Bad
    <3>. QED
      BY <2>1, <2>2, LeastOf
  <2>4. j \in 0..t.cap /\ ~Done(j)
    BY <2>3
  <2>5. j # 0
    BY <1>6, <2>4
  <2>6. j \in 1..t.cap /\ j - 1 \in 0..t.cap /\ ~(j <= j - 1)
    BY <1>1, <2>4, <2>5
  <2>7. Done(j - 1)
    BY <2>3, <2>6
  <2>. QED
    BY <1>7, <2>4, <2>6, <2>7
<1>9. Done(t.cap) /\ t.cap \in 0..t.cap
  BY <1>1, <1>8
<1>10. Finder!Grown(t) = M(t.cap)
  BY DEF Finder!Grown, M
<1>11. {t.cells[x] : x \in Before(t.cap)} = StoredIn(t)
  BY <1>1 DEF StoredIn
<1>12. /\ TableInv(M(t.cap)) /\ M(t.cap).cap = N
       /\ StoredIn(M(t.cap)) = {t.cells[x] : x \in Before(t.cap)}
  BY <1>9 DEF Done
<1>13. (M(t.cap).used + 1) * 2 <= N
  BY <1>5, <1>9
<1>. HIDE DEF Before
<1>. QED
  BY <1>2, <1>10, <1>11, <1>12, <1>13

\* Adding a block that is not stored (trk_add, big_put).
LEMMA PutKeeps ==
    ASSUME NEW t, TableInv(t), kind \in Tables, Finder!Bounded(t),
           NEW p \in Pointers, p \notin StoredIn(t)
    PROVE  /\ TableInv(Finder!Put(t, p)) /\ StoredIn(Finder!Put(t, p)) = StoredIn(t) \cup {p}
<1>1. CASE Finder!Full(t)
  <2>1. Finder!Put(t, p) = Finder!PutIn(Finder!Grown(t), p) /\ Finder!NewCap(t) <= MaxCap
    BY <1>1 DEF Finder!Put, Finder!Bounded
  <2>2. /\ TableInv(Finder!Grown(t)) /\ StoredIn(Finder!Grown(t)) = StoredIn(t)
        /\ Finder!Grown(t).cap > 0
        /\ (Finder!Grown(t).used + 1) * 2 <= Finder!Grown(t).cap
    BY <1>1, <2>1, GrownKeeps
  <2>. QED
    BY <2>1, <2>2, PutInKeeps
<1>2. CASE ~Finder!Full(t)
  <2>1. Finder!Put(t, p) = Finder!PutIn(t, p) /\ ~((t.used + 1) * 2 > t.cap)
    BY <1>2 DEF Finder!Put, Finder!Full
  <2>2. t.cap \in Nat /\ t.used \in Nat
    BY CellsFinite DEF TableInv, IsTable
  <2>3. t.cap > 0 /\ (t.used + 1) * 2 <= t.cap
    BY <2>1, <2>2
  <2>. QED
    BY <2>1, <2>3, PutInKeeps
<1>. QED
  BY <1>1, <1>2

\* The tables a merge goes through.
LEMMA PutAllIs ==
    ASSUME NEW t, NEW q, Len(q) \in Nat
    PROVE  /\ Finder!PutAll(t, q)[0] = t
           /\ \A j \in 1..Len(q) :
                 Finder!PutAll(t, q)[j] = Finder!Put(Finder!PutAll(t, q)[j - 1], q[j])
<1>. DEFINE c == Len(q)
            Then(x, j) == Finder!Put(x, q[j])
            IsPut(g, m) == /\ g = [j \in 0..m |-> g[j]] /\ g[0] = t
                           /\ \A j \in 1..m : g[j] = Then(g[j - 1], j)
            Bad == {m \in 0..c : \A g : ~IsPut(g, m)}
<1>1. c \in Nat
  OBVIOUS
<1>. HIDE DEF c, Then
<1>2. Bad = {}
  <2>1. SUFFICES ASSUME Bad # {} PROVE FALSE
    OBVIOUS
  <2>2. Bad \in SUBSET Nat
    BY <1>1
  <2>3. PICK m \in Bad : \A k \in Bad : m <= k
    <3>. HIDE DEF Bad
    <3>. QED
      BY <2>1, <2>2, LeastOf
  <2>4. m \in 0..c /\ \A g : ~IsPut(g, m)
    BY <2>3
  <2>5. m # 0
    <3>1. IsPut([j \in 0..0 |-> t], 0)
      OBVIOUS
    <3>. QED
      BY <2>4, <3>1
  <2>6. PICK g : IsPut(g, m - 1)
    <3>1. m - 1 \in 0..c /\ ~(m <= m - 1)
      BY <1>1, <2>4, <2>5
    <3>2. m - 1 \notin Bad
      BY <2>3, <3>1
    <3>. QED
      BY <3>1, <3>2
  <2>. DEFINE h == [j \in 0..m |-> IF j = m THEN Then(g[m - 1], m) ELSE g[j]]
  <2>7. m \in 1..c /\ m - 1 \in 0..m - 1
    BY <1>1, <2>4, <2>5
  <2>8. h = [j \in 0..m |-> h[j]]
    OBVIOUS
  <2>9. h[0] = t /\ \A j \in 1..m : h[j] = Then(h[j - 1], j)
    <3>1. h[0] = t
      BY <1>1, <2>6, <2>7
    <3>2. \A j \in 1..m : j \in 0..m /\ j - 1 \in 0..m /\ j - 1 # m /\ (j # m => j \in 1..m - 1)
      BY <1>1, <2>7
    <3>3. \A j \in 1..m : h[j - 1] = g[j - 1]
      BY <3>2
    <3>4. h[m] = Then(g[m - 1], m)
      BY <1>1, <2>7
    <3>5. \A j \in 1..m : j # m => h[j] = g[j]
      BY <3>2
    <3>6. \A j \in 1..m - 1 : g[j] = Then(g[j - 1], j)
      BY <2>6
    <3>. HIDE DEF h
    <3>. QED
      BY <3>1, <3>2, <3>3, <3>4, <3>5, <3>6
  <2>. HIDE DEF h
  <2>. QED
    BY <2>4, <2>8, <2>9
<1>3. PICK g : IsPut(g, c)
  <2>1. c \in 0..c
    BY <1>1
  <2>. QED
    BY <1>2, <2>1
<1>. DEFINE S == Finder!PutAll(t, q)
<1>4. S = [j \in 0..c |-> IF j = 0 THEN t ELSE Then(S[j - 1], j)]
  <2>1. g = [j \in 0..c |-> IF j = 0 THEN t ELSE Then(g[j - 1], j)]
    <3>1. \A j \in 0..c : g[j] = IF j = 0 THEN t ELSE Then(g[j - 1], j)
      BY <1>1, <1>3
    <3>2. g = [j \in 0..c |-> g[j]]
      BY <1>3
    <3>. QED
      BY <3>1, <3>2, Zenon
  <2>. QED
    BY <2>1, Zenon DEF Finder!PutAll, c, Then, S
<1>. HIDE DEF S
<1>5. S[0] = t /\ \A j \in 1..c : S[j] = Then(S[j - 1], j)
  BY <1>1, <1>4
<1>. QED
  BY <1>5 DEF S, c, Then

\* Merging a table into another (moty_track_merge): the blocks come one after
\* the other, and none of them was stored.
LEMMA PutAllKeeps ==
    ASSUME NEW t, TableInv(t), kind \in Tables, NEW q, Len(q) \in Nat,
           \A i \in 1..Len(q) : q[i] \in Pointers \ StoredIn(t),
           \A i, j \in 1..Len(q) : q[i] = q[j] => i = j,
           \A i \in 0..Len(q) - 1 : Finder!Bounded(Finder!PutAll(t, q)[i])
    PROVE  /\ TableInv(Finder!PutAll(t, q)[Len(q)])
           /\ StoredIn(Finder!PutAll(t, q)[Len(q)]) = StoredIn(t) \cup {q[i] : i \in 1..Len(q)}
<1>. DEFINE c == Len(q)
            M(j) == Finder!PutAll(t, q)[j]
            Done(j) == /\ TableInv(M(j))
                       /\ StoredIn(M(j)) = StoredIn(t) \cup {q[i] : i \in 1..j}
            Bad == {j \in 0..c : ~Done(j)}
<1>1. c \in Nat
  OBVIOUS
<1>2. M(0) = t /\ \A j \in 1..c : M(j) = Finder!Put(M(j - 1), q[j])
  BY PutAllIs
<1>3. \A j \in 0..c - 1 : Finder!Bounded(M(j))
  OBVIOUS
<1>. HIDE DEF c, M
<1>4. Done(0)
  <2>1. {q[i] : i \in 1..0} = {}
    OBVIOUS
  <2>. QED
    BY <1>2, <2>1
<1>5. ASSUME NEW j \in 1..c, Done(j - 1) PROVE Done(j)
  <2>1. j - 1 \in 0..c - 1 /\ j \in 1..c /\ \A i \in 1..j - 1 : i \in 1..c /\ i # j
    BY <1>1
  <2>2. q[j] \in Pointers /\ q[j] \notin StoredIn(M(j - 1))
    BY <1>5, <2>1 DEF c
  <2>3. /\ TableInv(Finder!Put(M(j - 1), q[j]))
        /\ StoredIn(Finder!Put(M(j - 1), q[j])) = StoredIn(M(j - 1)) \cup {q[j]}
    BY <1>3, <1>5, <2>1, <2>2, PutKeeps
  <2>4. {q[i] : i \in 1..j} = {q[i] : i \in 1..j - 1} \cup {q[j]}
    <3>1. 1..j = (1..j - 1) \cup {j}
      BY <1>1
    <3>. QED
      BY <3>1
  <2>. QED
    BY <1>2, <1>5, <2>3, <2>4
<1>. HIDE DEF Done
<1>6. Bad = {}
  <2>1. SUFFICES ASSUME Bad # {} PROVE FALSE
    OBVIOUS
  <2>2. Bad \in SUBSET Nat
    BY <1>1
  <2>3. PICK j \in Bad : \A x \in Bad : j <= x
    <3>. HIDE DEF Bad
    <3>. QED
      BY <2>1, <2>2, LeastOf
  <2>4. j \in 0..c /\ ~Done(j)
    BY <2>3
  <2>5. j # 0
    BY <1>4, <2>4
  <2>6. j \in 1..c /\ j - 1 \in 0..c /\ ~(j <= j - 1)
    BY <1>1, <2>4, <2>5
  <2>7. Done(j - 1)
    BY <2>3, <2>6
  <2>. QED
    BY <1>5, <2>4, <2>6, <2>7
<1>7. Done(c)
  BY <1>1, <1>6
<1>. QED
  BY <1>7 DEF Done, c, M
\* The inductive invariant of the tables.
TablesInv == kind \in Tables /\ oom = FALSE /\ TableInv(table)

LEMMA StoredIs == Finder!Stored = StoredIn(table)
  BY DEF Finder!Stored, StoredIn, Free

LEMMA TablesInit ==
    ASSUME Finder!Init PROVE TablesInv /\ StoredIn(table) = {}
<1>1. 0 \in 0..MaxCap
  BY TableFacts
<1>2. kind \in Tables /\ oom = FALSE /\ table = Finder!Blank(0)
  BY DEF Finder!Init, Finder!NoTable
<1>. QED
  BY <1>1, <1>2, BlankIs DEF TablesInv

\* What each call makes of the blocks that are stored.
LEMMA AddStep ==
    ASSUME TablesInv, NEW p \in Pointers, Finder!Add(p)
    PROVE  /\ TablesInv' /\ p \notin StoredIn(table)
           /\ StoredIn(table') = StoredIn(table) \cup {p} /\ answer' = <<"add", {}>>
<1>1. /\ p \notin StoredIn(table) /\ Finder!Bounded(table) /\ table' = Finder!Put(table, p)
      /\ answer' = <<"add", {}>> /\ kind' = kind /\ oom' = oom
  BY StoredIs DEF Finder!Add
<1>2. /\ TableInv(Finder!Put(table, p))
      /\ StoredIn(Finder!Put(table, p)) = StoredIn(table) \cup {p}
  BY <1>1, PutKeeps DEF TablesInv
<1>3. TableInv(table')
  BY <1>1, <1>2
<1>4. StoredIn(table') = StoredIn(table) \cup {p}
  BY <1>1, <1>2
<1>. QED
  BY <1>1, <1>3, <1>4 DEF TablesInv

LEMMA DeleteStep ==
    ASSUME TablesInv, NEW p \in Pointers, Finder!Delete(p)
    PROVE  /\ TablesInv' /\ StoredIn(table') = StoredIn(table) \ {p}
           /\ answer' = <<"delete", p, StoredIn(table) \cap {p}>>
<1>1. kind' = kind /\ oom' = oom /\ TableInv(table)
  BY DEF Finder!Delete, TablesInv
<1>2. table.cap \in Nat
  BY <1>1, CellsFinite DEF TableInv
<1>3. Finder!Found(table, p) <=> p \in StoredIn(table)
  <2>1. CASE table.cap = 0
    <3>1. DOMAIN table.cells = {}
      BY <1>1, <2>1 DEF TableInv, IsTable
    <3>. QED
      BY <2>1, <3>1 DEF StoredIn, Finder!Found
  <2>2. CASE table.cap > 0
    BY <1>1, <2>2, FoundStored DEF Finder!Found
  <2>. QED
    BY <1>2, <2>1, <2>2
<1>4. CASE p \in StoredIn(table)
  <2>1. /\ table' = Finder!Taken(table, p) /\ answer' = <<"delete", p, {p}>>
        /\ table.cap > 0
    BY <1>3, <1>4 DEF Finder!Delete, Finder!Found
  <2>2. /\ TableInv(Finder!Taken(table, p))
        /\ StoredIn(Finder!Taken(table, p)) = StoredIn(table) \ {p}
    BY <1>1, <1>4, <2>1, TakenKeeps
  <2>3. TableInv(table') /\ StoredIn(table') = StoredIn(table) \ {p}
    BY <2>1, <2>2
  <2>4. StoredIn(table) \cap {p} = {p}
    BY <1>4
  <2>. QED
    BY <1>1, <2>1, <2>3, <2>4 DEF TablesInv
<1>5. CASE p \notin StoredIn(table)
  <2>1. table' = table /\ answer' = <<"delete", p, {}>>
    BY <1>3, <1>5 DEF Finder!Delete
  <2>2. StoredIn(table) \cap {p} = {} /\ StoredIn(table) \ {p} = StoredIn(table)
    BY <1>5
  <2>. QED
    BY <1>1, <2>1, <2>2 DEF TablesInv
<1>. QED
  BY <1>4, <1>5

LEMMA MergeStep ==
    ASSUME TablesInv, NEW S \in SUBSET Pointers, Finder!Merge(S)
    PROVE  /\ TablesInv' /\ S \cap StoredIn(table) = {}
           /\ StoredIn(table') = StoredIn(table) \cup S /\ answer' = <<"add", {}>>
<1>1. /\ S \cap StoredIn(table) = {} /\ answer' = <<"add", {}>> /\ kind' = kind /\ oom' = oom
      /\ \E order \in Finder!SetToSeqs(S) :
            /\ \A i \in 0..Len(order) - 1 : Finder!Bounded(Finder!PutAll(table, order)[i])
            /\ table' = Finder!PutAll(table, order)[Len(order)]
  BY StoredIs DEF Finder!Merge
<1>2. PICK order \in Finder!SetToSeqs(S) :
            /\ \A i \in 0..Len(order) - 1 : Finder!Bounded(Finder!PutAll(table, order)[i])
            /\ table' = Finder!PutAll(table, order)[Len(order)]
  BY <1>1
<1>. DEFINE c == Cardinality(S)
<1>3. IsFiniteSet(S) /\ c \in Nat
  BY TableFacts, FS_Subset, FS_CardinalityType
<1>4. /\ order \in [1..c -> S] /\ \A i, j \in 1..c : order[i] = order[j] => i = j
  BY <1>2 DEF Finder!SetToSeqs, Finder!Cardinality, Cardinality
<1>. HIDE DEF c
<1>5. Len(order) = c
  BY <1>3, <1>4
<1>6. {order[i] : i \in 1..c} = S
  <2>1. \A x \in S : \E i \in 1..c : order[i] = x
    BY <1>3, <1>4, Pigeons DEF c
  <2>. QED
    BY <1>4, <2>1
<1>7. /\ TableInv(Finder!PutAll(table, order)[Len(order)])
      /\ StoredIn(Finder!PutAll(table, order)[Len(order)]) =
            StoredIn(table) \cup {order[i] : i \in 1..Len(order)}
  <2>1. \A i \in 1..Len(order) : order[i] \in Pointers \ StoredIn(table)
    BY <1>1, <1>4, <1>5
  <2>2. \A i, j \in 1..Len(order) : order[i] = order[j] => i = j
    BY <1>4, <1>5
  <2>3. Len(order) \in Nat /\ TableInv(table) /\ kind \in Tables
    BY <1>3, <1>5 DEF TablesInv
  <2>. QED
    BY <1>2, <2>1, <2>2, <2>3, PutAllKeeps
<1>8. TableInv(table') /\ StoredIn(table') = StoredIn(table) \cup S
  BY <1>2, <1>5, <1>6, <1>7
<1>. QED
  BY <1>1, <1>8 DEF TablesInv

LEMMA FreeAllStep ==
    ASSUME TablesInv, Finder!FreeAll
    PROVE  /\ TablesInv' /\ StoredIn(table') = {}
           /\ answer' = <<"free_all", StoredIn(table)>>
<1>1. /\ answer' = <<"free_all", StoredIn(table)>> /\ table' = Finder!Blank(0)
      /\ kind' = kind /\ oom' = oom
  BY StoredIs DEF Finder!FreeAll, Finder!NoTable
<1>2. TableInv(Finder!Blank(0)) /\ StoredIn(Finder!Blank(0)) = {}
  BY TableFacts, BlankIs
<1>3. TableInv(table') /\ StoredIn(table') = {}
  BY <1>1, <1>2
<1>. QED
  BY <1>1, <1>3 DEF TablesInv

\* Every call is a step of the set, and keeps the invariant.
LEMMA TablesNext ==
    ASSUME TablesInv, [Finder!Next]_(Finder!vars)
    PROVE  TablesInv' /\ [Finder!Abstract!Next]_<<Finder!Stored, answer>>
<1>1. StoredIn(table)' = StoredIn(table') /\ Finder!Stored' = StoredIn(table')
      /\ Finder!Stored = StoredIn(table)
  BY StoredIs DEF Finder!Stored, StoredIn, Free
<1>2. ASSUME NEW p \in Pointers, Finder!Add(p)
      PROVE  TablesInv' /\ Finder!Abstract!Add(p)
  BY <1>1, <1>2, AddStep DEF Finder!Abstract!Add
<1>3. ASSUME NEW p \in Pointers, Finder!Delete(p)
      PROVE  TablesInv' /\ Finder!Abstract!Delete(p)
  BY <1>1, <1>3, DeleteStep DEF Finder!Abstract!Delete
<1>4. ASSUME NEW S \in SUBSET Pointers, Finder!Merge(S)
      PROVE  TablesInv' /\ Finder!Abstract!Merge(S)
  BY <1>1, <1>4, MergeStep DEF Finder!Abstract!Merge
<1>5. CASE Finder!FreeAll
  <2>1. TablesInv' /\ Finder!Abstract!FreeAll
    BY <1>1, <1>5, FreeAllStep DEF Finder!Abstract!FreeAll
  <2>. QED
    BY <2>1 DEF Finder!Abstract!Next
<1>6. CASE UNCHANGED Finder!vars
  BY <1>6 DEF Finder!vars, TablesInv, Finder!Stored
<1>. QED
  BY <1>2, <1>3, <1>4, <1>5, <1>6 DEF Finder!Next, Finder!Abstract!Next

LEMMA TablesConsequences == ASSUME TablesInv PROVE TablesSound
<1>1. /\ TableInv(table) /\ table.cap \in Nat /\ DOMAIN table.cells = 0..table.cap - 1
  BY CellsFinite DEF TablesInv, TableInv, IsTable
<1>2. Finder!TypeOK
  <2>1. EntriesOf(table) = {i \in DOMAIN table.cells : Finder!Entry(table.cells[i])}
    BY <1>1 DEF EntriesOf, Free, Finder!Entry
  <2>2. UsedOf(table) = {i \in DOMAIN table.cells : table.cells[i] # Finder!Empty}
    BY <1>1 DEF UsedOf
  <2>3. /\ table.live = Finder!Cardinality(EntriesOf(table))
        /\ table.used = Finder!Cardinality(UsedOf(table))
    BY <1>1 DEF TableInv, Counted, Finder!Cardinality, Cardinality
  <2>. QED
    BY <1>1, <2>1, <2>2, <2>3 DEF Finder!TypeOK
<1>3. Finder!ProbesEnd
  BY <1>1, CellLeft DEF TableInv, Finder!ProbesEnd
<1>4. \A p \in Finder!Stored : Finder!Found(table, p)
  <2>1. SUFFICES ASSUME NEW p \in StoredIn(table) PROVE Finder!Found(table, p)
    BY StoredIs
  <2>2. PICK i \in 0..table.cap - 1 : table.cells[i] = p
    BY <1>1 DEF StoredIn
  <2>3. p \in Pointers /\ table.cap > 0
    BY <1>1, <2>1, <2>2 DEF TableInv, IsTable, StoredIn
  <2>. QED
    BY <1>1, <2>1, <2>3, FoundStored DEF Finder!Found
<1>5. Finder!Cardinality(Finder!Stored) = table.live
  <2>. DEFINE N == EntriesOf(table)
              g == [i \in N |-> table.cells[i]]
  <2>1. N \in SUBSET (0..table.cap - 1) /\ \A i \in 0..table.cap - 1 : i \in N <=> table.cells[i] \notin Free
    BY DEF EntriesOf
  <2>2. IsFiniteSet(N) /\ Cardinality(N) = table.live
    BY <1>1, CellsFinite DEF TableInv, Counted
  <2>3. StoredIn(table) = {table.cells[i] : i \in N}
    BY <1>1, <2>1 DEF StoredIn
  <2>. HIDE DEF N
  <2>4. g \in Bijection(N, StoredIn(table))
    <3>1. g \in [N -> StoredIn(table)] /\ \A i \in N : g[i] = table.cells[i]
      BY <2>3
    <3>2. \A i, j \in N : g[i] = g[j] => i = j
      BY <1>1, <2>1, <3>1 DEF TableInv, Once
    <3>3. \A x \in StoredIn(table) : \E i \in N : g[i] = x
      BY <2>3, <3>1
    <3>. HIDE DEF g
    <3>. QED
      BY <3>1, <3>2, <3>3 DEF Bijection, Injection, Surjection, IsInjective
  <2>. HIDE DEF g
  <2>5. Cardinality(StoredIn(table)) = Cardinality(N)
    <3>1. ExistsBijection(N, StoredIn(table))
      BY <2>4, Zenon DEF ExistsBijection
    <3>. QED
      BY <2>2, <3>1, FS_Bijection, Zenon
  <2>. QED
    BY <2>2, <2>5, StoredIs DEF Finder!Cardinality, Cardinality
<1>. QED
  BY <1>2, <1>3, <1>4, <1>5 DEF TablesSound, Finder!AllFound

LEMMA TablesSteps == [Next]_vars => [Finder!Next]_(Finder!vars) /\ UNCHANGED view
  BY DEF Next, Settings, Blocks, Lookups, Caching, Streams, Directories, vars,
         tableVars, Finder!vars

\* Whatever was added, removed, merged and rehashed, the tracker and the
\* registry are the set of the blocks that are owned (trk_add, trk_del,
\* big_put, big_find and moty_track_free_all, src/c/nn/alloc.c), for any set of
\* pointers, hash and capacities.
THEOREM TablesAreSets == Spec => SetSpec
<1>1. Init => TablesInv /\ Finder!Abstract!Init
  BY TablesInit, StoredIs DEF Init, Finder!Init, Finder!Abstract!Init
<1>2. TablesInv /\ [Next]_vars => TablesInv' /\ [Finder!Abstract!Next]_<<Finder!Stored, answer>>
  BY TablesSteps, TablesNext
<1>. QED
  BY <1>1, <1>2, PTL DEF Spec, SetSpec, Finder!SetSpec, Finder!Abstract!Spec

\* The tables find what they store and their counters count; in the cache a
\* slot holds the expert it names and a pinned one stays; the layers that are
\* read fit the scratch, the resident ones the budget (src/c/nn/alloc.c,
\* src/c/runtime/moecache.c, src/c/runtime/rt_model_load.h).
THEOREM LibraryConsistent ==
    ASSUME OneThread, RoomyCaches, NoStreamedDraft PROVE Spec => []Consistent
<1>. DEFINE IInv == TablesInv /\ view \in Views
<1>1. Init => IInv
  BY TablesInit DEF Init, Finder!Init
<1>2. IInv /\ [Next]_vars => IInv'
  BY TablesSteps, TablesNext
<1>3. IInv /\ StoresSound => Consistent
  BY TablesConsequences DEF Consistent
<1>. QED
  BY <1>1, <1>2, <1>3, StoreAlways, PTL DEF Spec
=============================================================================
