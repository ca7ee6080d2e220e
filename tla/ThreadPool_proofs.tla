-------------------------- MODULE ThreadPool_proofs --------------------------
(***************************************************************************)
(* Proofs about ThreadPool, for every number of workers, every region      *)
(* length, every width of the generation counter, and any sequence of      *)
(* team sizes that takes back nobody (Readmission = FALSE).                *)
(***************************************************************************)
EXTENDS ThreadPool, FiniteSetTheorems, TLAPS

-----------------------------------------------------------------------------
(***************************************************************************)
(* The inductive invariant.                                                *)
(***************************************************************************)
Busy(w) == pc[w] \in SharePC \cup {"count"}

\* What the caller's position says of its own variables.
CallerInv ==
    /\ pc[0] = "start" => started + 1 < want
    /\ pc[0] \in {"start", "job", "team"} => TakesBackNobody
    /\ pc[0] \in {"job", "team", "next", "done", "gen"} \/ Published
           => 2 <= want /\ want <= started + 1
    /\ pc[0] \in {"next", "done", "gen"} \/ Published => team = want
    /\ pc[0] = "gen" => done = 0
    /\ pc[0] = "wake" => wk < want
    /\ pc[0] = "stop" => wk <= started
    /\ quit = 1 <=> pc[0] \in {"stop", "reap"}
    /\ fresh \subseteq 1 .. started
    /\ Published => fresh = {}

\* A worker exists up to `started`; it is in run_share only for the
\* published generation, as a member of its team.
WorkerInv ==
    \A w \in Workers :
        /\ w > started => pc[w] = "off"
        /\ w <= started /\ quit = 0 => pc[w] # "off"
        /\ pc[w] \in {"admit", "admit2"} => got[w] # seen[w]
        /\ Busy(w) => Published /\ w < team /\ seen[w] = gen /\ got[w] = gen

\* Between regions every member of the last team, and every new worker, has
\* dealt with the last generation and has not loaded another.
Settled ==
    ~Published => \A w \in 1 .. started :
                      w < team \/ w \in fresh => seen[w] = gen /\ got[w] = gen

\* In a region a member knows the old generation or the new one, and P.done
\* counts the members that are through with the new one.
Finished == {w \in 1 .. team - 1 : seen[w] = gen /\ ~Busy(w)}
Counted ==
    Published => /\ \A w \in 1 .. team - 1 : got[w] \in {seen[w], gen}
                 /\ done = Cardinality(Finished)

-----------------------------------------------------------------------------
(***************************************************************************)
(* The accounts: who has run which index of the region in progress.        *)
(***************************************************************************)
\* The share of thread t in a static region; being through with run_share.
Own(t)    == ParRange(job.n, t, team)
RanShare(t) == IF t = 0 THEN pc[0] = "join"
               ELSE seen[t] = gen /\ pc[t] \notin SharePC

\* The region the pool sees is the one moty_par_for was called with.
SameJob ==
    /\ pc[0] \in {"team", "next", "done", "gen"} \/ Published => job = arg
    /\ pc[0] \in {"done", "gen"} => next = 0
    /\ pc[0] \in {"inline", "start", "job", "team", "next", "done", "gen"}
          \/ Published => arg.n >= 1

NotBegun == pc[0] \in {"inline", "start", "job", "team", "next", "done", "gen"}
                => \A i \in Indices : runs[i] = 0

Complete == pc[0] \in {"idle", "return", "stop", "reap"}
                => \A i \in 0 .. arg.n - 1 : runs[i] = 1

\* A static region: every member runs its own range, in one piece.
StaticShares ==
    Published /\ job.chunk = 0 => \A t \in 0 .. team - 1 :
        /\ pc[t] \notin {"grab", "chunk"}
        /\ pc[t] = "range" => part[t] = Own(t) /\ Own(t).lo < Own(t).hi
        /\ \A i \in Indices : i \in Own(t).lo .. Own(t).hi - 1
                  => runs[i] = IF RanShare(t) THEN 1 ELSE 0

\* A dynamic region: P.next separates what has been handed out, and what has
\* been handed out has run or is held by exactly one thread.
Held(t, i) == pc[t] = "chunk" /\ part[t].lo <= i /\ i < part[t].hi
ChunkShares ==
    Published /\ job.chunk > 0 =>
        /\ \A t \in 0 .. team - 1 :
              /\ pc[t] # "range"
              /\ pc[t] \in {"grab", "chunk"} => part[t].n = job.n
              /\ pc[t] = "chunk" => /\ part[t].lo < part[t].hi
                                    /\ part[t].hi <= next /\ part[t].hi <= job.n
              /\ RanShare(t) => next >= job.n
        /\ \A t, u \in 0 .. team - 1 : \A i \in Indices :
              Held(t, i) /\ Held(u, i) => t = u
        /\ \A i \in 0 .. job.n - 1 :
              runs[i] = IF i < next /\ \A t \in 0 .. team - 1 : ~Held(t, i)
                        THEN 1 ELSE 0

Accounted == SameJob /\ NotBegun /\ Complete /\ StaticShares /\ ChunkShares

IInv == TypeOK /\ CallerInv /\ WorkerInv /\ Settled /\ Counted /\ Accounted

-----------------------------------------------------------------------------
LEMMA ParRangeType ==
    ASSUME NEW n \in 0 .. MaxN, NEW t \in Nat, NEW nt \in Nat, nt > 0
    PROVE  ParRange(n, t, nt) \in [lo : Nat, hi : Nat, n : 0 .. MaxN]
<1>1. n \div nt \in Nat /\ n % nt \in Nat
  BY PoolAssumption
<1>2. t * (n \div nt) \in Nat
  BY <1>1
<1>. QED
  BY <1>1, <1>2 DEF ParRange

-----------------------------------------------------------------------------
(***************************************************************************)
(* The static split of par_range: the ranges of the team lie inside        *)
(* [0, n), do not overlap, and leave no index out.                         *)
(***************************************************************************)
LEMMA Division ==
    ASSUME NEW n \in Nat, NEW d \in Nat, d > 0
    PROVE  /\ n \div d \in Nat /\ n % d \in Nat
           /\ n = (n \div d) * d + (n % d) /\ n % d < d
  OBVIOUS

LEMMA Times ==
    ASSUME NEW a \in Int, NEW b \in Int, NEW q \in Nat, a <= b
    PROVE  a * q <= b * q /\ a * q \in Int /\ b * q \in Int
<1>1. b * q - a * q = (b - a) * q
  OBVIOUS
<1>2. (b - a) * q >= 0
  OBVIOUS
<1>. QED
  BY <1>1, <1>2

LEMMA ParRangeOrder ==
    ASSUME NEW n \in Nat, NEW nt \in Nat, nt > 0,
           NEW t \in Nat, NEW u \in Nat, t < u
    PROVE  ParRange(n, t, nt).hi <= ParRange(n, u, nt).lo
<1>. DEFINE q == n \div nt
            r == n % nt
<1>1. q \in Nat /\ r \in Nat
  BY Division
<1>. HIDE DEF q, r
<1>2. (t + 1) * q <= u * q /\ (t + 1) * q = t * q + q /\ t * q \in Int /\ u * q \in Int
  BY <1>1, Times
<1>3. /\ ParRange(n, t, nt).hi = t * q + (IF t < r THEN t ELSE r) + q + (IF t < r THEN 1 ELSE 0)
      /\ ParRange(n, u, nt).lo = u * q + (IF u < r THEN u ELSE r)
  BY DEF ParRange, q, r
<1>. QED
  BY <1>1, <1>2, <1>3

LEMMA ParRangeWithin ==
    ASSUME NEW n \in Nat, NEW nt \in Nat, nt > 0, NEW t \in Nat, t < nt
    PROVE  ParRange(n, t, nt).hi <= n
<1>. DEFINE q == n \div nt
            r == n % nt
<1>1. q \in Nat /\ r \in Nat /\ n = q * nt + r /\ r < nt
  BY Division
<1>. HIDE DEF q, r
<1>2. (t + 1) * q <= nt * q /\ (t + 1) * q = t * q + q /\ t * q \in Int /\ nt * q \in Int /\ q * nt = nt * q
  BY <1>1, Times
<1>3. ParRange(n, t, nt).hi = t * q + (IF t < r THEN t ELSE r) + q + (IF t < r THEN 1 ELSE 0)
  BY DEF ParRange, q, r
<1>. QED
  BY <1>1, <1>2, <1>3

LEMMA ParRangeCover ==
    ASSUME NEW n \in Nat, NEW nt \in Nat, nt > 0, NEW i \in 0 .. n - 1
    PROVE  \E t \in 0 .. nt - 1 : 
              i \in ParRange(n, t, nt).lo .. ParRange(n, t, nt).hi - 1
<1>. DEFINE q == n \div nt
            r == n % nt
<1>1. q \in Nat /\ r \in Nat /\ n = q * nt + r /\ r < nt
  BY Division
<1>2. \A t : /\ ParRange(n, t, nt).lo = t * q + (IF t < r THEN t ELSE r)
             /\ ParRange(n, t, nt).hi = t * q + (IF t < r THEN t ELSE r) + q + (IF t < r THEN 1 ELSE 0)
  BY DEF ParRange
<1>. HIDE DEF q, r
<1>3. CASE i < r * (q + 1)
  <2>. DEFINE t == i \div (q + 1)
              s == i % (q + 1)
  <2>1. t \in Nat /\ s \in Nat /\ i = t * (q + 1) + s /\ s < q + 1
    <3>. DEFINE d == q + 1
    <3>1. d \in Nat /\ d > 0 /\ i \in Nat
      BY <1>1
    <3>. HIDE DEF d
    <3>2. i \div d \in Nat /\ i % d \in Nat /\ i = (i \div d) * d + (i % d) /\ i % d < d
      BY <3>1, Division
    <3>. QED
      BY <3>2 DEF d
  <2>. HIDE DEF t, s
  <2>2. t < r
    <3>1. SUFFICES ASSUME r <= t PROVE FALSE
      BY <1>1, <2>1
    <3>2. r * (q + 1) <= t * (q + 1)
      BY <1>1, <2>1, <3>1, Times
    <3>. QED
      BY <1>1, <1>3, <2>1, <3>2
  <2>3. i = t * q + t + s
    BY <1>1, <2>1
  <2>4. t * q \in Int
    BY <1>1, <2>1
  <2>5. t \in 0 .. nt - 1 /\ t * q + t <= i /\ i < t * q + t + q + 1
    BY <1>1, <2>1, <2>2, <2>3, <2>4
  <2>6. i \in ParRange(n, t, nt).lo .. ParRange(n, t, nt).hi - 1
    BY <1>1, <1>2, <2>1, <2>2, <2>4, <2>5
  <2>. QED
    BY <2>5, <2>6
<1>4. CASE r * (q + 1) <= i
  <2>0. r * (q + 1) = r * q + r /\ r * q \in Nat
    BY <1>1
  <2>a. q > 0
    BY <1>1, <1>4, <2>0
  <2>. DEFINE k == i - r * (q + 1)
              m == k \div q
              s == k % q
              t == r + m
  <2>b. k \in Nat
    BY <1>1, <1>4, <2>0
  <2>. HIDE DEF k
  <2>1. m \in Nat /\ s \in Nat /\ k = m * q + s /\ s < q
    BY <1>1, <2>a, <2>b, Division
  <2>. HIDE DEF m, s
  <2>2. t < nt
    <3>1. SUFFICES ASSUME nt - r <= m PROVE FALSE
      BY <1>1, <2>1
    <3>2. (nt - r) * q <= m * q
      BY <1>1, <2>1, <3>1, Times
    <3>3. (nt - r) * q = q * nt - r * q
      BY <1>1
    <3>. QED
      BY <1>1, <2>0, <2>1, <2>b, <3>2, <3>3 DEF k
  <2>3. t * q = r * q + m * q /\ m * q \in Int
    BY <1>1, <2>1
  <2>4. i = t * q + r + s /\ t * q \in Int
    BY <1>1, <2>0, <2>1, <2>3 DEF k
  <2>5. t \in 0 .. nt - 1 /\ ~ (t < r) /\ t \in Nat
    BY <1>1, <2>1, <2>2
  <2>. HIDE DEF t
  <2>6. i \in ParRange(n, t, nt).lo .. ParRange(n, t, nt).hi - 1
    BY <1>1, <1>2, <2>1, <2>4, <2>5
  <2>. QED
    BY <2>5, <2>6
<1>. QED
  BY <1>1, <1>3, <1>4

-----------------------------------------------------------------------------
LEMMA NextGen ==
    ASSUME NEW g \in Gens
    PROVE  (g + 1) % GenMod \in Gens /\ (g + 1) % GenMod # g
<1>. USE PoolAssumption DEF Gens
<1>1. CASE g + 1 < GenMod
  BY <1>1
<1>2. CASE g + 1 = GenMod
  BY <1>2
<1>. QED
  BY <1>1, <1>2

LEMMA FinishedFinite ==
    ASSUME TypeOK
    PROVE  IsFiniteSet(1 .. team - 1) /\ IsFiniteSet(Finished)
           /\ Cardinality(Finished) \in Nat
<1>1. IsFiniteSet(1 .. team - 1)
  BY FS_Interval DEF TypeOK
<1>2. Finished \subseteq 1 .. team - 1
  BY DEF Finished
<1>. QED
  BY <1>1, <1>2, FS_Subset, FS_CardinalityType

LEMMA AllFinished ==
    ASSUME TypeOK, team >= 2, Cardinality(Finished) >= team - 1
    PROVE  Finished = 1 .. team - 1
<1>1. Cardinality(1 .. team - 1) = team - 1
  BY FS_Interval DEF TypeOK
<1>2. Finished \subseteq 1 .. team - 1
  BY DEF Finished
<1>3. /\ Cardinality(Finished) <= Cardinality(1 .. team - 1)
      /\ Cardinality(1 .. team - 1) = Cardinality(Finished)
           => 1 .. team - 1 = Finished
  BY <1>2, FinishedFinite, FS_Subset
<1>4. Cardinality(Finished) = team - 1
  BY <1>1, <1>3, FinishedFinite DEF TypeOK
<1>. QED
  BY <1>1, <1>3, <1>4

LEMMA InitIInv == Init => IInv
<1>. USE PoolAssumption
<1>. SUFFICES ASSUME Init PROVE IInv
  OBVIOUS
<1>1. TypeOK
  <2>1. /\ pc \in [Tids -> CallerPC \cup SharePC \cup WorkerPC]
        /\ pc[0] \in CallerPC
        /\ \A w \in Workers : pc[w] \in WorkerPC
    BY DEF Init, Tids, Workers, CallerPC, WorkerPC
  <2>2. /\ job \in Jobs /\ arg \in Jobs
        /\ part \in [Tids -> [lo : Nat, hi : Nat, n : 0 .. MaxN]]
    BY DEF Init, Jobs, NoJob, NoPart
  <2>3. /\ want \in 1 .. MaxTeam /\ started \in 0 .. MaxTeam - 1
        /\ quit \in {0, 1} /\ gen \in Gens /\ team \in 0 .. MaxTeam
        /\ next \in Nat /\ done \in Nat /\ wk \in 1 .. MaxTeam
        /\ fresh \subseteq Workers
    BY DEF Init, Gens
  <2>4. /\ seen \in [Workers -> Gens] /\ got \in [Workers -> Gens]
        /\ runs \in [Indices -> Nat]
    BY DEF Init, Gens
  <2>. QED
    BY <2>1, <2>2, <2>3, <2>4 DEF TypeOK
<1>2. CallerInv
  BY DEF Init, CallerInv, Published, SharePC, Tids
<1>3. WorkerInv
  BY DEF Init, WorkerInv, Busy, Workers, Tids, SharePC
<1>4. Settled /\ Counted
  BY DEF Init, Settled, Counted, Published, SharePC, Tids
<1>5. Accounted
  BY DEF Init, Accounted, SameJob, NotBegun, Complete, StaticShares,
         ChunkShares, Published, SharePC, Tids, NoJob
<1>. QED
  BY <1>1, <1>2, <1>3, <1>4, <1>5 DEF IInv

-----------------------------------------------------------------------------
(***************************************************************************)
(* Type correctness.  It leans on CallerInv: the loop variables of the     *)
(* signalling loops stay in range, and run_share divides by a team of at   *)
(* least two.                                                              *)
(***************************************************************************)
\* A step that moves one thread.
LEMMA GoType ==
    ASSUME TypeOK, NEW t \in Tids, NEW l, Go(t, l),
           IF t = 0 THEN l \in CallerPC \cup SharePC
                    ELSE l \in WorkerPC \cup SharePC
    PROVE  /\ pc' \in [Tids -> CallerPC \cup SharePC \cup WorkerPC]
           /\ pc'[0] \in CallerPC \cup SharePC
           /\ \A w \in Workers : pc'[w] \in WorkerPC \cup SharePC
  BY PoolAssumption DEF TypeOK, Go, Tids, Workers

\* A step that moves the caller and a worker.
LEMMA GoBoth ==
    ASSUME TypeOK, NEW w \in Workers, NEW m \in WorkerPC \cup SharePC,
           NEW l \in CallerPC \cup SharePC,
           pc' = [pc EXCEPT ![w] = m, ![0] = l]
    PROVE  /\ pc' \in [Tids -> CallerPC \cup SharePC \cup WorkerPC]
           /\ pc'[0] = l /\ pc'[w] = m
           /\ \A v \in Workers : pc'[v] = IF v = w THEN m ELSE pc[v]
<1>1. pc' = [t \in Tids |-> IF t = 0 THEN l ELSE IF t = w THEN m ELSE pc[t]]
  BY DEF TypeOK, Tids, Workers
<1>2. 0 \in Tids /\ w \in Tids /\ Workers \subseteq Tids /\ 0 \notin Workers
  BY PoolAssumption DEF Tids, Workers
<1>. QED
  BY <1>1, <1>2 DEF TypeOK

\* Lock, signal, unlock moves the caller and may wake the worker.
LEMMA SignalType ==
    ASSUME TypeOK, NEW w \in Workers, NEW l \in CallerPC \cup SharePC,
           Signal(w, l)
    PROVE  /\ pc' \in [Tids -> CallerPC \cup SharePC \cup WorkerPC]
           /\ pc'[0] \in CallerPC \cup SharePC
           /\ \A v \in Workers : pc'[v] \in WorkerPC \cup SharePC
<1>. DEFINE m == IF pc[w] = "wait" THEN "woken" ELSE pc[w]
<1>1. m \in WorkerPC \cup SharePC
  BY DEF TypeOK, WorkerPC
<1>2. pc' = [pc EXCEPT ![w] = m, ![0] = l]
  BY DEF Signal
<1>. HIDE DEF m
<1>3. /\ pc' \in [Tids -> CallerPC \cup SharePC \cup WorkerPC]
      /\ pc'[0] = l
      /\ \A v \in Workers : pc'[v] = IF v = w THEN m ELSE pc[v]
  BY <1>1, <1>2, GoBoth
<1>. QED
  BY <1>1, <1>3 DEF TypeOK

\* The caller's steps outside run_share.
CallerAlone == \/ \E k \in 1 .. MaxTeam + 1 : SetThreads(k)
               \/ \E n \in 1 .. MaxN, c \in Chunks : ParFor(n, c)
               \/ RunInline \/ ReturnInline \/ StartWorker \/ StartFails
               \/ SetJob \/ SetTeam \/ ResetNext \/ ResetDone \/ Publish
               \/ WakeNext \/ Join \/ Shutdown \/ StopNext \/ Reap

LEMMA CallerTypes ==
    ASSUME TypeOK, CallerInv, CallerAlone
    PROVE  TypeOK'
<1>. USE PoolAssumption
<1>0. {"idle", "inline", "return", "start", "job", "team", "next", "done",
       "gen", "wake", "join", "stop", "reap"} \subseteq CallerPC
      /\ "share" \in SharePC /\ "poll" \in WorkerPC /\ "off" \in WorkerPC
  BY DEF CallerPC, SharePC, WorkerPC
<1>1. ASSUME NEW k \in 1 .. MaxTeam + 1, SetThreads(k) PROVE TypeOK'
  BY <1>1 DEF TypeOK, SetThreads
<1>2. ASSUME NEW n \in 1 .. MaxN, NEW c \in Chunks, ParFor(n, c)
      PROVE  TypeOK'
  BY <1>0, <1>2, GoType DEF TypeOK, ParFor, Jobs, Indices, Tids
<1>3. CASE RunInline
  <2>1. runs' \in [Indices -> Nat]
    BY <1>3 DEF RunInline, TypeOK
  <2>. QED
    BY <1>0, <1>3, <2>1, GoType, SMTT(60) DEF TypeOK, RunInline, Tids
<1>4. CASE ReturnInline
  BY <1>0, <1>4, GoType, SMTT(60) DEF TypeOK, ReturnInline, Tids
<1>5. CASE StartWorker
  <2>. DEFINE w == started + 1
              l == IF w + 1 = want THEN "job" ELSE "start"
  <2>1. w \in Workers /\ l \in CallerPC
    BY <1>0, <1>5 DEF TypeOK, StartWorker, CallerInv, Workers
  <2>2. /\ pc' = [pc EXCEPT ![w] = "poll", ![0] = l]
        /\ seen' = [seen EXCEPT ![w] = gen] /\ got' = [got EXCEPT ![w] = gen]
        /\ started' = w /\ fresh' = fresh \cup {w}
        /\ UNCHANGED <<want, quit, gen, team, job, next, done, part, wk,
                       arg, runs>>
    BY <1>5 DEF StartWorker
  <2>. HIDE DEF w, l
  <2>a. /\ pc' \in [Tids -> CallerPC \cup SharePC \cup WorkerPC]
        /\ pc'[0] = l
        /\ \A v \in Workers : pc'[v] = IF v = w THEN "poll" ELSE pc[v]
    <3>1. "poll" \in WorkerPC \cup SharePC /\ l \in CallerPC \cup SharePC
      BY <1>0, <2>1
    <3>. QED
      BY <2>1, <2>2, <3>1, GoBoth
  <2>3. /\ pc'[0] \in CallerPC \cup SharePC
        /\ \A v \in Workers : pc'[v] \in WorkerPC \cup SharePC
    BY <1>0, <2>1, <2>a DEF TypeOK
  <2>4. started' \in 0 .. MaxTeam - 1 /\ fresh' \subseteq Workers
    BY <2>1, <2>2 DEF TypeOK, Workers
  <2>. QED
    BY <2>2, <2>a, <2>3, <2>4 DEF TypeOK
<1>6. CASE StartFails
  BY <1>0, <1>6, GoType, SMTT(60) DEF TypeOK, StartFails, NoJob, Jobs, Tids
<1>7. CASE SetJob
  BY <1>0, <1>7, GoType, SMTT(60) DEF TypeOK, SetJob, Tids
<1>8. CASE SetTeam
  BY <1>0, <1>8, GoType, SMTT(60) DEF TypeOK, SetTeam, Tids
<1>9. CASE ResetNext
  BY <1>0, <1>9, GoType, SMTT(60) DEF TypeOK, ResetNext, Tids
<1>10. CASE ResetDone
  BY <1>0, <1>10, GoType, SMTT(60) DEF TypeOK, ResetDone, Tids
<1>11. CASE Publish
  <2>1. gen' \in Gens
    BY <1>11 DEF TypeOK, Publish, Gens
  <2>. QED
    BY <1>0, <1>11, <2>1, GoType, SMTT(60) DEF TypeOK, Publish, Tids
<1>12. CASE WakeNext
  <2>1. wk \in Workers /\ wk + 1 \in 1 .. MaxTeam
    BY <1>12 DEF WakeNext, CallerInv, TypeOK, Workers
  <2>. DEFINE l == IF wk + 1 < want THEN "wake" ELSE "share"
  <2>2. l \in CallerPC \cup SharePC
    BY <1>0
  <2>3. Signal(wk, l) \/ Go(0, l)
    BY <1>12 DEF WakeNext
  <2>. HIDE DEF l
  <2>4. /\ pc' \in [Tids -> CallerPC \cup SharePC \cup WorkerPC]
        /\ pc'[0] \in CallerPC \cup SharePC
        /\ \A v \in Workers : pc'[v] \in WorkerPC \cup SharePC
    BY <2>1, <2>2, <2>3, GoType, SignalType DEF Tids
  <2>. QED
    BY <1>12, <2>1, <2>4 DEF TypeOK, WakeNext
<1>13. CASE Join
  BY <1>0, <1>13, GoType, SMTT(60) DEF TypeOK, Join, Tids
<1>14. CASE Shutdown
  BY <1>0, <1>14, GoType, SMTT(60) DEF TypeOK, Shutdown, Tids
<1>15. CASE StopNext
  <2>1. wk \in Workers /\ wk + 1 \in 1 .. MaxTeam
    BY <1>15 DEF StopNext, CallerInv, TypeOK, Workers
  <2>. QED
    BY <1>0, <1>15, <2>1, SignalType DEF TypeOK, StopNext, Tids
<1>16. CASE Reap
  BY <1>0, <1>16, GoType, SMTT(60) DEF TypeOK, Reap, Tids, Gens
<1>. QED
  BY <1>1, <1>2, <1>3, <1>4, <1>5, <1>6, <1>7, <1>8, <1>9, <1>10, <1>11,
     <1>12, <1>13, <1>14, <1>15, <1>16 DEF CallerAlone
LEMMA JobType ==
    ASSUME NEW j \in Jobs
    PROVE  j.n \in 0 .. MaxN /\ j.chunk \in Nat
<1>. DEFINE C == Chunks \cup {0}
<1>1. C \subseteq Nat
  BY PoolAssumption
<1>2. j \in [n : 0 .. MaxN, chunk : C]
  BY DEF Jobs
<1>. HIDE DEF C
<1>3. j.n \in 0 .. MaxN /\ j.chunk \in C
  BY <1>2
<1>. QED
  BY <1>1, <1>3

LEMMA ShareTypes ==
    ASSUME TypeOK, CallerInv, WorkerInv, NEW t \in Tids, RunShare(t)
    PROVE  TypeOK'
<1>. USE PoolAssumption
<1>0. /\ SharePC = {"share", "range", "grab", "chunk"}
      /\ AfterShare(t) \in IF t = 0 THEN CallerPC ELSE WorkerPC
      /\ t # 0 => t \in Workers
  BY DEF SharePC, AfterShare, CallerPC, WorkerPC, Tids, Workers
<1>1. CASE EnterShare(t)
  <2>1. team \in Nat /\ team > 0
    BY <1>0, <1>1 DEF EnterShare, CallerInv, WorkerInv, Busy, Published, TypeOK
  <2>2. ParRange(job.n, t, team) \in [lo : Nat, hi : Nat, n : 0 .. MaxN]
    BY <2>1, ParRangeType DEF TypeOK, Jobs, Tids
  <2>3. [NoPart EXCEPT !.n = job.n] \in [lo : Nat, hi : Nat, n : 0 .. MaxN]
    BY DEF NoPart, TypeOK, Jobs
  <2>. DEFINE l == IF job.chunk > 0 THEN "grab"
                   ELSE IF ParRange(job.n, t, team).lo < ParRange(job.n, t, team).hi
                        THEN "range" ELSE AfterShare(t)
  <2>4. Go(t, l)
    BY <1>1 DEF EnterShare
  <2>5. IF t = 0 THEN l \in CallerPC \cup SharePC ELSE l \in WorkerPC \cup SharePC
    BY <1>0
  <2>. HIDE DEF l
  <2>6. part' \in [Tids -> [lo : Nat, hi : Nat, n : 0 .. MaxN]]
    BY <1>1, <2>2, <2>3 DEF TypeOK, EnterShare
  <2>. QED
    BY <1>1, <2>4, <2>5, <2>6, GoType DEF TypeOK, EnterShare
<1>2. CASE Grab(t)
  <2>1. job.chunk \in Nat /\ next + job.chunk \in Nat /\ part[t].n \in 0 .. MaxN
    <3>2. job.chunk \in Nat
      BY JobType DEF TypeOK
    <3>3. part[t] \in [lo : Nat, hi : Nat, n : 0 .. MaxN]
      BY DEF TypeOK
    <3>. QED
      BY <3>2, <3>3 DEF TypeOK
  <2>. DEFINE l == IF next >= part[t].n THEN AfterShare(t) ELSE "chunk"
              hi == next + job.chunk
              p == IF next >= part[t].n THEN NoPart
                   ELSE [lo |-> next, hi |-> IF hi < part[t].n THEN hi ELSE part[t].n,
                         n |-> part[t].n]
  <2>2. Go(t, l) /\ part' = [part EXCEPT ![t] = p] /\ next' = hi
    BY <1>2 DEF Grab
  <2>3. IF t = 0 THEN l \in CallerPC \cup SharePC ELSE l \in WorkerPC \cup SharePC
    BY <1>0
  <2>4. p \in [lo : Nat, hi : Nat, n : 0 .. MaxN]
    <3>1. next \in Nat /\ hi \in Nat /\ part[t].n \in Nat
      BY <2>1 DEF TypeOK
    <3>2. NoPart \in [lo : Nat, hi : Nat, n : 0 .. MaxN]
      BY DEF NoPart
    <3>3. (IF hi < part[t].n THEN hi ELSE part[t].n) \in Nat
      BY <3>1
    <3>. HIDE DEF hi
    <3>. QED
      BY <2>1, <3>1, <3>2, <3>3
  <2>5. hi \in Nat
    BY <2>1
  <2>. HIDE DEF l, p, hi
  <2>6. part' \in [Tids -> [lo : Nat, hi : Nat, n : 0 .. MaxN]]
    BY <2>2, <2>4 DEF TypeOK
  <2>. QED
    BY <1>2, <2>2, <2>3, <2>5, <2>6, GoType DEF TypeOK, Grab
<1>3. CASE RunRange(t)
  <2>1. runs' \in [Indices -> Nat]
    BY <1>3 DEF RunRange, Ran, TypeOK
  <2>2. part' \in [Tids -> [lo : Nat, hi : Nat, n : 0 .. MaxN]]
    BY <1>3 DEF RunRange, TypeOK, NoPart
  <2>. QED
    BY <1>0, <1>3, <2>1, <2>2, GoType DEF TypeOK, RunRange
<1>4. CASE RunChunk(t)
  <2>1. runs' \in [Indices -> Nat]
    BY <1>4 DEF RunChunk, Ran, TypeOK
  <2>2. [NoPart EXCEPT !.n = part[t].n] \in [lo : Nat, hi : Nat, n : 0 .. MaxN]
    BY DEF TypeOK, NoPart
  <2>3. part' \in [Tids -> [lo : Nat, hi : Nat, n : 0 .. MaxN]]
    BY <1>4, <2>2 DEF RunChunk, TypeOK
  <2>. QED
    BY <1>0, <1>4, <2>1, <2>3, GoType DEF TypeOK, RunChunk
<1>. QED
  BY <1>1, <1>2, <1>3, <1>4 DEF RunShare

LEMMA WorkerTypes ==
    ASSUME TypeOK, NEW w \in Workers,
           \/ Poll(w) \/ Spin(w) \/ QuitOrGo(w) \/ Admit(w) \/ FallAsleep(w)
           \/ SleepQuit(w) \/ SleepLoad(w) \/ SleepAdmit(w) \/ CondWait(w)
           \/ SpuriousWakeup(w) \/ CountDone(w)
    PROVE  TypeOK'
<1>0. /\ {"off", "poll", "spin", "got", "admit", "lock", "quit2", "load",
          "admit2", "towait", "wait", "woken", "count"} \subseteq WorkerPC
      /\ "share" \in SharePC
      /\ w \in Tids /\ w # 0
  BY PoolAssumption DEF WorkerPC, LockPC, SharePC, Tids, Workers
<1>1. PICK l \in WorkerPC \cup SharePC : Go(w, l)
  BY <1>0 DEF Poll, Spin, QuitOrGo, Admit, FallAsleep, SleepQuit, SleepLoad,
              SleepAdmit, CondWait, SpuriousWakeup, CountDone
<1>2. /\ pc' \in [Tids -> CallerPC \cup SharePC \cup WorkerPC]
      /\ pc'[0] \in CallerPC \cup SharePC
      /\ \A v \in Workers : pc'[v] \in WorkerPC \cup SharePC
  BY <1>0, <1>1, GoType
<1>3. /\ seen' \in [Workers -> Gens] /\ got' \in [Workers -> Gens]
      /\ done' \in Nat
  BY DEF TypeOK, WorkerOnly, Poll, Spin, QuitOrGo, Admit, FallAsleep,
         SleepQuit, SleepLoad, SleepAdmit, CondWait, SpuriousWakeup, CountDone
<1>4. WorkerOnly
  BY DEF Poll, Spin, QuitOrGo, Admit, FallAsleep, SleepQuit, SleepLoad,
         SleepAdmit, CondWait, SpuriousWakeup, CountDone
<1>. QED
  BY <1>2, <1>3, <1>4 DEF TypeOK, WorkerOnly
-----------------------------------------------------------------------------
(***************************************************************************)
(* The rest of the invariant.  Steps that touch neither the workers, nor   *)
(* P.gen, P.team, P.done or P.quit need only the definitions.              *)
(***************************************************************************)
\* A step of the caller alone leaves the workers where they are.
LEMMA GoCaller ==
    ASSUME TypeOK, NEW l, Go(0, l)
    PROVE  pc'[0] = l /\ \A w \in Workers : pc'[w] = pc[w]
  BY PoolAssumption DEF TypeOK, Go, Tids, Workers

QuietFrame == /\ \A w \in Workers : pc'[w] = pc[w]
              /\ UNCHANGED <<quit, started, gen, team, seen, got, fresh>>

LEMMA Quiet ==
    ASSUME IInv, ~Published, ~Published', QuietFrame
    PROVE  WorkerInv' /\ Settled' /\ Counted'
<1>. USE DEF IInv, QuietFrame
<1>1. WorkerInv'
  BY DEF WorkerInv, Busy
<1>2. Settled' /\ Counted'
  BY DEF Settled, Counted
<1>. QED
  BY <1>1, <1>2

LEMMA PlainSteps ==
    ASSUME IInv, Readmission = FALSE,
           \/ \E k \in 1 .. MaxTeam + 1 : SetThreads(k)
           \/ \E n \in 1 .. MaxN, c \in Chunks : ParFor(n, c)
           \/ RunInline \/ ReturnInline \/ StartFails \/ SetJob \/ ResetNext
    PROVE  CallerInv' /\ WorkerInv' /\ Settled' /\ Counted'
<1>. USE PoolAssumption DEF IInv
<1>1. ASSUME NEW k \in 1 .. MaxTeam + 1, SetThreads(k)
      PROVE  CallerInv' /\ ~Published /\ ~Published' /\ QuietFrame
  BY <1>1 DEF SetThreads, CallerInv, QuietFrame, Published, SharePC
<1>2. ASSUME NEW n \in 1 .. MaxN, NEW c \in Chunks, ParFor(n, c)
      PROVE  CallerInv' /\ ~Published /\ ~Published' /\ QuietFrame
  <2>. DEFINE l == IF want = 1 THEN "inline"
                   ELSE IF want > started + 1 THEN "start" ELSE "job"
  <2>1. pc[0] = "idle" /\ pc'[0] = l /\ \A w \in Workers : pc'[w] = pc[w]
    BY <1>2, GoCaller DEF ParFor
  <2>2. want = 1 \/ TakesBackNobody
    BY <1>2 DEF ParFor
  <2>3. CallerInv'
    BY <1>2, <2>1, <2>2 DEF ParFor, TypeOK, CallerInv, TakesBackNobody, Published, SharePC
  <2>. QED
    BY <1>2, <2>1, <2>3 DEF ParFor, QuietFrame, Published, SharePC
<1>3. CASE RunInline
  <2>1. pc[0] = "inline" /\ pc'[0] = "return" /\ \A w \in Workers : pc'[w] = pc[w]
    BY <1>3, GoCaller DEF RunInline
  <2>. QED
    BY <1>3, <2>1, Quiet DEF RunInline, CallerInv, QuietFrame, Published, SharePC
<1>4. CASE ReturnInline
  <2>1. pc[0] = "return" /\ pc'[0] = "idle" /\ \A w \in Workers : pc'[w] = pc[w]
    BY <1>4, GoCaller DEF ReturnInline
  <2>. QED
    BY <1>4, <2>1, Quiet DEF ReturnInline, CallerInv, QuietFrame, Published, SharePC
<1>5. CASE StartFails
  <2>1. pc[0] = "start" /\ pc'[0] = "idle" /\ \A w \in Workers : pc'[w] = pc[w]
    BY <1>5, GoCaller DEF StartFails
  <2>. QED
    BY <1>5, <2>1, Quiet DEF StartFails, CallerInv, QuietFrame, Published, SharePC
<1>6. CASE SetJob
  <2>1. pc[0] = "job" /\ pc'[0] = "team" /\ \A w \in Workers : pc'[w] = pc[w]
    BY <1>6, GoCaller DEF SetJob
  <2>. QED
    BY <1>6, <2>1, Quiet DEF SetJob, CallerInv, TakesBackNobody, QuietFrame, Published, SharePC
<1>7. CASE ResetNext
  <2>1. pc[0] = "next" /\ pc'[0] = "done" /\ \A w \in Workers : pc'[w] = pc[w]
    BY <1>7, GoCaller DEF ResetNext
  <2>. QED
    BY <1>7, <2>1, Quiet DEF ResetNext, CallerInv, QuietFrame, Published, SharePC
<1>. QED
  BY <1>1, <1>2, <1>3, <1>4, <1>5, <1>6, <1>7, Quiet
\* Creating a worker: it is fresh, and settled from the start.
LEMMA StartStep ==
    ASSUME IInv, StartWorker
    PROVE  CallerInv' /\ WorkerInv' /\ Settled' /\ Counted'
<1>. USE PoolAssumption DEF IInv
<1>. DEFINE w == started + 1
            l == IF w + 1 = want THEN "job" ELSE "start"
<1>1. w \in Workers /\ pc[0] = "start" /\ l \in {"job", "start"}
  BY DEF StartWorker, CallerInv, TypeOK, Workers
<1>2. /\ pc' = [pc EXCEPT ![w] = "poll", ![0] = l]
      /\ seen' = [seen EXCEPT ![w] = gen] /\ got' = [got EXCEPT ![w] = gen]
      /\ started' = w /\ fresh' = fresh \cup {w}
      /\ UNCHANGED <<want, quit, gen, team, job, next, done, part, wk, arg,
                     runs>>
  BY DEF StartWorker
<1>3. /\ pc'[0] = l
      /\ \A v \in Workers : pc'[v] = IF v = w THEN "poll" ELSE pc[v]
  <2>1. "poll" \in WorkerPC \cup SharePC /\ l \in CallerPC \cup SharePC
    BY <1>1 DEF CallerPC, WorkerPC
  <2>. HIDE DEF w, l
  <2>. QED
    BY <1>1, <1>2, <2>1, GoBoth
<1>4. \A v \in Workers : /\ seen'[v] = IF v = w THEN gen ELSE seen[v]
                         /\ got'[v] = IF v = w THEN gen ELSE got[v]
  BY <1>1, <1>2 DEF TypeOK
<1>5. ~Published /\ ~Published'
  BY <1>1, <1>3 DEF Published, SharePC
<1>6. CallerInv'
  BY <1>1, <1>2, <1>3, <1>5 DEF CallerInv, TakesBackNobody, TypeOK, Workers
<1>7. WorkerInv'
  <2>. SUFFICES ASSUME NEW v \in Workers
                PROVE  /\ v > w => pc'[v] = "off"
                       /\ v <= w /\ quit' = 0 => pc'[v] # "off"
                       /\ pc'[v] \in {"admit", "admit2"} => got'[v] # seen'[v]
                       /\ pc'[v] \notin SharePC \cup {"count"}
    BY <1>2 DEF WorkerInv, Busy
  <2>1. CASE v = w
    BY <2>1, <1>3 DEF SharePC
  <2>2. CASE v # w
    <3>1. pc'[v] = pc[v] /\ got'[v] = got[v] /\ seen'[v] = seen[v] /\ quit' = quit
      BY <2>2, <1>2, <1>3, <1>4
    <3>2. v > w => v > started
      BY DEF TypeOK, Workers
    <3>3. v <= w => v <= started
      BY <2>2 DEF TypeOK, Workers
    <3>. QED
      BY <3>1, <3>2, <3>3, <1>5 DEF WorkerInv, Busy
  <2>. QED
    BY <2>1, <2>2
<1>8. Settled' /\ Counted'
  BY <1>1, <1>2, <1>4, <1>5 DEF Settled, Counted, TypeOK, Workers
<1>. QED
  BY <1>6, <1>7, <1>8

\* Storing P.team: the members of the new team were members before or are
\* fresh, so they are settled.
LEMMA TeamStep ==
    ASSUME IInv, SetTeam \/ ResetDone
    PROVE  CallerInv' /\ WorkerInv' /\ Settled' /\ Counted'
<1>. USE PoolAssumption DEF IInv
<1>1. CASE SetTeam
  <2>1. pc[0] = "team" /\ pc'[0] = "next" /\ \A w \in Workers : pc'[w] = pc[w]
    BY <1>1, GoCaller DEF SetTeam
  <2>2. ~Published /\ ~Published'
    BY <2>1 DEF Published, SharePC
  <2>3. CallerInv'
    BY <1>1, <2>1, <2>2 DEF SetTeam, CallerInv
  <2>4. WorkerInv'
    BY <1>1, <2>1, <2>2 DEF SetTeam, WorkerInv, Busy
  <2>5. Settled' /\ Counted'
    BY <1>1, <2>1, <2>2 DEF SetTeam, Settled, Counted, CallerInv, TakesBackNobody
  <2>. QED
    BY <2>3, <2>4, <2>5
<1>2. CASE ResetDone
  <2>1. pc[0] = "done" /\ pc'[0] = "gen" /\ \A w \in Workers : pc'[w] = pc[w]
    BY <1>2, GoCaller DEF ResetDone
  <2>2. CallerInv' /\ ~Published /\ ~Published' /\ QuietFrame
    BY <1>2, <2>1 DEF ResetDone, CallerInv, QuietFrame, Published, SharePC
  <2>. QED
    BY <2>2, Quiet
<1>. QED
  BY <1>1, <1>2

\* Publishing: every member is settled on the old generation, so none is
\* finished with the new one and P.done = 0 counts right.
LEMMA PublishStep ==
    ASSUME IInv, Publish
    PROVE  CallerInv' /\ WorkerInv' /\ Settled' /\ Counted'
<1>. USE PoolAssumption DEF IInv
<1>1. pc[0] = "gen" /\ pc'[0] = "wake" /\ \A w \in Workers : pc'[w] = pc[w]
  BY GoCaller DEF Publish
<1>2. ~Published /\ Published'
  BY <1>1 DEF Published, SharePC
<1>3. gen' \in Gens /\ gen' # gen
  BY NextGen DEF Publish, TypeOK
<1>4. /\ fresh' = {} /\ wk' = 1
      /\ UNCHANGED <<want, started, quit, team, done, seen, got>>
  BY DEF Publish
<1>5. CallerInv'
  <2>1. want = team /\ 2 <= want /\ want <= started + 1 /\ quit # 1
    BY <1>1 DEF CallerInv
  <2>2. 1 < want
    BY <2>1 DEF TypeOK
  <2>. QED
    BY <1>1, <1>2, <1>4, <2>1, <2>2 DEF CallerInv
<1>6. WorkerInv'
  BY <1>1, <1>2, <1>4 DEF WorkerInv, Busy
<1>7. /\ team = want /\ want <= started + 1 /\ done = 0
      /\ \A w \in 1 .. team - 1 : w \in 1 .. started /\ seen[w] = gen /\ got[w] = gen
  BY <1>1, <1>2 DEF CallerInv, Settled, TypeOK
<1>8. Finished' = {}
  BY <1>3, <1>4, <1>7 DEF Finished
<1>9. Counted'
  BY <1>4, <1>7, <1>8, FS_EmptySet DEF Counted
<1>. QED
  BY <1>2, <1>5, <1>6, <1>9 DEF Settled
\* The workers stay where they are, but for one that is woken up.
SameWorkers ==
    /\ \A w \in Workers : pc'[w] = pc[w] \/ (pc[w] = "wait" /\ pc'[w] = "woken")
    /\ UNCHANGED <<quit, started, gen, team, done, seen, got, fresh>>

LEMMA SignalMoves ==
    ASSUME TypeOK, NEW w \in Workers, NEW l \in CallerPC \cup SharePC,
           Signal(w, l) \/ Go(0, l)
    PROVE  /\ pc'[0] = l
           /\ \A v \in Workers :
                 pc'[v] = pc[v] \/ (pc[v] = "wait" /\ pc'[v] = "woken")
<1>1. CASE Go(0, l)
  BY <1>1, GoCaller
<1>2. CASE Signal(w, l)
  <2>. DEFINE m == IF pc[w] = "wait" THEN "woken" ELSE pc[w]
  <2>1. m \in WorkerPC \cup SharePC
    BY DEF TypeOK, WorkerPC
  <2>2. pc' = [pc EXCEPT ![w] = m, ![0] = l]
    BY <1>2 DEF Signal
  <2>3. m = pc[w] \/ (pc[w] = "wait" /\ m = "woken")
    OBVIOUS
  <2>. HIDE DEF m
  <2>4. pc'[0] = l /\ \A v \in Workers : pc'[v] = IF v = w THEN m ELSE pc[v]
    BY <2>1, <2>2, GoBoth
  <2>. QED
    BY <2>3, <2>4
<1>. QED
  BY <1>1, <1>2

LEMMA Undisturbed ==
    ASSUME IInv, Published, Published', SameWorkers
    PROVE  WorkerInv' /\ Settled' /\ Counted'
<1>. USE PoolAssumption DEF IInv, SameWorkers
<1>1. \A w \in Workers : Busy(w)' <=> Busy(w)
  BY DEF Busy, SharePC
<1>2. WorkerInv'
  BY <1>1 DEF WorkerInv
<1>3. 1 .. team - 1 \subseteq Workers
  BY DEF TypeOK, Workers
<1>4. Finished' = Finished
  BY <1>1, <1>3 DEF Finished
<1>. QED
  BY <1>2, <1>4 DEF Settled, Counted

LEMMA WakeStep ==
    ASSUME IInv, WakeNext
    PROVE  CallerInv' /\ WorkerInv' /\ Settled' /\ Counted'
<1>. USE PoolAssumption DEF IInv
<1>. DEFINE l == IF wk + 1 < want THEN "wake" ELSE "share"
<1>1. wk \in Workers /\ pc[0] = "wake"
  BY DEF WakeNext, CallerInv, TypeOK, Workers
<1>2. l \in CallerPC \cup SharePC /\ (Signal(wk, l) \/ Go(0, l))
  BY DEF CallerPC, SharePC, WakeNext
<1>3. l = "share" \/ (l = "wake" /\ wk + 1 < want)
  OBVIOUS
<1>. HIDE DEF l
<1>4. pc'[0] = l /\ SameWorkers
  BY <1>1, <1>2, SignalMoves DEF WakeNext, SameWorkers
<1>5. Published /\ Published'
  BY <1>1, <1>3, <1>4 DEF Published, SharePC
<1>6. CallerInv'
  BY <1>1, <1>3, <1>4, <1>5 DEF CallerInv, WakeNext, SameWorkers
<1>. QED
  BY <1>4, <1>5, <1>6, Undisturbed

\* The barrier: P.done has counted every member.
LEMMA JoinStep ==
    ASSUME IInv, Join
    PROVE  CallerInv' /\ WorkerInv' /\ Settled' /\ Counted'
<1>. USE PoolAssumption DEF IInv
<1>1. /\ pc[0] = "join" /\ pc'[0] = "idle"
      /\ \A w \in Workers : pc'[w] = pc[w]
  BY GoCaller DEF Join
<1>2. Published /\ ~Published'
  BY <1>1 DEF Published, SharePC
<1>3. team = want /\ team >= 2 /\ fresh = {} /\ quit # 1
  BY <1>1, <1>2 DEF CallerInv
<1>4. Finished = 1 .. team - 1
  BY <1>2, <1>3, AllFinished DEF Join, Counted
<1>5. \A w \in 1 .. team - 1 : seen[w] = gen /\ got[w] = gen /\ ~Busy(w)
  BY <1>2, <1>4 DEF Finished, Counted
<1>6. CallerInv'
  BY <1>1, <1>2, <1>3 DEF Join, CallerInv
<1>7. WorkerInv'
  <2>1. \A w \in Workers : ~Busy(w)
    BY <1>5 DEF WorkerInv, TypeOK, Workers
  <2>. QED
    BY <1>1, <2>1 DEF Join, WorkerInv, Busy
<1>8. Settled'
  BY <1>2, <1>3, <1>5 DEF Join, Settled, TypeOK
<1>. QED
  BY <1>2, <1>6, <1>7, <1>8 DEF Counted

LEMMA StopSteps ==
    ASSUME IInv, Shutdown \/ StopNext \/ Reap
    PROVE  CallerInv' /\ WorkerInv' /\ Settled' /\ Counted'
<1>. USE PoolAssumption DEF IInv
<1>1. CASE Shutdown
  <2>1. pc[0] = "idle" /\ pc'[0] = "stop" /\ \A w \in Workers : pc'[w] = pc[w]
    BY <1>1, GoCaller DEF Shutdown
  <2>2. ~Published /\ ~Published'
    BY <2>1 DEF Published, SharePC
  <2>3. CallerInv'
    BY <1>1, <2>1, <2>2 DEF Shutdown, CallerInv, TypeOK
  <2>4. WorkerInv'
    BY <1>1, <2>1, <2>2 DEF Shutdown, WorkerInv, Busy
  <2>. QED
    BY <1>1, <2>2, <2>3, <2>4 DEF Shutdown, Settled, Counted
<1>2. CASE StopNext
  <2>. DEFINE l == IF wk < started THEN "stop" ELSE "reap"
  <2>1. wk \in Workers /\ pc[0] = "stop"
    BY <1>2 DEF StopNext, CallerInv, TypeOK, Workers
  <2>2. l \in CallerPC \cup SharePC /\ Signal(wk, l)
    BY <1>2 DEF StopNext, CallerPC
  <2>3. (l = "stop" /\ wk < started) \/ l = "reap"
    OBVIOUS
  <2>. HIDE DEF l
  <2>4. pc'[0] = l /\ SameWorkers
    BY <1>2, <2>1, <2>2, SignalMoves DEF StopNext, SameWorkers
  <2>5. ~Published /\ ~Published'
    BY <2>1, <2>3, <2>4 DEF Published, SharePC
  <2>6. CallerInv'
    <3>1. l = "stop" => wk + 1 <= started
      BY <2>3 DEF TypeOK
    <3>. QED
      BY <1>2, <2>1, <2>3, <2>4, <2>5, <3>1 DEF StopNext, SameWorkers, CallerInv
  <2>7. WorkerInv'
    BY <2>4, <2>5 DEF SameWorkers, WorkerInv, Busy, SharePC
  <2>. QED
    BY <2>4, <2>5, <2>6, <2>7 DEF SameWorkers, Settled, Counted
<1>3. CASE Reap
  <2>1. pc[0] = "reap" /\ pc'[0] = "idle" /\ \A w \in Workers : pc'[w] = pc[w]
    BY <1>3, GoCaller DEF Reap
  <2>2. ~Published /\ ~Published'
    BY <2>1 DEF Published, SharePC
  <2>3. CallerInv'
    BY <1>3, <2>1, <2>2 DEF Reap, CallerInv
  <2>4. \A w \in Workers : pc'[w] = "off"
    <3>. SUFFICES ASSUME NEW w \in Workers PROVE pc[w] = "off"
      BY <2>1
    <3>1. w \in 1 .. started \/ w > started
      BY DEF TypeOK, Workers
    <3>. QED
      BY <1>3, <3>1 DEF Reap, WorkerInv
  <2>5. WorkerInv' /\ Settled' /\ Counted'
    BY <1>3, <2>2, <2>4 DEF Reap, WorkerInv, Busy, SharePC, Settled, Counted, Workers
  <2>. QED
    BY <2>3, <2>5
<1>. QED
  BY <1>1, <1>2, <1>3

LEMMA GoWorker ==
    ASSUME TypeOK, NEW w \in Workers, NEW l, Go(w, l)
    PROVE  /\ pc'[0] = pc[0] /\ pc'[w] = l
           /\ \A v \in Workers : v # w => pc'[v] = pc[v]
  BY PoolAssumption DEF TypeOK, Go, Tids, Workers

ShareFrame == UNCHANGED <<want, started, quit, gen, team, done, seen, got, wk,
                          fresh>>

LEMMA ShareMove ==
    ASSUME NEW t \in Tids, RunShare(t)
    PROVE  /\ pc[t] \in SharePC
           /\ ShareFrame
           /\ \E l \in SharePC \cup {AfterShare(t)} : Go(t, l)
  BY DEF RunShare, EnterShare, Grab, RunRange, RunChunk, ShareFrame, SharePC

LEMMA ShareSteps ==
    ASSUME IInv, NEW t \in Tids, RunShare(t)
    PROVE  CallerInv' /\ WorkerInv' /\ Settled' /\ Counted'
<1>. USE PoolAssumption DEF IInv
<1>0. PICK l \in SharePC \cup {AfterShare(t)} : Go(t, l)
  BY ShareMove
<1>1. pc[t] \in SharePC /\ ShareFrame
  BY ShareMove
<1>2. CASE t = 0
  <2>1. l \in SharePC \cup {"join"} /\ pc'[0] = l /\ SameWorkers
    BY <1>0, <1>1, <1>2, GoCaller DEF AfterShare, ShareFrame, SameWorkers
  <2>2. Published /\ Published'
    BY <1>1, <1>2, <2>1 DEF Published
  <2>3. pc[0] \notin {"start", "job", "team", "next", "done", "gen", "wake", "stop", "reap"}
        /\ pc'[0] \notin {"start", "job", "team", "next", "done", "gen", "wake", "stop", "reap"}
    BY <1>1, <1>2, <2>1 DEF SharePC
  <2>4. CallerInv'
    BY <1>1, <2>2, <2>3 DEF ShareFrame, CallerInv
  <2>. QED
    BY <2>1, <2>2, <2>4, Undisturbed
<1>3. CASE t # 0
  <2>1. t \in Workers /\ l \in SharePC \cup {"count"}
    BY <1>0, <1>3 DEF AfterShare, Tids, Workers
  <2>2. /\ pc'[0] = pc[0] /\ pc'[t] = l
        /\ \A v \in Workers : v # t => pc'[v] = pc[v]
    BY <1>0, <2>1, GoWorker
  <2>3. \A v \in Workers : Busy(v)' <=> Busy(v)
    BY <1>1, <2>1, <2>2 DEF Busy
  <2>4. Published' <=> Published
    BY <2>2 DEF Published
  <2>5. CallerInv'
    BY <1>1, <2>2, <2>4 DEF CallerInv, ShareFrame, TakesBackNobody
  <2>6. WorkerInv'
    <3>1. pc'[t] \notin {"off", "admit", "admit2"} /\ pc[t] # "off"
      BY <1>1, <2>1, <2>2 DEF SharePC
    <3>. QED
      BY <1>1, <2>1, <2>2, <2>3, <2>4, <3>1 DEF WorkerInv, ShareFrame
  <2>7. Finished' = Finished
    BY <1>1, <2>3 DEF Finished, ShareFrame, TypeOK, Workers
  <2>. QED
    BY <1>1, <2>4, <2>5, <2>6, <2>7 DEF Settled, Counted, ShareFrame
<1>. QED
  BY <1>2, <1>3

\* A worker's step in its loop leaves the caller and the rest of the pool.
LoopFrame(w) ==
    /\ pc'[0] = pc[0]
    /\ \A v \in Workers : v # w => /\ pc'[v] = pc[v]
                                 /\ seen'[v] = seen[v]
                                 /\ got'[v] = got[v]
    /\ UNCHANGED <<want, started, quit, gen, team, wk, fresh>>

LEMMA LoopCaller ==
    ASSUME IInv, NEW w \in Workers, LoopFrame(w), UNCHANGED done
    PROVE  CallerInv' /\ (Published' <=> Published)
  BY DEF LoopFrame, IInv, CallerInv, Published, TakesBackNobody

\* Steps that neither enter run_share nor count: the worker keeps its
\* generation, or drops one that is not for it.
LEMMA LoopSteps ==
    ASSUME IInv, NEW w \in Workers,
           \/ Poll(w) \/ Spin(w) \/ QuitOrGo(w) \/ FallAsleep(w)
           \/ SleepQuit(w) \/ SleepLoad(w) \/ CondWait(w) \/ SpuriousWakeup(w)
    PROVE  CallerInv' /\ WorkerInv' /\ Settled' /\ Counted'
<1>. USE PoolAssumption DEF IInv
<1>1. PICK l : Go(w, l)
  BY DEF Poll, Spin, QuitOrGo, FallAsleep, SleepQuit, SleepLoad, CondWait, SpuriousWakeup
<1>2. /\ pc'[0] = pc[0] /\ pc'[w] = l
      /\ \A v \in Workers : v # w => pc'[v] = pc[v]
  BY <1>1, GoWorker
<1>3. /\ seen' = seen
      /\ got' = got \/ got' = [got EXCEPT ![w] = seen[w]] \/ got' = [got EXCEPT ![w] = gen]
      /\ UNCHANGED <<want, started, quit, gen, team, wk, fresh, done>>
  BY DEF WorkerOnly, Poll, Spin, QuitOrGo, FallAsleep, SleepQuit, SleepLoad,
         CondWait, SpuriousWakeup
<1>4. got'[w] \in {got[w], seen[w], gen} /\ \A v \in Workers : v # w => got'[v] = got[v]
  BY <1>3 DEF TypeOK
<1>5. LoopFrame(w)
  BY <1>2, <1>3, <1>4 DEF LoopFrame
<1>6. CallerInv' /\ (Published' <=> Published)
  BY <1>3, <1>5, LoopCaller
<1>7. /\ pc[w] # "off"
      /\ pc'[w] = "off" => quit = 1
      /\ pc[w] \notin SharePC \cup {"count"}
      /\ pc'[w] \notin SharePC \cup {"count"}
      /\ pc'[w] \in {"admit", "admit2"} => got'[w] # seen'[w]
  <2>1. CASE Poll(w) \/ Spin(w) \/ FallAsleep(w) \/ CondWait(w) \/ SpuriousWakeup(w)
    BY <2>1 DEF Poll, Spin, FallAsleep, CondWait, SpuriousWakeup, Go, SharePC, TypeOK, Tids, Workers
  <2>2. CASE QuitOrGo(w)
    BY <2>2 DEF QuitOrGo, Go, SharePC, TypeOK, Tids, Workers
  <2>3. CASE SleepQuit(w)
    BY <2>3 DEF SleepQuit, Go, SharePC, TypeOK, Tids, Workers
  <2>4. CASE SleepLoad(w)
    BY <2>4 DEF SleepLoad, Go, SharePC, TypeOK, Tids, Workers
  <2>. QED
    BY <2>1, <2>2, <2>3, <2>4
<1>8. WorkerInv'
  BY <1>3, <1>5, <1>6, <1>7 DEF WorkerInv, Busy, LoopFrame
<1>9. \A v \in Workers : Busy(v)' <=> Busy(v)
  BY <1>2, <1>7 DEF Busy
<1>10. Finished' = Finished
  BY <1>3, <1>9 DEF Finished, TypeOK, Workers
<1>11. Settled'
  BY <1>3, <1>4, <1>6 DEF Settled, TypeOK, Workers
<1>12. Counted'
  BY <1>3, <1>4, <1>6, <1>10 DEF Counted, TypeOK, Workers
<1>. QED
  BY <1>6, <1>8, <1>11, <1>12

\* Taking a generation: a member of a published team enters run_share, a
\* worker outside the team skips the region.  Outside a region no member has
\* anything to take.
LEMMA AdmitSteps ==
    ASSUME IInv, NEW w \in Workers, Admit(w) \/ SleepAdmit(w)
    PROVE  CallerInv' /\ WorkerInv' /\ Settled' /\ Counted'
<1>. USE PoolAssumption DEF IInv
<1>. DEFINE l == IF w < team THEN "share"
                 ELSE IF pc[w] = "admit" THEN "poll" ELSE "towait"
<1>1. pc[w] \in {"admit", "admit2"} /\ Go(w, l)
  BY DEF Admit, SleepAdmit
<1>2. /\ pc'[0] = pc[0] /\ pc'[w] = l
      /\ \A v \in Workers : v # w => pc'[v] = pc[v]
  BY <1>1, GoWorker
<1>3. /\ seen' = [seen EXCEPT ![w] = got[w]]
      /\ UNCHANGED <<want, started, quit, gen, team, wk, fresh, done, got>>
  BY DEF WorkerOnly, Admit, SleepAdmit
<1>4. seen'[w] = got[w] /\ \A v \in Workers : v # w => seen'[v] = seen[v]
  BY <1>3 DEF TypeOK
<1>5. LoopFrame(w)
  BY <1>2, <1>3, <1>4 DEF LoopFrame
<1>6. CallerInv' /\ (Published' <=> Published)
  BY <1>3, <1>5, LoopCaller
<1>7. got[w] # seen[w] /\ ~Busy(w)
  BY <1>1 DEF WorkerInv, Busy, SharePC
<1>8. w <= started
  BY <1>1 DEF WorkerInv, TypeOK, Workers
<1>9. w < team => Published /\ got[w] = gen /\ seen[w] # gen
  <2>1. SUFFICES ASSUME w < team
                 PROVE  Published /\ got[w] = gen /\ seen[w] # gen
    OBVIOUS
  <2>2. Published
    BY <1>7, <1>8, <2>1 DEF Settled, Workers
  <2>3. w \in 1 .. team - 1
    BY <2>1 DEF Workers, TypeOK
  <2>. QED
    BY <1>7, <2>2, <2>3 DEF Counted
<1>10. WorkerInv'
  <2>1. ASSUME NEW v \in Workers, v # w
        PROVE  /\ v > started' => pc'[v] = "off"
               /\ v <= started' /\ quit' = 0 => pc'[v] # "off"
               /\ pc'[v] \in {"admit", "admit2"} => got'[v] # seen'[v]
               /\ Busy(v)' => Published' /\ v < team' /\ seen'[v] = gen' /\ got'[v] = gen'
    BY <1>2, <1>3, <1>4, <1>6, <2>1 DEF WorkerInv, Busy
  <2>2. pc'[w] \in {"share", "poll", "towait"} /\ (pc'[w] = "share" => w < team)
    BY <1>2
  <2>3. Busy(w)' => w < team
    BY <2>2 DEF Busy, SharePC
  <2>4. /\ ~ (w > started')
        /\ pc'[w] \notin {"off", "admit", "admit2"}
        /\ Busy(w)' => Published' /\ w < team' /\ seen'[w] = gen' /\ got'[w] = gen'
    BY <1>3, <1>4, <1>6, <1>8, <1>9, <2>2, <2>3 DEF TypeOK, Workers
  <2>. QED
    BY <2>1, <2>4 DEF WorkerInv
<1>11. Settled'
  BY <1>3, <1>4, <1>6, <1>7, <1>8, <1>9 DEF Settled, TypeOK, Workers
<1>12. Finished' = Finished
  <2>1. \A v \in 1 .. team - 1 : v \in Workers
    BY DEF TypeOK, Workers
  <2>2. CASE w < team
    <3>1. Busy(w)'
      BY <1>2, <2>2 DEF Busy, SharePC
    <3>2. \A v \in Workers : v # w => (Busy(v)' <=> Busy(v))
      BY <1>2 DEF Busy
    <3>. QED
      BY <1>3, <1>4, <1>9, <2>1, <2>2, <3>1, <3>2 DEF Finished
  <2>3. CASE ~ (w < team)
    <3>1. \A v \in 1 .. team - 1 : v # w
      BY <2>3 DEF TypeOK, Workers
    <3>2. \A v \in 1 .. team - 1 : (Busy(v)' <=> Busy(v)) /\ seen'[v] = seen[v]
      BY <1>2, <1>4, <2>1, <3>1 DEF Busy
    <3>. QED
      BY <1>3, <3>2 DEF Finished
  <2>. QED
    BY <2>2, <2>3
<1>13. Counted'
  <2>1. Published => \A v \in 1 .. team - 1 : got[v] \in {seen'[v], gen}
    BY <1>4, <1>9 DEF Counted, TypeOK, Workers
  <2>. QED
    BY <1>3, <1>6, <1>12, <2>1 DEF Counted
<1>. QED
  BY <1>6, <1>10, <1>11, <1>13

\* Counting itself: the worker is finished and P.done says so.
LEMMA CountStep ==
    ASSUME IInv, NEW w \in Workers, CountDone(w)
    PROVE  CallerInv' /\ WorkerInv' /\ Settled' /\ Counted'
<1>. USE PoolAssumption DEF IInv
<1>1. pc[w] = "count" /\ Go(w, "poll")
  BY DEF CountDone
<1>2. /\ pc'[0] = pc[0] /\ pc'[w] = "poll"
      /\ \A v \in Workers : v # w => pc'[v] = pc[v]
  BY <1>1, GoWorker
<1>3. /\ done' = done + 1
      /\ UNCHANGED <<want, started, quit, gen, team, wk, fresh, seen, got>>
  BY DEF WorkerOnly, CountDone
<1>4. Busy(w) /\ ~Busy(w)' /\ \A v \in Workers : v # w => (Busy(v)' <=> Busy(v))
  BY <1>1, <1>2 DEF Busy, SharePC
<1>5. Published /\ Published' /\ w < team /\ seen[w] = gen /\ got[w] = gen
  BY <1>2, <1>4 DEF WorkerInv, Published
<1>6. CallerInv'
  BY <1>2, <1>3, <1>5 DEF CallerInv, Published, SharePC, TakesBackNobody
<1>7. WorkerInv'
  <2>1. pc[w] # "off" /\ pc'[w] \notin {"off", "admit", "admit2"}
    BY <1>1, <1>2
  <2>. QED
    BY <1>2, <1>3, <1>4, <1>5, <2>1 DEF WorkerInv
<1>8. w \in 1 .. team - 1 /\ w \notin Finished
  BY <1>4, <1>5 DEF Finished, TypeOK, Workers
<1>9. Finished' = Finished \cup {w}
  BY <1>3, <1>4, <1>5, <1>8 DEF Finished, TypeOK, Workers
<1>10. Cardinality(Finished') = Cardinality(Finished) + 1
  BY <1>8, <1>9, FinishedFinite, FS_AddElement
<1>. QED
  BY <1>3, <1>5, <1>6, <1>7, <1>10 DEF Settled, Counted
-----------------------------------------------------------------------------
(***************************************************************************)
(* The accounts.  Steps that run nothing leave them as they are.           *)
(***************************************************************************)
AccountFrame ==
    /\ pc'[0] = pc[0] \/ (pc[0] = "wake" /\ pc'[0] \in {"wake", "share"})
    /\ UNCHANGED <<arg, job, next, part, runs, team>>
    /\ Published => \A t \in 0 .. team - 1 :
          /\ pc[t] \notin {"range", "grab", "chunk"} /\ pc'[t] # pc[t]
                => pc'[t] \notin {"range", "grab", "chunk"}
          /\ pc[t] \in {"range", "grab", "chunk"} => pc'[t] = pc[t]
          /\ RanShare(t)' <=> RanShare(t)

LEMMA Carried ==
    ASSUME IInv, AccountFrame
    PROVE  Accounted'
<1>. USE DEF AccountFrame
<1>0. Published' <=> Published
  BY DEF Published, SharePC
<1>1. SameJob' /\ NotBegun' /\ Complete'
  BY <1>0 DEF IInv, Accounted, SameJob, NotBegun, Complete
<1>2. Published => \A t \in 0 .. team - 1 :
          /\ \A l \in {"range", "grab", "chunk"} : pc'[t] = l <=> pc[t] = l
          /\ RanShare(t)' <=> RanShare(t)
  OBVIOUS
<1>3. StaticShares'
  BY <1>0, <1>2 DEF IInv, Accounted, StaticShares, Own
<1>4. ChunkShares'
  BY <1>0, <1>2 DEF IInv, Accounted, ChunkShares, Held
<1>. QED
  BY <1>1, <1>3, <1>4 DEF Accounted

\* Outside a published region the accounts are those of the call: nothing
\* has run yet, or all of it.
LEMMA CallAccounts ==
    ASSUME IInv, Readmission = FALSE,
           \/ \E k \in 1 .. MaxTeam + 1 : SetThreads(k)
           \/ \E n \in 1 .. MaxN, c \in Chunks : ParFor(n, c)
           \/ RunInline \/ ReturnInline \/ StartWorker \/ StartFails
           \/ SetJob \/ SetTeam \/ ResetNext \/ ResetDone
           \/ Shutdown \/ StopNext \/ Reap
    PROVE  Accounted'
<1>. USE PoolAssumption DEF IInv
<1>1. SUFFICES ~Published' /\ SameJob' /\ NotBegun' /\ Complete'
  BY DEF Accounted, StaticShares, ChunkShares
<1>. USE DEF Accounted
<1>2. ASSUME NEW k \in 1 .. MaxTeam + 1, SetThreads(k)
      PROVE  ~Published' /\ SameJob' /\ NotBegun' /\ Complete'
  BY <1>2 DEF SetThreads, Published, SharePC, SameJob, NotBegun, Complete
<1>3. ASSUME NEW n \in 1 .. MaxN, NEW c \in Chunks, ParFor(n, c)
      PROVE  ~Published' /\ SameJob' /\ NotBegun' /\ Complete'
  <2>1. pc'[0] \in {"inline", "start", "job"}
    BY <1>3, GoCaller DEF ParFor
  <2>2. arg'.n >= 1 /\ \A i \in Indices : runs'[i] = 0
    BY <1>3 DEF ParFor
  <2>. QED
    BY <2>1, <2>2 DEF Published, SharePC, SameJob, NotBegun, Complete
<1>4. CASE RunInline
  <2>1. pc[0] = "inline" /\ pc'[0] = "return"
    BY <1>4, GoCaller DEF RunInline
  <2>2. arg.n \in 0 .. MaxN /\ arg' = arg
    BY <1>4, JobType DEF RunInline, TypeOK
  <2>3. \A i \in 0 .. arg.n - 1 : i \in Indices /\ runs'[i] = 1
    BY <1>4, <2>1, <2>2 DEF RunInline, NotBegun, Indices
  <2>. QED
    BY <2>1, <2>2, <2>3 DEF Published, SharePC, SameJob, NotBegun, Complete
<1>5. CASE ReturnInline
  <2>1. pc[0] = "return" /\ pc'[0] = "idle"
    BY <1>5, GoCaller DEF ReturnInline
  <2>. QED
    BY <1>5, <2>1 DEF ReturnInline, Published, SharePC, SameJob, NotBegun, Complete
<1>6. CASE StartWorker
  <2>1. pc[0] = "start" /\ pc'[0] \in {"start", "job"}
    <3>. DEFINE l == IF (started + 1) + 1 = want THEN "job" ELSE "start"
    <3>1. started + 1 \in Workers /\ pc[0] = "start" /\ l \in {"job", "start"}
      BY <1>6 DEF StartWorker, CallerInv, TypeOK, Workers
    <3>2. pc' = [pc EXCEPT ![started + 1] = "poll", ![0] = l]
      BY <1>6 DEF StartWorker
    <3>3. "poll" \in WorkerPC \cup SharePC /\ l \in CallerPC \cup SharePC
      BY <3>1 DEF CallerPC, WorkerPC
    <3>. HIDE DEF l
    <3>. QED
      BY <3>1, <3>2, <3>3, GoBoth
  <2>. QED
    BY <1>6, <2>1 DEF StartWorker, Published, SharePC, SameJob, NotBegun, Complete
<1>7. CASE StartFails
  <2>1. pc[0] = "start" /\ pc'[0] = "idle"
    BY <1>7, GoCaller DEF StartFails
  <2>. QED
    BY <1>7, <2>1 DEF StartFails, NoJob, Published, SharePC, SameJob, NotBegun, Complete
<1>8. CASE SetJob
  <2>1. pc[0] = "job" /\ pc'[0] = "team"
    BY <1>8, GoCaller DEF SetJob
  <2>. QED
    BY <1>8, <2>1 DEF SetJob, Published, SharePC, SameJob, NotBegun, Complete
<1>9. CASE SetTeam
  <2>1. pc[0] = "team" /\ pc'[0] = "next"
    BY <1>9, GoCaller DEF SetTeam
  <2>. QED
    BY <1>9, <2>1 DEF SetTeam, Published, SharePC, SameJob, NotBegun, Complete
<1>10. CASE ResetNext
  <2>1. pc[0] = "next" /\ pc'[0] = "done"
    BY <1>10, GoCaller DEF ResetNext
  <2>. QED
    BY <1>10, <2>1 DEF ResetNext, Published, SharePC, SameJob, NotBegun, Complete
<1>11. CASE ResetDone
  <2>1. pc[0] = "done" /\ pc'[0] = "gen"
    BY <1>11, GoCaller DEF ResetDone
  <2>. QED
    BY <1>11, <2>1 DEF ResetDone, Published, SharePC, SameJob, NotBegun, Complete
<1>12. CASE Shutdown
  <2>1. pc[0] = "idle" /\ pc'[0] = "stop"
    BY <1>12, GoCaller DEF Shutdown
  <2>. QED
    BY <1>12, <2>1 DEF Shutdown, Published, SharePC, SameJob, NotBegun, Complete
<1>13. CASE StopNext
  <2>. DEFINE l == IF wk < started THEN "stop" ELSE "reap"
  <2>1. wk \in Workers /\ pc[0] = "stop"
    BY <1>13 DEF StopNext, CallerInv, TypeOK, Workers
  <2>2. l \in CallerPC \cup SharePC /\ Signal(wk, l) /\ l \in {"stop", "reap"}
    BY <1>13 DEF StopNext, CallerPC
  <2>. HIDE DEF l
  <2>3. pc'[0] = l
    BY <2>1, <2>2, SignalMoves
  <2>. QED
    BY <1>13, <2>1, <2>2, <2>3 DEF StopNext, Published, SharePC, SameJob, NotBegun, Complete
<1>14. CASE Reap
  <2>1. pc[0] = "reap" /\ pc'[0] = "idle"
    BY <1>14, GoCaller DEF Reap
  <2>. QED
    BY <1>14, <2>1 DEF Reap, Published, SharePC, SameJob, NotBegun, Complete
<1>. QED
  BY <1>2, <1>3, <1>4, <1>5, <1>6, <1>7, <1>8, <1>9, <1>10, <1>11, <1>12,
     <1>13, <1>14

\* Publishing opens the accounts: nobody has begun, nothing has run.
LEMMA PublishAccounts ==
    ASSUME IInv, Publish
    PROVE  Accounted'
<1>. USE PoolAssumption DEF IInv
<1>1. pc[0] = "gen" /\ pc'[0] = "wake" /\ \A w \in Workers : pc'[w] = pc[w]
  BY GoCaller DEF Publish
<1>2. ~Published /\ Published'
  BY <1>1 DEF Published, SharePC
<1>3. gen' # gen /\ UNCHANGED <<want, started, team, job, next, seen, got, part, arg, runs>>
  BY NextGen DEF Publish, TypeOK
<1>4. team = want /\ want <= started + 1 /\ job = arg /\ next = 0
      /\ \A i \in Indices : runs[i] = 0
  BY <1>1 DEF CallerInv, Accounted, SameJob, NotBegun
<1>5. \A t \in 0 .. team - 1 : /\ pc'[t] \notin SharePC
                               /\ ~ RanShare(t)'
  <2>. SUFFICES ASSUME NEW t \in 0 .. team - 1
                PROVE  pc'[t] \notin SharePC /\ ~ RanShare(t)'
    OBVIOUS
  <2>1. CASE t = 0
    BY <1>1, <2>1 DEF SharePC, RanShare
  <2>2. CASE t # 0
    <3>1. t \in Workers /\ t \in 1 .. started /\ t < team
      BY <1>4, <2>2 DEF TypeOK, Workers
    <3>2. pc'[t] \notin SharePC
      BY <1>1, <1>2, <3>1 DEF WorkerInv, Busy
    <3>3. seen[t] = gen
      BY <1>2, <3>1 DEF Settled
    <3>. QED
      BY <1>3, <2>2, <3>2, <3>3 DEF RanShare
  <2>. QED
    BY <2>1, <2>2
<1>6. SameJob' /\ NotBegun' /\ Complete'
  BY <1>1, <1>3, <1>4 DEF Accounted, SameJob, NotBegun, Complete
<1>7. StaticShares'
  BY <1>3, <1>4, <1>5 DEF StaticShares, SharePC
<1>8. ChunkShares'
  <2>1. job.n \in 0 .. MaxN
    BY JobType DEF TypeOK
  <2>2. \A i \in 0 .. job.n - 1 : i \in Indices /\ ~ (i < 0)
    BY <2>1 DEF Indices
  <2>. QED
    BY <1>3, <1>4, <1>5, <2>2 DEF ChunkShares, SharePC, Held
<1>. QED
  BY <1>6, <1>7, <1>8 DEF Accounted

\* Waking and joining.  At the join every member is through: each index has
\* an owner that ran it, or was handed out to somebody who ran it.
LEMMA WakeAccounts ==
    ASSUME IInv, WakeNext
    PROVE  Accounted'
<1>. USE PoolAssumption DEF IInv
<1>. DEFINE l == IF wk + 1 < want THEN "wake" ELSE "share"
<1>1. wk \in Workers /\ pc[0] = "wake"
  BY DEF WakeNext, CallerInv, TypeOK, Workers
<1>2. l \in CallerPC \cup SharePC /\ (Signal(wk, l) \/ Go(0, l)) /\ l \in {"wake", "share"}
  BY DEF CallerPC, SharePC, WakeNext
<1>. HIDE DEF l
<1>3. /\ pc'[0] = l
      /\ \A v \in Workers : pc'[v] = pc[v] \/ (pc[v] = "wait" /\ pc'[v] = "woken")
  BY <1>1, <1>2, SignalMoves
<1>4. UNCHANGED <<arg, job, next, part, runs, team, seen, gen>>
  BY DEF WakeNext
<1>5. \A t \in 0 .. team - 1 : t = 0 \/ t \in Workers
  BY DEF TypeOK, Workers
<1>6. AccountFrame
  BY <1>1, <1>2, <1>3, <1>4, <1>5 DEF AccountFrame, RanShare, SharePC
<1>. QED
  BY <1>6, Carried

LEMMA JoinAccounts ==
    ASSUME IInv, Join
    PROVE  Accounted'
<1>. USE PoolAssumption DEF IInv
<1>1. pc[0] = "join" /\ pc'[0] = "idle" /\ UNCHANGED <<arg, job, runs>>
  BY GoCaller DEF Join
<1>2. Published /\ ~Published'
  BY <1>1 DEF Published, SharePC
<1>3. team = want /\ team >= 2 /\ team \in Nat
  BY <1>2 DEF CallerInv, TypeOK
<1>4. Finished = 1 .. team - 1
  BY <1>2, <1>3, AllFinished DEF Join, Counted
<1>5. \A t \in 0 .. team - 1 : RanShare(t) /\ pc[t] # "chunk"
  <2>1. \A t \in 1 .. team - 1 : seen[t] = gen /\ ~Busy(t)
    BY <1>4 DEF Finished
  <2>2. \A t \in 0 .. team - 1 : t = 0 \/ t \in 1 .. team - 1
    BY <1>3
  <2>. QED
    BY <1>1, <2>1, <2>2 DEF RanShare, Busy, SharePC
<1>6. job = arg /\ job.n \in 0 .. MaxN /\ job.chunk \in Nat
  BY <1>2, JobType DEF Accounted, SameJob, TypeOK
<1>7. \A i \in 0 .. job.n - 1 : i \in Indices
  BY <1>6 DEF Indices
<1>8. \A i \in 0 .. job.n - 1 : runs[i] = 1
  <2>. SUFFICES ASSUME NEW i \in 0 .. job.n - 1 PROVE runs[i] = 1
    OBVIOUS
  <2>1. CASE job.chunk = 0
    <3>1. PICK t \in 0 .. team - 1 : i \in Own(t).lo .. Own(t).hi - 1
      <4>1. job.n \in Nat /\ team > 0
        BY <1>3, <1>6
      <4>. QED
        BY <1>3, <4>1, ParRangeCover DEF Own
    <3>. QED
      BY <1>2, <1>5, <1>7, <2>1, <3>1 DEF Accounted, StaticShares
  <2>2. CASE job.chunk > 0
    <3>1. 0 \in 0 .. team - 1
      BY <1>3
    <3>2. next >= job.n
      BY <1>2, <1>5, <2>2, <3>1 DEF Accounted, ChunkShares
    <3>3. i < next /\ \A t \in 0 .. team - 1 : ~Held(t, i)
      BY <1>5, <1>6, <3>2 DEF Held, TypeOK
    <3>. QED
      BY <1>2, <2>2, <3>3 DEF Accounted, ChunkShares
  <2>. QED
    BY <1>6, <2>1, <2>2
<1>. QED
  BY <1>1, <1>2, <1>6, <1>8 DEF Accounted, SameJob, NotBegun, Complete, StaticShares, ChunkShares

\* A worker's loop runs nothing: a member that takes the generation has its
\* share before it, one that counts itself is through.
LEMMA LoopAccounts ==
    ASSUME IInv, NEW w \in Workers, Worker(w) \/ SpuriousWakeup(w), ~RunShare(w)
    PROVE  Accounted'
<1>. USE PoolAssumption DEF IInv
<1>1. PICK l : Go(w, l)
  BY DEF Worker, Poll, Spin, QuitOrGo, Admit, FallAsleep, SleepQuit, SleepLoad,
         SleepAdmit, CondWait, CountDone, SpuriousWakeup
<1>2. /\ pc'[0] = pc[0] /\ pc'[w] = l
      /\ \A v \in Workers : v # w => pc'[v] = pc[v]
  BY <1>1, GoWorker
<1>3. UNCHANGED <<arg, job, next, part, runs, team, gen>>
  BY DEF Worker, Poll, Spin, QuitOrGo, Admit, FallAsleep, SleepQuit, SleepLoad,
         SleepAdmit, CondWait, CountDone, SpuriousWakeup, WorkerOnly
<1>4. pc[w] \notin SharePC
  BY DEF Worker, Poll, Spin, QuitOrGo, Admit, FallAsleep, SleepQuit, SleepLoad,
         SleepAdmit, CondWait, CountDone, SpuriousWakeup, SharePC
<1>5. \A v \in Workers : v # w => seen'[v] = seen[v]
  BY DEF Worker, Poll, Spin, QuitOrGo, Admit, FallAsleep, SleepQuit, SleepLoad,
         SleepAdmit, CondWait, CountDone, SpuriousWakeup, TypeOK
<1>6. \A t \in 0 .. team - 1 : t = 0 \/ t \in Workers
  BY DEF TypeOK, Workers
<1>7. ASSUME Published, w < team
      PROVE  /\ pc'[w] \notin {"range", "grab", "chunk"}
             /\ RanShare(w)' <=> RanShare(w)
  <2>0. w # 0 /\ w \in 1 .. team - 1
    BY <1>7 DEF Workers, TypeOK
  <2>1. CASE Admit(w) \/ SleepAdmit(w)
    <3>1. l = "share" /\ seen'[w] = got[w] /\ got[w] # seen[w]
      BY <1>2, <1>7, <2>1, SMTT(60) DEF Admit, SleepAdmit, TypeOK, WorkerInv, Go, Tids, Workers
    <3>2. got[w] = gen
      BY <1>7, <2>0, <3>1 DEF Counted
    <3>. QED
      BY <1>2, <1>3, <2>0, <3>1, <3>2 DEF RanShare, SharePC
  <2>2. CASE ~ (Admit(w) \/ SleepAdmit(w))
    <3>1. seen' = seen
      BY <2>2 DEF Worker, Poll, Spin, QuitOrGo, FallAsleep, SleepQuit, SleepLoad,
                  CondWait, CountDone, SpuriousWakeup
    <3>2. pc'[w] \notin SharePC
      <4>1. CASE Poll(w) \/ Spin(w) \/ FallAsleep(w) \/ CondWait(w)
                 \/ SpuriousWakeup(w) \/ CountDone(w)
        BY <4>1 DEF Poll, Spin, FallAsleep, CondWait, SpuriousWakeup, CountDone,
                    Go, SharePC, TypeOK, Tids, Workers
      <4>2. CASE QuitOrGo(w) \/ SleepQuit(w) \/ SleepLoad(w)
        BY <4>2, SMTT(60) DEF QuitOrGo, SleepQuit, SleepLoad, Go, SharePC, TypeOK, Tids, Workers
      <4>. QED
        BY <2>2, <4>1, <4>2 DEF Worker
    <3>. QED
      BY <1>3, <1>4, <2>0, <3>1, <3>2 DEF RanShare, SharePC
  <2>. QED
    BY <2>1, <2>2
<1>8. AccountFrame
  <2>. SUFFICES ASSUME Published, NEW t \in 0 .. team - 1
       PROVE /\ pc[t] \notin {"range", "grab", "chunk"} /\ pc'[t] # pc[t]
                => pc'[t] \notin {"range", "grab", "chunk"}
             /\ pc[t] \in {"range", "grab", "chunk"} => pc'[t] = pc[t]
             /\ RanShare(t)' <=> RanShare(t)
    BY <1>2, <1>3 DEF AccountFrame
  <2>1. CASE t = 0
    BY <1>2, <2>1 DEF RanShare
  <2>2. CASE t = w
    <3>1. w < team
      BY <2>2 DEF TypeOK
    <3>. QED
      BY <1>4, <1>7, <2>2, <3>1 DEF SharePC
  <2>3. CASE t # 0 /\ t # w
    BY <1>2, <1>3, <1>5, <1>6, <2>3 DEF RanShare
  <2>. QED
    BY <2>1, <2>2, <2>3
<1>. QED
  BY <1>8, Carried

\* A step of run_share, on behalf of thread t of the team.
LEMMA ShareFacts ==
    ASSUME IInv, NEW t \in Tids, RunShare(t)
    PROVE  /\ Published /\ Published'
           /\ team \in Nat /\ team >= 2 /\ t \in 0 .. team - 1 /\ job = arg
           /\ job.n \in 0 .. MaxN /\ job.chunk \in Nat
           /\ UNCHANGED <<arg, job, team, gen>>
           /\ ~RanShare(t) /\ (RanShare(t)' <=> pc'[t] \notin SharePC)
           /\ \A u \in 0 .. team - 1 : u # t =>
                 pc'[u] = pc[u] /\ (RanShare(u)' <=> RanShare(u))
           /\ SameJob' /\ NotBegun' /\ Complete'
<1>. USE PoolAssumption DEF IInv
<1>1. PICK l \in SharePC \cup {AfterShare(t)} : Go(t, l)
  BY ShareMove
<1>2. pc[t] \in SharePC /\ ShareFrame
  BY ShareMove
<1>3. arg' = arg /\ job' = job
  BY DEF RunShare, EnterShare, Grab, RunRange, RunChunk
<1>4. /\ pc'[t] = l
      /\ \A u \in Tids : u # t => pc'[u] = pc[u]
  BY <1>1 DEF TypeOK, Go
<1>5. Published /\ Published' /\ t < team /\ (t # 0 => seen[t] = gen)
  <2>1. CASE t = 0
    <3>1. Published
      BY <1>2, <2>1 DEF Published
    <3>. QED
      BY <1>2, <1>4, <2>1, <3>1 DEF Published, CallerInv, AfterShare, TypeOK
  <2>2. CASE t # 0
    <3>1. t \in Workers
      BY <2>2 DEF Tids, Workers
    <3>2. 0 \in Tids
      BY DEF Tids
    <3>. QED
      BY <1>2, <1>4, <2>2, <3>1, <3>2 DEF WorkerInv, Busy, Published
  <2>. QED
    BY <2>1, <2>2
<1>6. team \in Nat /\ team >= 2 /\ t \in 0 .. team - 1 /\ 0 .. team - 1 \subseteq Tids
  BY <1>5 DEF CallerInv, TypeOK, Tids
<1>7. job = arg /\ job.n \in 0 .. MaxN /\ job.chunk \in Nat /\ arg.n >= 1
  BY <1>5, JobType DEF Accounted, SameJob, TypeOK
<1>8. ~RanShare(t) /\ (RanShare(t)' <=> pc'[t] \notin SharePC)
  BY <1>1, <1>2, <1>4, <1>5 DEF RanShare, SharePC, ShareFrame, AfterShare
<1>9. \A u \in 0 .. team - 1 : u # t =>
                 pc'[u] = pc[u] /\ (RanShare(u)' <=> RanShare(u))
  BY <1>2, <1>4, <1>6 DEF RanShare, ShareFrame
<1>10. SameJob' /\ NotBegun' /\ Complete'
  BY <1>3, <1>5, <1>7 DEF SameJob, NotBegun, Complete, Published, SharePC
<1>. QED
  BY <1>2, <1>3, <1>5, <1>6, <1>7, <1>8, <1>9, <1>10 DEF ShareFrame

LEMMA OwnType ==
    ASSUME TypeOK, team > 0, NEW u \in 0 .. team - 1
    PROVE  Own(u).lo \in Nat /\ Own(u).hi \in Nat
<1>1. job.n \in 0 .. MaxN /\ team \in Nat /\ u \in Nat
  BY JobType DEF TypeOK
<1>2. Own(u) \in [lo : Nat, hi : Nat, n : 0 .. MaxN]
  BY <1>1, ParRangeType DEF Own
<1>. QED
  BY <1>2

LEMMA OtherParts ==
    ASSUME TypeOK, NEW t \in Tids, RunShare(t)
    PROVE  \A u \in 0 .. team - 1 : /\ u # t => part'[u] = part[u]
                                    /\ part[u].lo \in Nat /\ part[u].hi \in Nat
<1>1. PICK p : part' = [part EXCEPT ![t] = p] \/ part' = part
  <2>1. CASE EnterShare(t)
    BY <2>1 DEF EnterShare
  <2>2. CASE Grab(t)
    BY <2>2 DEF Grab
  <2>3. CASE RunRange(t)
    BY <2>3 DEF RunRange
  <2>4. CASE RunChunk(t)
    BY <2>4 DEF RunChunk
  <2>. QED
    BY <2>1, <2>2, <2>3, <2>4 DEF RunShare
<1>2. 0 .. team - 1 \subseteq Tids
  BY PoolAssumption DEF TypeOK, Tids
<1>. QED
  BY <1>1, <1>2 DEF TypeOK

LEMMA EnterAccounts ==
    ASSUME IInv, NEW t \in Tids, EnterShare(t)
    PROVE  Accounted'
<1>. USE PoolAssumption DEF IInv
<1>1. RunShare(t) /\ pc[t] = "share" /\ UNCHANGED <<next, runs>>
  BY DEF RunShare, EnterShare
<1>2. \A u \in 0 .. team - 1 : u # t => part'[u] = part[u]
  BY <1>1, OtherParts
<1>3. CASE job.chunk = 0
  <2>1. \/ Own(t).lo < Own(t).hi /\ part'[t] = Own(t) /\ pc'[t] = "range"
        \/ ~ (Own(t).lo < Own(t).hi) /\ pc'[t] = AfterShare(t)
    BY <1>3 DEF EnterShare, TypeOK, Go, Own
  <2>2. \A i \in Indices : i \in Own(t).lo .. Own(t).hi - 1 => Own(t).lo < Own(t).hi
    <3>1. Own(t).lo \in Int /\ Own(t).hi \in Int
      BY <1>1, ShareFacts, OwnType
    <3>. QED
      BY <3>1 DEF Indices
  <2>3. StaticShares'
    <3>. SUFFICES ASSUME NEW u \in 0 .. team - 1
         PROVE /\ pc'[u] \notin {"grab", "chunk"}
               /\ pc'[u] = "range" => part'[u] = Own(u) /\ Own(u).lo < Own(u).hi
               /\ \A i \in Indices : i \in Own(u).lo .. Own(u).hi - 1
                    => runs[i] = IF RanShare(u)' THEN 1 ELSE 0
      BY <1>1, ShareFacts DEF StaticShares, Own
    <3>1. CASE u = t
      BY <1>1, <1>3, <2>1, <2>2, <3>1, ShareFacts
         DEF Accounted, StaticShares, SharePC, AfterShare
    <3>2. CASE u # t
      BY <1>1, <1>2, <1>3, <3>2, ShareFacts DEF Accounted, StaticShares
    <3>. QED
      BY <3>1, <3>2
  <2>. QED
    BY <1>1, <1>3, <2>3, ShareFacts DEF Accounted, ChunkShares
<1>4. CASE job.chunk > 0
  <2>1. pc'[t] = "grab" /\ part'[t].n = job.n
    BY <1>4 DEF EnterShare, TypeOK, Go, NoPart
  <2>2. \A u \in 0 .. team - 1 : \A i \in Indices : Held(u, i)' <=> Held(u, i)
    BY <1>1, <1>2, <2>1, ShareFacts DEF Held
  <2>3. \A i \in 0 .. job.n - 1 : i \in Indices
    BY <1>1, ShareFacts DEF Indices
  <2>4. ChunkShares'
    <3>1. \A u \in 0 .. team - 1 :
              /\ pc'[u] # "range"
              /\ pc'[u] \in {"grab", "chunk"} => part'[u].n = job.n
              /\ pc'[u] = "chunk" => /\ part'[u].lo < part'[u].hi
                                    /\ part'[u].hi <= next /\ part'[u].hi <= job.n
              /\ RanShare(u)' => next >= job.n
      BY <1>1, <1>2, <1>4, <2>1, ShareFacts DEF Accounted, ChunkShares, SharePC
    <3>2. \A u, v \in 0 .. team - 1 : \A i \in Indices :
              Held(u, i)' /\ Held(v, i)' => u = v
      BY <1>1, <1>4, <2>2, ShareFacts DEF Accounted, ChunkShares
    <3>3. \A i \in 0 .. job.n - 1 :
              runs[i] = IF i < next /\ \A u \in 0 .. team - 1 : ~Held(u, i)'
                        THEN 1 ELSE 0
      BY <1>1, <1>4, <2>2, <2>3, ShareFacts DEF Accounted, ChunkShares
    <3>. QED
      BY <1>1, <3>1, <3>2, <3>3, ShareFacts DEF ChunkShares
  <2>. QED
    BY <1>1, <1>4, <2>4, ShareFacts DEF Accounted, StaticShares
<1>. QED
  BY <1>1, <1>3, <1>4, ShareFacts

LEMMA GrabAccounts ==
    ASSUME IInv, NEW t \in Tids, Grab(t)
    PROVE  Accounted'
<1>. USE PoolAssumption DEF IInv
<1>1. RunShare(t) /\ pc[t] = "grab" /\ runs' = runs /\ next' = next + job.chunk
  BY DEF RunShare, Grab
<1>2. \A u \in 0 .. team - 1 : u # t => part'[u] = part[u]
  BY <1>1, OtherParts
<1>3. job.chunk > 0
  BY <1>1, ShareFacts DEF Accounted, StaticShares
<1>4. part[t].n = job.n /\ next \in Nat
  BY <1>1, <1>3, ShareFacts DEF Accounted, ChunkShares, TypeOK
<1>5. \A u \in 0 .. team - 1 : part[u].lo \in Nat /\ part[u].hi \in Nat
  BY <1>1, OtherParts
<1>6. \A i \in 0 .. job.n - 1 : i \in Indices
  BY <1>1, ShareFacts DEF Indices
<1>7. CASE next >= job.n
  <2>1. pc'[t] = AfterShare(t)
    BY <1>4, <1>7 DEF Grab, TypeOK, Go
  <2>2. \A u \in 0 .. team - 1 : \A i \in Indices : Held(u, i)' <=> Held(u, i)
    BY <1>1, <1>2, <2>1, ShareFacts DEF Held, AfterShare
  <2>3. next' >= job.n /\ next' >= next /\ next' \in Nat
    BY <1>1, <1>4, <1>7, ShareFacts
  <2>4. \A u \in 0 .. team - 1 :
            /\ pc'[u] # "range"
            /\ pc'[u] \in {"grab", "chunk"} => part'[u].n = job.n
            /\ pc'[u] = "chunk" => /\ part'[u].lo < part'[u].hi
                                  /\ part'[u].hi <= next' /\ part'[u].hi <= job.n
            /\ RanShare(u)' => next' >= job.n
    <3>. SUFFICES ASSUME NEW u \in 0 .. team - 1
                  PROVE /\ pc'[u] # "range"
                        /\ pc'[u] \in {"grab", "chunk"} => part'[u].n = job.n
                        /\ pc'[u] = "chunk" => /\ part'[u].lo < part'[u].hi
                              /\ part'[u].hi <= next' /\ part'[u].hi <= job.n
      BY <2>3
    <3>1. CASE u = t
      BY <2>1, <3>1 DEF AfterShare
    <3>2. CASE u # t
      BY <1>1, <1>2, <1>3, <1>4, <1>5, <2>3, <3>2, ShareFacts DEF Accounted, ChunkShares
    <3>. QED
      BY <3>1, <3>2
  <2>5. \A u, v \in 0 .. team - 1 : \A i \in Indices :
            Held(u, i)' /\ Held(v, i)' => u = v
    BY <1>1, <1>3, <2>2, ShareFacts DEF Accounted, ChunkShares
  <2>6. \A i \in 0 .. job.n - 1 :
            runs[i] = IF i < next' /\ \A u \in 0 .. team - 1 : ~Held(u, i)'
                      THEN 1 ELSE 0
    <3>1. \A i \in 0 .. job.n - 1 : i < next /\ i < next'
      BY <1>4, <1>7, <2>3, ShareFacts, <1>1
    <3>. QED
      BY <1>1, <1>3, <1>6, <2>2, <3>1, ShareFacts DEF Accounted, ChunkShares
  <2>. QED
    BY <1>1, <1>3, <2>4, <2>5, <2>6, ShareFacts DEF Accounted, ChunkShares, StaticShares
<1>8. CASE ~ (next >= job.n)
  <2>. DEFINE hi == next + job.chunk
              cut == IF hi < job.n THEN hi ELSE job.n
  <2>1. pc'[t] = "chunk" /\ part'[t] = [lo |-> next, hi |-> cut, n |-> job.n]
    BY <1>4, <1>8 DEF Grab, TypeOK, Go
  <2>2. /\ next < cut /\ cut <= next' /\ cut <= job.n /\ next < next'
        /\ cut \in Nat /\ next' \in Nat /\ (cut = next' \/ cut = job.n)
    BY <1>1, <1>3, <1>4, <1>8, ShareFacts
  <2>. HIDE DEF cut
  <2>3. \A u \in 0 .. team - 1 : u # t => \A i \in Indices :
            /\ Held(u, i)' <=> Held(u, i)
            /\ Held(u, i) => i < next
    BY <1>1, <1>2, <1>3, <1>4, <1>5, ShareFacts
       DEF Held, Accounted, ChunkShares, Indices
  <2>4. \A i \in Indices : (Held(t, i)' <=> next <= i /\ i < cut) /\ ~Held(t, i)
    BY <1>1, <2>1 DEF Held
  <2>5. \A u \in 0 .. team - 1 :
            /\ pc'[u] # "range"
            /\ pc'[u] \in {"grab", "chunk"} => part'[u].n = job.n
            /\ pc'[u] = "chunk" => /\ part'[u].lo < part'[u].hi
                                  /\ part'[u].hi <= next' /\ part'[u].hi <= job.n
            /\ RanShare(u)' => next' >= job.n
    <3>. SUFFICES ASSUME NEW u \in 0 .. team - 1
                  PROVE /\ pc'[u] # "range"
                        /\ pc'[u] \in {"grab", "chunk"} => part'[u].n = job.n
                        /\ pc'[u] = "chunk" => /\ part'[u].lo < part'[u].hi
                              /\ part'[u].hi <= next' /\ part'[u].hi <= job.n
                        /\ ~ RanShare(u)'
      OBVIOUS
    <3>1. CASE u = t
      BY <1>1, <2>1, <2>2, <3>1, ShareFacts DEF SharePC
    <3>2. CASE u # t
      BY <1>1, <1>2, <1>3, <1>4, <1>5, <1>8, <2>2, <3>2, ShareFacts DEF Accounted, ChunkShares
    <3>. QED
      BY <3>1, <3>2
  <2>6. \A u, v \in 0 .. team - 1 : \A i \in Indices :
            Held(u, i)' /\ Held(v, i)' => u = v
    <3>. SUFFICES ASSUME NEW u \in 0 .. team - 1, NEW v \in 0 .. team - 1,
                         NEW i \in Indices, Held(u, i)', Held(v, i)', u # v
                  PROVE  FALSE
      OBVIOUS
    <3>1. CASE u # t /\ v # t
      BY <1>1, <1>3, <2>3, <3>1, ShareFacts DEF Accounted, ChunkShares
    <3>2. CASE u = t \/ v = t
      <4>1. i < next /\ next <= i
        BY <2>3, <2>4, <3>2
      <4>. QED
        BY <1>4, <4>1 DEF Indices
    <3>. QED
      BY <3>1, <3>2
  <2>7. \A i \in 0 .. job.n - 1 :
            runs[i] = IF i < next' /\ \A u \in 0 .. team - 1 : ~Held(u, i)'
                      THEN 1 ELSE 0
    <3>. SUFFICES ASSUME NEW i \in 0 .. job.n - 1
         PROVE runs[i] = IF i < next' /\ \A u \in 0 .. team - 1 : ~Held(u, i)'
                         THEN 1 ELSE 0
      OBVIOUS
    <3>1. runs[i] = IF i < next /\ \A u \in 0 .. team - 1 : ~Held(u, i)
                    THEN 1 ELSE 0
      BY <1>1, <1>3, ShareFacts DEF Accounted, ChunkShares
    <3>2. i \in Indices /\ t \in 0 .. team - 1
      BY <1>1, <1>6, ShareFacts
    <3>3. CASE i < next
      <4>1. i < next' /\ ~ Held(t, i)'
        BY <1>4, <2>2, <2>4, <3>2, <3>3
      <4>2. \A u \in 0 .. team - 1 : Held(u, i)' <=> Held(u, i)
        BY <2>3, <2>4, <3>2, <4>1
      <4>. QED
        BY <3>1, <3>3, <4>1, <4>2
    <3>4. CASE ~ (i < next)
      <4>1. i < next' => Held(t, i)'
        BY <1>4, <2>2, <2>4, <3>2, <3>4
      <4>. QED
        BY <3>1, <3>2, <3>4, <4>1
    <3>. QED
      BY <3>3, <3>4
  <2>. QED
    BY <1>1, <1>3, <2>5, <2>6, <2>7, ShareFacts DEF Accounted, ChunkShares, StaticShares
<1>. QED
  BY <1>7, <1>8

LEMMA RunRangeAccounts ==
    ASSUME IInv, NEW t \in Tids, RunRange(t)
    PROVE  Accounted'
<1>. USE PoolAssumption DEF IInv
<1>1. RunShare(t) /\ pc[t] = "range" /\ next' = next /\ Ran(t)
  BY DEF RunShare, RunRange
<1>2. /\ \A u \in 0 .. team - 1 : u # t => part'[u] = part[u]
      /\ pc'[t] = AfterShare(t)
  BY DEF RunRange, TypeOK, Go
<1>3. ~ (job.chunk > 0) /\ job.chunk = 0
  BY <1>1, ShareFacts DEF Accounted, ChunkShares
<1>4. part[t] = Own(t)
  BY <1>1, <1>3, ShareFacts DEF Accounted, StaticShares
<1>5. \A i \in Indices : runs'[i] = IF i \in Own(t).lo .. Own(t).hi - 1
                                    THEN runs[i] + 1 ELSE runs[i]
  BY <1>1, <1>4 DEF Ran
<1>6. \A u \in 0 .. team - 1 :
          Own(u).lo \in Nat /\ Own(u).hi \in Nat
  BY <1>1, ShareFacts, OwnType
<1>7. \A u \in 0 .. team - 1 : u # t => \A i \in Indices :
          ~ (/\ i \in Own(u).lo .. Own(u).hi - 1
             /\ i \in Own(t).lo .. Own(t).hi - 1)
  <2>. SUFFICES ASSUME NEW u \in 0 .. team - 1, u # t
                PROVE  Own(u).hi <= Own(t).lo \/ Own(t).hi <= Own(u).lo
    BY <1>1, <1>6, ShareFacts DEF Indices
  <2>1. job.n \in Nat /\ team \in Nat /\ team > 0 /\ t \in Nat /\ u \in Nat
    BY <1>1, ShareFacts
  <2>2. CASE u < t
    BY <2>1, <2>2, ParRangeOrder DEF Own
  <2>3. CASE t < u
    BY <2>1, <2>3, ParRangeOrder DEF Own
  <2>. QED
    BY <2>1, <2>2, <2>3
<1>8. StaticShares'
  <2>. SUFFICES ASSUME NEW u \in 0 .. team - 1
       PROVE /\ pc'[u] \notin {"grab", "chunk"}
             /\ pc'[u] = "range" => part'[u] = Own(u) /\ Own(u).lo < Own(u).hi
             /\ \A i \in Indices : i \in Own(u).lo .. Own(u).hi - 1
                  => runs'[i] = IF RanShare(u)' THEN 1 ELSE 0
    BY <1>1, ShareFacts DEF StaticShares, Own
  <2>1. CASE u = t
    <3>1. pc'[u] \notin SharePC
      BY <1>2, <2>1 DEF AfterShare, SharePC
    <3>2. \A i \in Indices : i \in Own(t).lo .. Own(t).hi - 1 => runs[i] = 0
      BY <1>1, <1>3, ShareFacts DEF Accounted, StaticShares
    <3>. QED
      BY <1>1, <1>5, <2>1, <3>1, <3>2, ShareFacts DEF SharePC
  <2>2. CASE u # t
    BY <1>1, <1>2, <1>3, <1>5, <1>7, <2>2, ShareFacts DEF Accounted, StaticShares
  <2>. QED
    BY <2>1, <2>2
<1>. QED
  BY <1>1, <1>3, <1>8, ShareFacts DEF Accounted, ChunkShares

LEMMA RunChunkAccounts ==
    ASSUME IInv, NEW t \in Tids, RunChunk(t)
    PROVE  Accounted'
<1>. USE PoolAssumption DEF IInv
<1>1. RunShare(t) /\ pc[t] = "chunk" /\ next' = next /\ Ran(t)
  BY DEF RunShare, RunChunk
<1>2. /\ \A u \in 0 .. team - 1 : u # t => part'[u] = part[u]
      /\ pc'[t] = "grab" /\ part'[t].n = part[t].n
  BY DEF RunChunk, TypeOK, Go, NoPart
<1>3. job.chunk > 0 /\ job.chunk # 0
  BY <1>1, ShareFacts DEF Accounted, StaticShares
<1>4. part[t].n = job.n /\ part[t].hi <= next /\ part[t].hi <= job.n
      /\ part[t].lo \in Nat /\ part[t].hi \in Nat /\ next \in Nat
  BY <1>1, <1>3, ShareFacts DEF Accounted, ChunkShares, TypeOK
<1>5. \A i \in Indices : runs'[i] = IF Held(t, i) THEN runs[i] + 1 ELSE runs[i]
  BY <1>1, <1>4 DEF Ran, Held, Indices
<1>6. \A u \in 0 .. team - 1 : \A i \in Indices :
          Held(u, i)' <=> u # t /\ Held(u, i)
  BY <1>1, <1>2, ShareFacts DEF Held
<1>7. \A u \in 0 .. team - 1 :
          /\ pc'[u] # "range"
          /\ pc'[u] \in {"grab", "chunk"} => part'[u].n = job.n
          /\ pc'[u] = "chunk" => /\ part'[u].lo < part'[u].hi
                                /\ part'[u].hi <= next /\ part'[u].hi <= job.n
          /\ RanShare(u)' => next >= job.n
  BY <1>1, <1>2, <1>3, <1>4, ShareFacts DEF Accounted, ChunkShares, SharePC
<1>8. \A u, v \in 0 .. team - 1 : \A i \in Indices :
          Held(u, i)' /\ Held(v, i)' => u = v
  BY <1>1, <1>3, <1>6, ShareFacts DEF Accounted, ChunkShares
<1>9. \A i \in 0 .. job.n - 1 :
          runs'[i] = IF i < next /\ \A u \in 0 .. team - 1 : ~Held(u, i)'
                     THEN 1 ELSE 0
  <2>. SUFFICES ASSUME NEW i \in 0 .. job.n - 1
       PROVE runs'[i] = IF i < next /\ \A u \in 0 .. team - 1 : ~Held(u, i)'
                        THEN 1 ELSE 0
    OBVIOUS
  <2>1. runs[i] = IF i < next /\ \A u \in 0 .. team - 1 : ~Held(u, i)
                  THEN 1 ELSE 0
    BY <1>1, <1>3, ShareFacts DEF Accounted, ChunkShares
  <2>2. i \in Indices /\ t \in 0 .. team - 1
    BY <1>1, ShareFacts DEF Indices
  <2>3. CASE Held(t, i)
    <3>1. i < next
      BY <1>4, <2>3, <2>2 DEF Held, Indices
    <3>2. \A u \in 0 .. team - 1 : ~Held(u, i)'
      BY <1>1, <1>3, <1>6, <2>2, <2>3, ShareFacts DEF Accounted, ChunkShares
    <3>3. runs[i] = 0
      BY <2>1, <2>2, <2>3
    <3>. QED
      BY <1>5, <2>2, <2>3, <3>1, <3>2, <3>3
  <2>4. CASE ~Held(t, i)
    BY <1>5, <1>6, <2>1, <2>2, <2>4
  <2>. QED
    BY <2>3, <2>4
<1>10. ChunkShares'
  BY <1>1, <1>7, <1>8, <1>9, ShareFacts DEF ChunkShares
<1>. QED
  BY <1>1, <1>3, <1>10, ShareFacts DEF Accounted, StaticShares

LEMMA ShareAccounts ==
    ASSUME IInv, NEW t \in Tids, RunShare(t)
    PROVE  Accounted'
  BY EnterAccounts, GrabAccounts, RunRangeAccounts, RunChunkAccounts DEF RunShare

-----------------------------------------------------------------------------
(***************************************************************************)
(* The theorems.                                                           *)
(***************************************************************************)
LEMMA Step ==
    ASSUME IInv, [Next]_vars, Readmission = FALSE
    PROVE  IInv'
<1>. USE DEF IInv
<1>1. CASE CallerAlone
  <2>1. TypeOK'
    BY <1>1, CallerTypes
  <2>2. CallerInv' /\ WorkerInv' /\ Settled' /\ Counted'
    BY <1>1, PlainSteps, StartStep, TeamStep, PublishStep, WakeStep,
       JoinStep, StopSteps DEF CallerAlone
  <2>3. Accounted'
    BY <1>1, CallAccounts, PublishAccounts, WakeAccounts, JoinAccounts DEF CallerAlone
  <2>. QED
    BY <2>1, <2>2, <2>3
<1>2. ASSUME NEW t \in Tids, RunShare(t) PROVE IInv'
  BY <1>2, ShareTypes, ShareSteps, ShareAccounts
<1>3. ASSUME NEW w \in Workers, Worker(w) \/ SpuriousWakeup(w), ~RunShare(w)
      PROVE  IInv'
  <2>1. TypeOK'
    BY <1>3, WorkerTypes DEF Worker
  <2>2. CallerInv' /\ WorkerInv' /\ Settled' /\ Counted'
    BY <1>3, LoopSteps, AdmitSteps, CountStep DEF Worker
  <2>3. Accounted'
    BY <1>3, LoopAccounts
  <2>. QED
    BY <2>1, <2>2, <2>3
<1>4. CASE UNCHANGED vars
  <2>1. TypeOK' /\ CallerInv' /\ WorkerInv' /\ Settled' /\ Counted'
    BY <1>4 DEF vars, TypeOK, CallerInv, TakesBackNobody, WorkerInv, Busy,
                Settled, Counted, Finished, Published
  <2>2. AccountFrame
    BY <1>4 DEF vars, AccountFrame, RanShare
  <2>. QED
    BY <2>1, <2>2, Carried
<1>5. 0 \in Tids /\ Workers \subseteq Tids
  BY PoolAssumption DEF Tids, Workers
<1>. QED
  BY <1>1, <1>2, <1>3, <1>4, <1>5 DEF Next, CallStep, CallerAlone

THEOREM InvariantHolds == (Readmission = FALSE) /\ Spec => []IInv
<1>. SUFFICES ASSUME Readmission = FALSE PROVE Spec => []IInv
  OBVIOUS
<1>1. Init => IInv
  BY InitIInv
<1>2. IInv /\ [Next]_vars => IInv'
  BY Step
<1>. QED
  BY <1>1, <1>2, PTL DEF Spec

\* Type correctness: in particular no thread ever uses an undefined position
\* and every range it runs is a range of indices.
THEOREM TypeCorrect == (Readmission = FALSE) /\ Spec => []TypeOK
<1>1. IInv => TypeOK
  BY DEF IInv
<1>. QED
  BY <1>1, InvariantHolds, PTL

\* moty_par_for's implicit barrier, for every number of threads: outside a
\* published region no worker is in run_share, so par.c may rewrite the
\* region's plain fields without a lock.
THEOREM BarrierHolds == (Readmission = FALSE) /\ Spec => []Barrier
<1>1. IInv => Barrier
  BY DEF IInv, WorkerInv, Busy, Barrier
<1>. QED
  BY <1>1, InvariantHolds, PTL
\* A region ends when every index is done: moty_par_for returns with every
\* index of [0, n) run exactly once, static or dynamic, for every number of
\* threads, every schedule and every wrap of the generation counter.
THEOREM RegionsComplete == (Readmission = FALSE) /\ Spec => []RegionComplete
<1>1. IInv => RegionComplete
  BY DEF IInv, Accounted, Complete, RegionComplete
<1>. QED
  BY <1>1, InvariantHolds, PTL
-----------------------------------------------------------------------------
(***************************************************************************)
(* The pool implements the parallel loop: Begin is moty_par_for's entry,   *)
(* RunRange each call of fn, End the return, GiveUp a thread that cannot   *)
(* be created; everything else is a stutter of the region.                 *)
(***************************************************************************)
Open == pc[0] \notin {"idle", "stop", "reap"}

LEMMA RegionInit == Init => Region!Init
  BY PoolAssumption DEF Init, Region!Init, Region!Indices, Indices, Tids, NoJob

\* A step that leaves the arguments, the accounts and the call as they are.
LEMMA RegionStutter ==
    ASSUME Open' <=> Open, UNCHANGED <<arg, runs>>
    PROVE  UNCHANGED Region!vars
  BY DEF Open, Region!vars

\* The caller's steps outside run_share.
LEMMA RegionCaller ==
    ASSUME IInv, IInv', CallerAlone
    PROVE  [Region!Next]_(Region!vars)
<1>. USE PoolAssumption DEF IInv
<1>1. ASSUME NEW k \in 1 .. MaxTeam + 1, SetThreads(k)
      PROVE  UNCHANGED Region!vars
  BY <1>1 DEF SetThreads, Region!vars
<1>2. ASSUME NEW n \in 1 .. MaxN, NEW c \in Chunks, ParFor(n, c)
      PROVE  Region!Begin(n)
  <2>1. pc[0] = "idle" /\ pc'[0] \in {"inline", "start", "job"}
    BY <1>2, GoCaller DEF ParFor
  <2>2. arg'.n = n /\ runs' = [i \in Indices |-> 0]
    BY <1>2 DEF ParFor
  <2>. QED
    BY <2>1, <2>2 DEF Region!Begin, Region!Indices, Indices
<1>3. ASSUME RunInline
      PROVE  0 < arg.n /\ arg.n \in 0 .. MaxN /\ Region!RunRange(0, arg.n)
  <2>1. pc[0] = "inline" /\ pc'[0] = "return" /\ arg' = arg
    BY <1>3, GoCaller DEF RunInline
  <2>2. arg.n \in 0 .. MaxN /\ arg.n >= 1 /\ \A i \in Indices : runs[i] = 0
    BY <2>1, JobType DEF TypeOK, Accounted, SameJob, NotBegun
  <2>3. runs' = [i \in Indices |-> IF i \in 0 .. arg.n - 1 THEN 1 ELSE runs[i]]
    BY <1>3, <2>2 DEF RunInline, Indices
  <2>4. \A i \in 0 .. arg.n - 1 : i < arg.n /\ runs[i] = 0
    BY <2>2 DEF Indices
  <2>. QED
    BY <2>1, <2>2, <2>3, <2>4 DEF Region!RunRange, Region!Indices, Indices
<1>4. ASSUME ReturnInline PROVE Region!End
  <2>1. pc[0] = "return" /\ pc'[0] = "idle" /\ UNCHANGED <<arg, runs>>
    BY <1>4, GoCaller DEF ReturnInline
  <2>2. \A i \in 0 .. arg.n - 1 : runs[i] = 1
    BY <2>1 DEF Accounted, Complete
  <2>. QED
    BY <2>1, <2>2 DEF Region!End
<1>5. ASSUME StartFails PROVE Region!GiveUp
  <2>1. pc[0] = "start" /\ pc'[0] = "idle" /\ runs' = runs /\ arg'.n = 0
    BY <1>5, GoCaller DEF StartFails, NoJob
  <2>2. \A i \in Indices : runs[i] = 0
    BY <2>1 DEF Accounted, NotBegun
  <2>. QED
    BY <2>1, <2>2 DEF Region!GiveUp, Region!Indices, Indices
<1>6. ASSUME Join PROVE Region!End
  <2>1. pc[0] = "join" /\ pc'[0] = "idle" /\ UNCHANGED <<arg, runs>>
    BY <1>6, GoCaller DEF Join
  <2>2. \A i \in 0 .. arg.n - 1 : runs[i] = 1
    BY <2>1 DEF Accounted, Complete
  <2>. QED
    BY <2>1, <2>2 DEF Region!End
<1>7. ASSUME \/ StartWorker \/ SetJob \/ SetTeam \/ ResetNext \/ ResetDone
             \/ Publish \/ WakeNext \/ Shutdown \/ StopNext \/ Reap
      PROVE  UNCHANGED Region!vars
  <2>1. UNCHANGED <<arg, runs>>
    BY <1>7 DEF StartWorker, SetJob, SetTeam, ResetNext, ResetDone, Publish,
                WakeNext, Shutdown, StopNext, Reap
  <2>2. Open' <=> Open
    <3>1. CASE StartWorker
      <4>. DEFINE l == IF (started + 1) + 1 = want THEN "job" ELSE "start"
      <4>1. started + 1 \in Workers /\ pc[0] = "start" /\ l \in {"job", "start"}
        BY <3>1 DEF StartWorker, CallerInv, TypeOK, Workers
      <4>2. pc' = [pc EXCEPT ![started + 1] = "poll", ![0] = l]
        BY <3>1 DEF StartWorker
      <4>3. "poll" \in WorkerPC \cup SharePC /\ l \in CallerPC \cup SharePC
        BY <4>1 DEF CallerPC, WorkerPC
      <4>. HIDE DEF l
      <4>4. pc'[0] = l
        BY <4>1, <4>2, <4>3, GoBoth
      <4>. QED
        BY <4>1, <4>4 DEF Open
    <3>2. CASE SetJob \/ SetTeam \/ ResetNext \/ ResetDone \/ Publish \/ Shutdown \/ Reap
      BY <3>2, GoCaller DEF SetJob, SetTeam, ResetNext, ResetDone, Publish,
                            Shutdown, Reap, Open
    <3>3. CASE WakeNext
      <4>. DEFINE l == IF wk + 1 < want THEN "wake" ELSE "share"
      <4>1. wk \in Workers /\ pc[0] = "wake"
        BY <3>3 DEF WakeNext, CallerInv, TypeOK, Workers
      <4>2. l \in CallerPC \cup SharePC /\ (Signal(wk, l) \/ Go(0, l))
            /\ l \in {"wake", "share"}
        BY <3>3 DEF CallerPC, SharePC, WakeNext
      <4>. HIDE DEF l
      <4>. QED
        BY <4>1, <4>2, SignalMoves DEF Open
    <3>4. CASE StopNext
      <4>. DEFINE l == IF wk < started THEN "stop" ELSE "reap"
      <4>1. wk \in Workers /\ pc[0] = "stop"
        BY <3>4 DEF StopNext, CallerInv, TypeOK, Workers
      <4>2. l \in CallerPC \cup SharePC /\ Signal(wk, l) /\ l \in {"stop", "reap"}
        BY <3>4 DEF StopNext, CallerPC
      <4>. HIDE DEF l
      <4>. QED
        BY <4>1, <4>2, SignalMoves DEF Open
    <3>. QED
      BY <1>7, <3>1, <3>2, <3>3, <3>4
  <2>. QED
    BY <2>1, <2>2, RegionStutter
<1>8. \A n \in 1 .. MaxN : Region!Begin(n) => Region!Next
  BY DEF Region!Next
<1>9. \A lo, hi \in 0 .. MaxN : lo < hi /\ Region!RunRange(lo, hi) => Region!Next
  BY DEF Region!Next
<1>10. Region!End \/ Region!GiveUp => Region!Next
  BY DEF Region!Next
<1>11. 0 \in 0 .. MaxN
  OBVIOUS
<1>12. CASE RunInline
  BY <1>3, <1>9, <1>11, <1>12
<1>. QED
  BY <1>1, <1>2, <1>4, <1>5, <1>6, <1>7, <1>8, <1>10, <1>12 DEF CallerAlone

\* One call of fn: the thread's range is not empty, lies inside the region,
\* and no index of it has run.
LEMMA PartTrue ==
    ASSUME IInv, NEW t \in Tids, RunRange(t) \/ RunChunk(t)
    PROVE  /\ part[t].lo \in 0 .. MaxN /\ part[t].hi \in 0 .. MaxN
           /\ part[t].lo < part[t].hi /\ part[t].hi <= arg.n
           /\ \A i \in part[t].lo .. part[t].hi - 1 : i \in Indices /\ runs[i] = 0
<1>. USE DEF IInv
<1>1. RunShare(t)
  BY DEF RunShare
<1>2. part[t].lo \in Nat /\ part[t].hi \in Nat
  BY <1>1, ShareFacts, OtherParts
<1>3. job = arg /\ job.n \in 0 .. MaxN /\ MaxN \in Nat
  BY <1>1, ShareFacts, PoolAssumption
<1>4. CASE RunRange(t)
  <2>1. job.chunk = 0 /\ pc[t] = "range"
    BY <1>1, <1>4, ShareFacts DEF Accounted, ChunkShares, RunRange
  <2>2. part[t] = Own(t) /\ Own(t).lo < Own(t).hi
        /\ \A i \in Indices : i \in Own(t).lo .. Own(t).hi - 1 => runs[i] = 0
    BY <1>1, <2>1, ShareFacts DEF Accounted, StaticShares
  <2>3. Own(t).hi <= job.n
    <3>1. job.n \in Nat /\ team \in Nat /\ team > 0 /\ t \in Nat /\ t < team
      BY <1>1, <1>3, ShareFacts
    <3>. QED
      BY <3>1, ParRangeWithin DEF Own
  <2>4. part[t].hi <= arg.n /\ part[t].lo < part[t].hi
    BY <1>3, <2>2, <2>3
  <2>5. \A i \in part[t].lo .. part[t].hi - 1 : i \in Indices
    BY <1>2, <1>3, <2>4 DEF Indices
  <2>. QED
    BY <1>2, <1>3, <2>2, <2>4, <2>5
<1>5. CASE RunChunk(t)
  <2>1. job.chunk > 0 /\ pc[t] = "chunk"
    BY <1>1, <1>5, ShareFacts DEF Accounted, StaticShares, RunChunk
  <2>2. part[t].lo < part[t].hi /\ part[t].hi <= job.n
    BY <1>1, <2>1, ShareFacts DEF Accounted, ChunkShares
  <2>3. \A i \in part[t].lo .. part[t].hi - 1 :
            i \in Indices /\ i \in 0 .. job.n - 1 /\ Held(t, i)
    BY <1>2, <1>3, <2>1, <2>2 DEF Indices, Held
  <2>4. \A i \in part[t].lo .. part[t].hi - 1 : runs[i] = 0
    BY <1>1, <2>1, <2>3, ShareFacts DEF Accounted, ChunkShares
  <2>. QED
    BY <1>2, <1>3, <2>2, <2>3, <2>4
<1>. QED
  BY <1>4, <1>5

LEMMA RegionShare ==
    ASSUME IInv, NEW t \in Tids, RunShare(t)
    PROVE  [Region!Next]_(Region!vars)
<1>. USE DEF IInv
<1>1. Open /\ Open' /\ arg' = arg
  BY ShareFacts DEF Published, SharePC, Open
<1>2. CASE EnterShare(t) \/ Grab(t)
  <2>1. runs' = runs
    BY <1>2 DEF EnterShare, Grab
  <2>. QED
    BY <1>1, <2>1, RegionStutter
<1>3. CASE RunRange(t) \/ RunChunk(t)
  <2>. DEFINE lo == part[t].lo
              hi == part[t].hi
  <2>1. /\ lo \in 0 .. MaxN /\ hi \in 0 .. MaxN /\ lo < hi /\ hi <= arg.n
        /\ \A i \in lo .. hi - 1 : i \in Indices /\ runs[i] = 0
    BY <1>3, PartTrue
  <2>2. runs' = [i \in Indices |-> IF i \in lo .. hi - 1 THEN runs[i] + 1 ELSE runs[i]]
    BY <1>3 DEF RunRange, RunChunk, Ran
  <2>. HIDE DEF lo, hi
  <2>3. runs' = [i \in Indices |-> IF i \in lo .. hi - 1 THEN 1 ELSE runs[i]]
    BY <2>1, <2>2
  <2>4. \A i \in lo .. hi - 1 : i < arg.n
    <3>1. arg.n \in Nat /\ lo \in Nat /\ hi \in Nat
      BY <2>1, JobType, PoolAssumption DEF TypeOK
    <3>. QED
      BY <2>1, <3>1
  <2>5. Region!RunRange(lo, hi)
    BY <1>1, <2>1, <2>3, <2>4 DEF Region!RunRange, Region!Indices, Indices, Open
  <2>. QED
    BY <2>1, <2>5 DEF Region!Next
<1>. QED
  BY <1>2, <1>3 DEF RunShare

LEMMA RegionStep ==
    ASSUME IInv, IInv', [Next]_vars
    PROVE  [Region!Next]_(Region!vars)
<1>. USE DEF IInv
<1>1. CASE CallerAlone
  BY <1>1, RegionCaller
<1>2. ASSUME NEW t \in Tids, RunShare(t) PROVE [Region!Next]_(Region!vars)
  BY <1>2, RegionShare
<1>3. ASSUME NEW w \in Workers, Worker(w) \/ SpuriousWakeup(w), ~RunShare(w)
      PROVE  UNCHANGED Region!vars
  <2>1. PICK l : Go(w, l)
    BY <1>3 DEF Worker, Poll, Spin, QuitOrGo, Admit, FallAsleep, SleepQuit,
                SleepLoad, SleepAdmit, CondWait, CountDone, SpuriousWakeup
  <2>2. UNCHANGED <<arg, runs>>
    BY <1>3 DEF Worker, Poll, Spin, QuitOrGo, Admit, FallAsleep, SleepQuit,
                SleepLoad, SleepAdmit, CondWait, CountDone, SpuriousWakeup, WorkerOnly
  <2>. QED
    BY <2>1, <2>2, GoWorker, RegionStutter DEF Open
<1>4. CASE UNCHANGED vars
  BY <1>4 DEF vars, Region!vars
<1>5. 0 \in Tids /\ Workers \subseteq Tids
  BY PoolAssumption DEF Tids, Workers
<1>. QED
  BY <1>1, <1>2, <1>3, <1>4, <1>5 DEF Next, CallStep, CallerAlone

\* The pool is the parallel loop of par.h: every step of every schedule is a
\* step of one region at a time in which each index runs once, or invisible.
THEOREM PoolImplementsRegion == (Readmission = FALSE) /\ Spec => RegionSpec
<1>1. Init => Region!Init
  BY RegionInit
<1>2. IInv /\ IInv' /\ [Next]_vars => [Region!Next]_(Region!vars)
  BY RegionStep
<1>. QED
  BY <1>1, <1>2, InvariantHolds, PTL DEF Spec, RegionSpec, Region!Spec
=============================================================================
