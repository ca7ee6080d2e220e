----------------------------- MODULE ThreadPool ------------------------------
(***************************************************************************)
(* The pthread pool behind moty_par_for (src/c/nn/par.c, the               *)
(* MOTY_THREADPOOL backend).  One caller (tid 0) runs regions; workers     *)
(* 1 .. started poll the generation counter P.gen, sleep on a condition    *)
(* variable, run their share of a region and count themselves in P.done.   *)
(*                                                                         *)
(* One action per access to shared memory that another thread can tell     *)
(* from its neighbours; the atomics are taken as sequentially consistent.  *)
(* A worker's flag `sleeping` and the owner of its mutex are functions of  *)
(* its program counter (Sleeping, Holds): both change in the step in which *)
(* the worker enters or leaves the sleeping part of its loop.              *)
(***************************************************************************)
EXTENDS Integers, FiniteSets

CONSTANTS MaxTeam,     \* PAR_MAX: no team is larger
          MaxN,        \* the largest n of a region
          Chunks,      \* the chunk arguments used: 0 is the static split
          GenMod,      \* P.gen is an unsigned counter: 2^32 in the code
          Readmission  \* may a region take back a worker a previous one left out?

ASSUME PoolAssumption ==
    /\ MaxTeam \in Nat /\ MaxTeam >= 2
    /\ MaxN \in Nat /\ MaxN >= 1
    /\ Chunks \subseteq Nat
    /\ GenMod \in Nat /\ GenMod >= 2
    /\ Readmission \in BOOLEAN

VARIABLES pc,       \* where each thread is; pc[0] is the caller
          want,     \* P.want: team size of the next region
          started,  \* P.started: workers 1 .. started exist
          quit,     \* P.quit
          gen,      \* P.gen
          team,     \* P.team
          job,      \* P.n and P.chunk (P.fn and P.ctx go with them)
          next,     \* P.next: first index not handed out (dynamic)
          done,     \* P.done
          seen,     \* worker: local `seen`, the last generation it dealt with
          got,      \* worker: local `g`, the generation it has just loaded
          part,     \* thread: the range it runs, and n as it read it
          wk,       \* caller: loop variable of the signalling loops
          arg,      \* caller: the arguments of moty_par_for
          runs,     \* history: how often each index ran in this region
          fresh     \* history: workers created since a region was published

vars == <<pc, want, started, quit, gen, team, job, next, done, seen, got,
          part, wk, arg, runs, fresh>>

Tids    == 0 .. MaxTeam - 1
Workers == 1 .. MaxTeam - 1
Indices == 0 .. MaxN - 1
Gens    == 0 .. GenMod - 1
Jobs    == [n : 0 .. MaxN, chunk : Chunks \cup {0}]
NoJob   == [n |-> 0, chunk |-> 0]
NoPart  == [lo |-> 0, hi |-> 0, n |-> 0]

CallerPC == {"idle", "inline", "return", "start", "job", "team", "next",
             "done", "gen", "wake", "join", "stop", "reap"}
SharePC  == {"share", "range", "grab", "chunk"}      \* inside run_share
LockPC   == {"quit2", "load", "admit2", "towait"}    \* owns its mutex
WorkerPC == {"off", "poll", "spin", "got", "admit", "lock", "wait", "woken",
             "count"} \cup LockPC

Holds(w)    == pc[w] \in LockPC
Sleeping(w) == pc[w] \in LockPC \cup {"wait", "woken"}
InShare(w)  == pc[w] \in SharePC
Go(t, l)    == pc' = [pc EXCEPT ![t] = l]

\* Mutant: the last thread does not get the remainder of the division.
ParRangeShort(n, t, nt) ==
    [lo |-> t * (n \div nt), hi |-> (t + 1) * (n \div nt), n |-> n]

\* The static split: thread t of nt gets one contiguous range of [0, n).
ParRange(n, t, nt) ==
    LET q  == n \div nt
        r  == n % nt
        lo == t * q + (IF t < r THEN t ELSE r)
    IN  [lo |-> lo, hi |-> lo + q + (IF t < r THEN 1 ELSE 0), n |-> n]

Init == /\ pc = [t \in Tids |-> IF t = 0 THEN "idle" ELSE "off"]
        /\ want \in 1 .. MaxTeam          \* moty_par_procs()
        /\ started = 0 /\ quit = 0 /\ gen = 0 /\ team = 0
        /\ job = NoJob /\ next = 0 /\ done = 0
        /\ seen = [w \in Workers |-> 0]
        /\ got = [w \in Workers |-> 0]
        /\ part = [t \in Tids |-> NoPart]
        /\ wk = 1 /\ arg = NoJob
        /\ runs = [i \in Indices |-> 0]
        /\ fresh = {}

-----------------------------------------------------------------------------
(***************************************************************************)
(* The caller: moty_par_set_threads and moty_par_for.                      *)
(***************************************************************************)
\* Mutant: no more workers than PAR_MAX, but a larger team.
SetThreadsUnclamped(k) ==
    /\ pc[0] = "idle"
    /\ want' = k
    /\ UNCHANGED <<pc, started, quit, gen, team, job, next, done, seen, got,
                   part, wk, arg, runs, fresh>>

SetThreads(k) ==
    /\ pc[0] = "idle"
    /\ want' = IF k > MaxTeam THEN MaxTeam ELSE k
    /\ UNCHANGED <<pc, started, quit, gen, team, job, next, done, seen, got,
                   part, wk, arg, runs, fresh>>

\* Does the next region leave alone the workers an earlier one left out?  A
\* worker not in P.team may still be about to compare its tid with P.team for
\* a generation it loaded long ago, unless it was created since.
TakesBackNobody ==
    \A w \in 1 .. started : w < want => w < team \/ w \in fresh

\* A region of one thread runs on the caller without touching the pool.
ParFor(n, c) ==
    /\ pc[0] = "idle"
    /\ want = 1 \/ Readmission \/ TakesBackNobody
    /\ arg' = [n |-> n, chunk |-> c]
    /\ runs' = [i \in Indices |-> 0]
    /\ Go(0, IF want = 1 THEN "inline"
             ELSE IF want > started + 1 THEN "start" ELSE "job")
    /\ UNCHANGED <<want, started, quit, gen, team, job, next, done, seen,
                   got, part, wk, fresh>>

RunInline ==
    /\ pc[0] = "inline"
    /\ runs' = [i \in Indices |-> IF i < arg.n THEN runs[i] + 1 ELSE runs[i]]
    /\ Go(0, "return")
    /\ UNCHANGED <<want, started, quit, gen, team, job, next, done, seen,
                   got, part, wk, arg, fresh>>

ReturnInline ==
    /\ pc[0] = "return"
    /\ Go(0, "idle")
    /\ UNCHANGED <<want, started, quit, gen, team, job, next, done, seen,
                   got, part, wk, arg, runs, fresh>>

\* start_workers: the new thread starts from the generation of now.
StartWorker ==
    /\ pc[0] = "start"
    /\ LET w == started + 1 IN
       /\ pc' = [pc EXCEPT ![w] = "poll",
                           ![0] = IF w + 1 = want THEN "job" ELSE "start"]
       /\ seen' = [seen EXCEPT ![w] = gen]
       /\ got' = [got EXCEPT ![w] = gen]
       /\ started' = w
       /\ fresh' = fresh \cup {w}
    /\ UNCHANGED <<want, quit, gen, team, job, next, done, part, wk, arg,
                   runs>>

\* pthread_create fails: moty_fail_code leaves moty_par_for by longjmp, the
\* workers already created stay.
StartFails ==
    /\ pc[0] = "start"
    /\ arg' = NoJob
    /\ Go(0, "idle")
    /\ UNCHANGED <<want, started, quit, gen, team, job, next, done, seen,
                   got, part, wk, runs, fresh>>

SetJob ==
    /\ pc[0] = "job"
    /\ job' = arg
    /\ Go(0, "team")
    /\ UNCHANGED <<want, started, quit, gen, team, next, done, seen, got,
                   part, wk, arg, runs, fresh>>

SetTeam ==
    /\ pc[0] = "team"
    /\ team' = want
    /\ Go(0, "next")
    /\ UNCHANGED <<want, started, quit, gen, job, next, done, seen, got,
                   part, wk, arg, runs, fresh>>

ResetNext ==
    /\ pc[0] = "next"
    /\ next' = 0
    /\ Go(0, "done")
    /\ UNCHANGED <<want, started, quit, gen, team, job, done, seen, got,
                   part, wk, arg, runs, fresh>>

\* Mutant: the workers of the last region still count.
DoneKept ==
    /\ pc[0] = "done"
    /\ Go(0, "gen")
    /\ UNCHANGED <<want, started, quit, gen, team, job, next, done, seen, got,
                   part, wk, arg, runs, fresh>>

ResetDone ==
    /\ pc[0] = "done"
    /\ done' = 0
    /\ Go(0, "gen")
    /\ UNCHANGED <<want, started, quit, gen, team, job, next, seen, got,
                   part, wk, arg, runs, fresh>>

Publish ==
    /\ pc[0] = "gen"
    /\ gen' = (gen + 1) % GenMod
    /\ fresh' = {}
    /\ wk' = 1
    /\ Go(0, "wake")
    /\ UNCHANGED <<want, started, quit, team, job, next, done, seen, got,
                   part, arg, runs>>

\* Lock, signal, unlock: possible while the worker does not own its mutex,
\* lost unless it waits.
Signal(w, l) ==
    /\ ~Holds(w)
    /\ pc' = [pc EXCEPT ![w] = IF pc[w] = "wait" THEN "woken" ELSE pc[w],
                        ![0] = l]

\* Mutant: a worker that sleeps is left asleep.
WakeNobody ==
    /\ pc[0] = "wake"
    /\ Go(0, IF wk + 1 < want THEN "wake" ELSE "share")
    /\ wk' = wk + 1
    /\ UNCHANGED <<want, started, quit, gen, team, job, next, done, seen,
                   got, part, arg, runs, fresh>>

WakeNext ==
    /\ pc[0] = "wake"
    /\ LET l == IF wk + 1 < want THEN "wake" ELSE "share" IN
       IF Sleeping(wk) THEN Signal(wk, l) ELSE Go(0, l)
    /\ wk' = wk + 1
    /\ UNCHANGED <<want, started, quit, gen, team, job, next, done, seen,
                   got, part, arg, runs, fresh>>

\* Mutant: the caller counts itself among the workers it waits for.
JoinEarly ==
    /\ pc[0] = "join"
    /\ done + 1 >= want - 1
    /\ Go(0, "idle")
    /\ UNCHANGED <<want, started, quit, gen, team, job, next, done, seen,
                   got, part, wk, arg, runs, fresh>>

Join ==
    /\ pc[0] = "join"
    /\ done >= want - 1
    /\ Go(0, "idle")
    /\ UNCHANGED <<want, started, quit, gen, team, job, next, done, seen,
                   got, part, wk, arg, runs, fresh>>

-----------------------------------------------------------------------------
(***************************************************************************)
(* run_share: the caller (t = 0) and every worker of the team.             *)
(***************************************************************************)
AfterShare(t) == IF t = 0 THEN "join" ELSE "count"

EnterShare(t) ==
    /\ pc[t] = "share"
    /\ LET p == ParRange(job.n, t, team) IN
       IF job.chunk > 0
       THEN /\ part' = [part EXCEPT ![t] = [NoPart EXCEPT !.n = job.n]]
            /\ Go(t, "grab")
       ELSE IF p.lo < p.hi
            THEN part' = [part EXCEPT ![t] = p] /\ Go(t, "range")
            ELSE UNCHANGED part /\ Go(t, AfterShare(t))
    /\ UNCHANGED <<want, started, quit, gen, team, job, next, done, seen,
                   got, wk, arg, runs, fresh>>

\* Mutant: the last chunk is a whole one.
GrabUncut(t) ==
    /\ pc[t] = "grab"
    /\ next' = next + job.chunk
    /\ IF next >= part[t].n
       THEN part' = [part EXCEPT ![t] = NoPart] /\ Go(t, AfterShare(t))
       ELSE /\ part' = [part EXCEPT ![t].lo = next, ![t].hi = next']
            /\ Go(t, "chunk")
    /\ UNCHANGED <<want, started, quit, gen, team, job, done, seen, got, wk,
                   arg, runs, fresh>>

\* atomic_fetch_add(&P.next, P.chunk); the last chunk is cut at n.
Grab(t) ==
    /\ pc[t] = "grab"
    /\ next' = next + job.chunk
    /\ LET n  == part[t].n
           hi == next + job.chunk
       IN  IF next >= n
           THEN part' = [part EXCEPT ![t] = NoPart] /\ Go(t, AfterShare(t))
           ELSE /\ part' = [part EXCEPT ![t] =
                      [lo |-> next, hi |-> IF hi < n THEN hi ELSE n, n |-> n]]
                /\ Go(t, "chunk")
    /\ UNCHANGED <<want, started, quit, gen, team, job, done, seen, got, wk,
                   arg, runs, fresh>>

\* fn(ctx, lo, hi, t) returns.
Ran(t) == runs' = [i \in Indices |-> IF i \in part[t].lo .. part[t].hi - 1
                                     THEN runs[i] + 1 ELSE runs[i]]

RunRange(t) ==
    /\ pc[t] = "range"
    /\ Ran(t)
    /\ part' = [part EXCEPT ![t] = NoPart]
    /\ Go(t, AfterShare(t))
    /\ UNCHANGED <<want, started, quit, gen, team, job, next, done, seen,
                   got, wk, arg, fresh>>

RunChunk(t) ==
    /\ pc[t] = "chunk"
    /\ Ran(t)
    /\ part' = [part EXCEPT ![t] = [NoPart EXCEPT !.n = part[t].n]]
    /\ Go(t, "grab")
    /\ UNCHANGED <<want, started, quit, gen, team, job, next, done, seen,
                   got, wk, arg, fresh>>

RunShare(t) == EnterShare(t) \/ Grab(t) \/ RunRange(t) \/ RunChunk(t)

-----------------------------------------------------------------------------
(***************************************************************************)
(* The worker's loop.                                                      *)
(***************************************************************************)
WorkerOnly == UNCHANGED <<want, started, quit, gen, team, job, next, part,
                          wk, arg, runs, fresh>>

\* Top of the loop: in the team it polls (unless spin_us is 0), else not.
Poll(w) ==
    /\ pc[w] = "poll"
    /\ \/ w < team /\ Go(w, "spin")
       \/ Go(w, "got")
    /\ got' = [got EXCEPT ![w] = seen[w]]
    /\ WorkerOnly /\ UNCHANGED <<done, seen>>

\* Mutant: spin_us is not looked at.
SpinForever(w) ==
    /\ pc[w] = "spin"
    /\ gen # seen[w] \/ quit = 1
    /\ got' = [got EXCEPT ![w] = gen]
    /\ Go(w, "got")
    /\ WorkerOnly /\ UNCHANGED <<done, seen>>

\* The polling loop ends: a new generation, quit, or spin_us is over.
Spin(w) ==
    /\ pc[w] = "spin"
    /\ got' = [got EXCEPT ![w] = gen]
    /\ Go(w, "got")
    /\ WorkerOnly /\ UNCHANGED <<done, seen>>

QuitOrGo(w) ==
    /\ pc[w] = "got"
    /\ Go(w, IF quit = 1 THEN "off" ELSE IF got[w] = seen[w] THEN "lock"
             ELSE "admit")
    /\ WorkerOnly /\ UNCHANGED <<done, seen, got>>

\* A region without this worker is skipped.
Admit(w) ==
    /\ pc[w] = "admit"
    /\ seen' = [seen EXCEPT ![w] = got[w]]
    /\ Go(w, IF w < team THEN "share" ELSE "poll")
    /\ WorkerOnly /\ UNCHANGED <<done, got>>

\* pthread_mutex_lock; sleeping = 1
FallAsleep(w) ==
    /\ pc[w] \in {"lock", "woken"}
    /\ Go(w, "quit2")
    /\ WorkerOnly /\ UNCHANGED <<done, seen, got>>

SleepQuit(w) ==
    /\ pc[w] = "quit2"
    /\ Go(w, IF quit = 1 THEN "off" ELSE "load")
    /\ WorkerOnly /\ UNCHANGED <<done, seen, got>>

SleepLoad(w) ==
    /\ pc[w] = "load"
    /\ got' = [got EXCEPT ![w] = gen]
    /\ Go(w, IF gen = seen[w] THEN "towait" ELSE "admit2")
    /\ WorkerOnly /\ UNCHANGED <<done, seen>>

SleepAdmit(w) ==
    /\ pc[w] = "admit2"
    /\ seen' = [seen EXCEPT ![w] = got[w]]
    /\ Go(w, IF w < team THEN "share" ELSE "towait")
    /\ WorkerOnly /\ UNCHANGED <<done, got>>

CondWait(w) ==
    /\ pc[w] = "towait"
    /\ Go(w, "wait")
    /\ WorkerOnly /\ UNCHANGED <<done, seen, got>>

\* pthread_cond_wait may return without a signal.
SpuriousWakeup(w) ==
    /\ pc[w] = "wait"
    /\ Go(w, "woken")
    /\ WorkerOnly /\ UNCHANGED <<done, seen, got>>

CountDone(w) ==
    /\ pc[w] = "count"
    /\ done' = done + 1
    /\ Go(w, "poll")
    /\ WorkerOnly /\ UNCHANGED <<seen, got>>

Worker(w) == \/ Poll(w) \/ Spin(w) \/ QuitOrGo(w) \/ Admit(w)
             \/ FallAsleep(w) \/ SleepQuit(w) \/ SleepLoad(w)
             \/ SleepAdmit(w) \/ CondWait(w) \/ RunShare(w) \/ CountDone(w)

-----------------------------------------------------------------------------
(***************************************************************************)
(* moty_par_shutdown.                                                      *)
(***************************************************************************)
Shutdown ==
    /\ pc[0] = "idle"
    /\ started > 0
    /\ quit' = 1
    /\ wk' = 1
    /\ Go(0, "stop")
    /\ UNCHANGED <<want, started, gen, team, job, next, done, seen, got,
                   part, arg, runs, fresh>>

StopNext ==
    /\ pc[0] = "stop"
    /\ Signal(wk, IF wk < started THEN "stop" ELSE "reap")
    /\ wk' = wk + 1
    /\ UNCHANGED <<want, started, quit, gen, team, job, next, done, seen,
                   got, part, arg, runs, fresh>>

Reap ==
    /\ pc[0] = "reap"
    /\ \A w \in 1 .. started : pc[w] = "off"      \* pthread_join, in turn
    /\ started' = 0
    /\ quit' = 0
    /\ fresh' = {}
    /\ Go(0, "idle")
    /\ seen' = [w \in Workers |-> 0]              \* dead threads' locals
    /\ got' = [w \in Workers |-> 0]
    /\ UNCHANGED <<want, gen, team, job, next, done, part, wk, arg, runs>>

-----------------------------------------------------------------------------
CallStep == \/ RunInline \/ ReturnInline \/ StartWorker \/ SetJob
            \/ SetTeam \/ ResetNext \/ ResetDone \/ Publish \/ WakeNext
            \/ RunShare(0) \/ Join \/ StopNext \/ Reap

Next == \/ \E k \in 1 .. MaxTeam + 1 : SetThreads(k)
        \/ \E n \in 1 .. MaxN, c \in Chunks : ParFor(n, c)
        \/ StartFails
        \/ Shutdown
        \/ CallStep
        \/ \E w \in Workers : Worker(w) \/ SpuriousWakeup(w)

Spec == Init /\ [][Next]_vars

\* Every thread keeps running, and a mutex that is free again and again is
\* eventually had (strong fairness of the two signalling loops); nobody has
\* to call the pool, no wake-up is owed without a signal.
Fairness == /\ WF_vars(CallStep)
            /\ SF_vars(WakeNext \/ StopNext)
            /\ \A w \in Workers : WF_vars(Worker(w))

FairSpec == Spec /\ Fairness

-----------------------------------------------------------------------------
(***************************************************************************)
(* Properties.                                                             *)
(***************************************************************************)
TypeOK ==
    /\ pc \in [Tids -> CallerPC \cup SharePC \cup WorkerPC]
    /\ pc[0] \in CallerPC \cup SharePC
    /\ \A w \in Workers : pc[w] \in WorkerPC \cup SharePC
    /\ want \in 1 .. MaxTeam
    /\ started \in 0 .. MaxTeam - 1
    /\ quit \in {0, 1}
    /\ gen \in Gens
    /\ team \in 0 .. MaxTeam
    /\ job \in Jobs /\ arg \in Jobs
    /\ next \in Nat /\ done \in Nat
    /\ seen \in [Workers -> Gens] /\ got \in [Workers -> Gens]
    /\ part \in [Tids -> [lo : Nat, hi : Nat, n : 0 .. MaxN]]
    /\ wk \in 1 .. MaxTeam
    /\ runs \in [Indices -> Nat]
    /\ fresh \subseteq Workers

\* moty_par_for has returned: every index of the region has run, and none
\* twice, however the threads were scheduled (par.h: "a region ends when
\* every index is done").
RegionComplete ==
    pc[0] = "idle" => \A i \in 0 .. arg.n - 1 : runs[i] = 1

\* The barrier, seen from the shared fields: outside a published region no
\* worker is inside run_share or about to count itself in P.done, so P.fn,
\* P.ctx, P.n, P.chunk (plain fields), P.next and P.done are rewritten while
\* nobody uses them.
Published == pc[0] \in SharePC \cup {"wake", "join"}
Barrier   == Published \/ \A w \in Workers : pc[w] \notin SharePC \cup {"count"}

\* Every moty_par_for and every moty_par_shutdown returns: no wake-up is
\* lost between a worker falling asleep and the publisher looking at it.
CallsReturn == pc[0] # "idle" ~> pc[0] = "idle"

\* "Asleep, a worker costs no CPU": left alone, the pool goes to sleep.
PoolFallsAsleep ==
    pc[0] = "idle" ~> \/ pc[0] # "idle"
                      \/ \A w \in 1 .. started : Sleeping(w)

\* The pool implements the parallel loop of par.h.
Region == INSTANCE ParRegion WITH
              open <- pc[0] \notin {"idle", "stop", "reap"},
              size <- arg.n
RegionSpec == Region!Spec
=============================================================================
