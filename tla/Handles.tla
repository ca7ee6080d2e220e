------------------------------- MODULE Handles -------------------------------
(***************************************************************************)
(* Several handles in one process (src/c/api/api.c): every call takes      *)
(* g_api_mu, sets the process-wide knobs of its handle - the team size of  *)
(* the pool, the sampling parameters, the random state - and runs.  A      *)
(* thread uses one handle; the random state is a stream and the draws made *)
(* from it.                                                                *)
(***************************************************************************)
EXTENDS Naturals, FiniteSets

CONSTANTS Handles,
          Threads,      \* options: threads and threads_decode, 0 is "default"
          Procs,        \* moty_par_procs()
          MaxTeam,      \* PAR_MAX
          Params,       \* temperature (above 0) and top_p of a call
          Seeds,        \* 0: go on with the current state
          Decodes,      \* bound: tokens of a call
          Calls,        \* bound: calls of a handle
          NoOne         \* the lock is free

HandlesAssumption ==
    /\ NoOne \notin Handles /\ Params # {}
    /\ Threads \subseteq Nat /\ Procs \in Nat \ {0} /\ MaxTeam \in Nat \ {0}
    /\ Seeds \subseteq Nat /\ Decodes \in Nat /\ Calls \in Nat

VARIABLES pc,          \* per handle: "new", "ready", "wait", "locked", "prefill",
                       \* "decode", "restore", "closed"
          opt,         \* handle -> [th, thd]: its options
          rows,        \* handle -> rows of its attention scratch (att_sc)
          args,        \* handle -> [par, seed]: the call's sampling
          made,        \* handle -> tokens of this call
          calls,       \* handle -> calls it has made
          mu,          \* g_api_mu
          team,        \* moty_par_threads()
          params,      \* moty_g_temp, moty_g_nuc
          rng          \* moty_g_rng: <<stream, draws made from it>>

vars == <<pc, opt, rows, args, made, calls, mu, team, params, rng>>

Options == [th : Threads, thd : Threads]
ClampNot(n) == n                          \* mutant
Clamp(n)  == IF n > MaxTeam THEN MaxTeam ELSE n
TeamOf(h)     == Clamp(IF opt[h].th = 0 THEN Procs ELSE opt[h].th)
DecodeTeam(h) == IF opt[h].thd = 0 THEN TeamOf(h) ELSE Clamp(opt[h].thd)

Init == /\ pc = [h \in Handles |-> "new"]
        /\ opt \in [Handles -> Options]
        /\ rows = [h \in Handles |-> 0]
        /\ args \in [Handles -> {[par |-> p, seed |-> 0] : p \in Params}]
        /\ made = [h \in Handles |-> 0] /\ calls = [h \in Handles |-> 0]
        /\ mu = NoOne
        /\ team = Clamp(Procs) /\ params = CHOOSE p \in Params : TRUE
        /\ rng = <<0, 0>>

Go(h, from, to) == pc[h] = from /\ pc' = [pc EXCEPT ![h] = to]
Lock(h)   == mu = NoOne /\ mu' = h
Unlock(h) == mu = h /\ mu' = NoOne

-----------------------------------------------------------------------------
\* moty_model_open: the KV cache and its scratch are made for this team.
Open(h) == /\ Go(h, "new", "ready")
           /\ mu = NoOne
           /\ team' = TeamOf(h)
           /\ rows' = [rows EXCEPT ![h] = TeamOf(h)]
           /\ UNCHANGED <<opt, args, made, calls, mu, params, rng>>

\* moty_generate: the arguments are checked, then the lock is taken.
Generate(h) == /\ Go(h, "ready", "wait")
               /\ calls[h] < Calls
               /\ args' \in {[args EXCEPT ![h] = [par |-> p, seed |-> s]] :
                                p \in Params, s \in Seeds}
               /\ made' = [made EXCEPT ![h] = 0]
               /\ calls' = [calls EXCEPT ![h] = @ + 1]
               /\ UNCHANGED <<opt, rows, mu, team, params, rng>>

Enter(h) == /\ Go(h, "wait", "locked")
            /\ Lock(h)
            /\ UNCHANGED <<opt, rows, args, made, calls, team, params, rng>>

\* The mutants leave one knob as the call before it left it.
ConfigureTeamOnly(h) == /\ Go(h, "locked", "prefill")
                        /\ team' = TeamOf(h)
                        /\ rng' = IF args[h].seed # 0 THEN <<args[h].seed, 0>> ELSE rng
                        /\ UNCHANGED <<opt, rows, args, made, calls, mu, params>>
ConfigureUnseeded(h) == /\ Go(h, "locked", "prefill")
                        /\ team' = TeamOf(h)
                        /\ params' = args[h].par
                        /\ UNCHANGED <<opt, rows, args, made, calls, mu, rng>>

Configure(h) == /\ Go(h, "locked", "prefill")
                /\ team' = TeamOf(h)
                /\ params' = args[h].par
                /\ rng' = IF args[h].seed # 0 THEN <<args[h].seed, 0>> ELSE rng
                /\ UNCHANGED <<opt, rows, args, made, calls, mu>>

\* The prompt is fed and decoding starts with its own team.
Prefill(h) == /\ Go(h, "prefill", "decode")
              /\ team' = DecodeTeam(h)
              /\ UNCHANGED <<opt, rows, args, made, calls, mu, params, rng>>

\* A token is drawn and fed.
Decode(h) == /\ pc[h] = "decode" /\ made[h] < Decodes
             /\ rng' = <<rng[1], rng[2] + 1>>
             /\ made' = [made EXCEPT ![h] = @ + 1]
             /\ UNCHANGED <<pc, opt, rows, args, calls, mu, team, params>>

\* The call ends, after any token or by a failure in the prefill.
Leave(h) == /\ pc[h] \in {"prefill", "decode"}
            /\ pc' = [pc EXCEPT ![h] = "ready"]
            /\ team' = TeamOf(h)
            /\ Unlock(h)
            /\ UNCHANGED <<opt, rows, args, made, calls, params, rng>>

Close(h) == /\ Go(h, "ready", "closed")
            /\ mu = NoOne
            /\ UNCHANGED <<opt, rows, args, made, calls, mu, team, params, rng>>

Finished == /\ \A h \in Handles : pc[h] = "closed"
            /\ UNCHANGED vars

Next == \/ Finished
        \/ \E h \in Handles : \/ Open(h) \/ Generate(h) \/ Enter(h) \/ Configure(h)
                              \/ Prefill(h) \/ Decode(h) \/ Leave(h) \/ Close(h)

Spec == Init /\ [][Next]_vars
-----------------------------------------------------------------------------
\* Every variable has its type.
TypeOK == /\ opt \in [Handles -> Options]
          /\ rows \in [Handles -> 0 .. MaxTeam]
          /\ \A h \in Handles : made[h] <= Decodes /\ calls[h] <= Calls
          /\ mu \in Handles \cup {NoOne}
          /\ team \in 1 .. MaxTeam /\ params \in Params

Computing(h) == pc[h] \in {"prefill", "decode"}

(***************************************************************************)
(* A call computes with its own handle's team and its own parameters       *)
(* (docs/api.md: "each call running with its handle's threads /            *)
(* threads_decode"), whatever other handles do meanwhile.                  *)
(***************************************************************************)
OwnSettings ==
    \A h \in Handles : Computing(h) =>
       /\ params = args[h].par
       /\ team = IF pc[h] = "prefill" THEN TeamOf(h) ELSE DecodeTeam(h)

(***************************************************************************)
(* A call with a seed draws its k-th token from that seed's stream, k      *)
(* draws in: its answer does not depend on the calls of other handles.     *)
(***************************************************************************)
SeedDecides ==
    \A h \in Handles : Computing(h) /\ args[h].seed # 0 => rng = <<args[h].seed, made[h]>>

(***************************************************************************)
(* Every thread of the team has its row of the attention scratch ("score   *)
(* per-thread: nth*max_t", nn/attn.h).                                     *)
(***************************************************************************)
RowForThread == \A h \in Handles : Computing(h) => team <= rows[h]

=============================================================================
