------------------------------- MODULE Library -------------------------------
(* What the library keeps for its handles beside the sessions themselves:    *)
(* the process-wide settings that every call puts in place (Handles), who    *)
(* owns which block of memory (Ownership), the pointer tables that know the  *)
(* blocks (PtrTable), the two ways an engine holds less than the whole model *)
(* in memory, a cache of experts per MoE layer (ExpertCache; EXPERT_CACHE)   *)
(* and layers that are read again at every forward (Streaming; MEM_GB), and  *)
(* the directories a model is opened from and packed to (ModelFile).  The    *)
(* first two are two views of the same calls, the third is what the          *)
(* allocator of the second looks pointers up in, the others what the engine  *)
(* under a call reads and what it is made of; they write no variable in      *)
(* common, so a run looks at one of them.                                    *)
EXTENDS Naturals, FiniteSets

CONSTANTS
  Views,       \* the views considered
  Handles,
  Threads, Procs, MaxTeam, Params, Seeds, Decodes, Calls, NoOne,   \* settings
  Addrs, Null, Shortlist, MapFails, Held,                          \* memory
  Pointers, Hash(_, _), FirstCap, Tables, MaxCap,                  \* tables
  TickMod, E, Setups, K, Team, HeatMax, Passes,                    \* cache
  NL, Shapes, Budgets, Fixed, Verified,                            \* stream
  Checkpoints, Opens, RowBlocks, Targets, MaxSaves                 \* files

VARIABLES
  view,
  pc, opt, rows, args, made, calls, mu, team, params, rng,
  op, opened, heap, big, track, call, weights, head, arena, temps, static, room, wild,
  kind, table, answer, oom,
  setup, phase, next, task, want, at, tick, nn, n, eid, holds, heat, last, clock,
  pinned, hits, misses, path, plan, es, used, asked,
  shape, budget, resident, scratch, f, forward,
  ckpt, dirs, saved, stage, from, set, mem, target, saves

Knobs  == INSTANCE Handles
Memory == INSTANCE Ownership
Finder == INSTANCE PtrTable
Cached == INSTANCE ExpertCache WITH pc <- task
Layered == INSTANCE Streaming
Files  == INSTANCE ModelFile WITH phase <- stage, Settings <- Opens, Blocks <- RowBlocks

knobVars   == <<pc, opt, rows, args, made, calls, mu, team, params, rng>>
memoryVars == <<op, opened, heap, big, track, call, weights, head, arena, temps,
                static, room, wild>>
tableVars  == <<kind, table, answer, oom>>
cacheVars  == <<setup, phase, next, task, want, at, tick, nn, n, eid, holds, heat,
                last, clock, pinned, hits, misses, path, plan, es, used, asked>>
layerVars  == <<shape, budget, resident, scratch, f, forward>>
fileVars   == <<ckpt, dirs, saved, stage, from, set, mem, target, saves>>
vars == <<view, knobVars, memoryVars, tableVars, cacheVars, layerVars, fileVars>>

ASSUME LibraryAssumption ==
  /\ Views \subseteq {"settings", "memory", "tables", "cache", "stream", "files"}
  /\ Knobs!HandlesAssumption /\ Memory!OwnershipAssumption /\ Finder!PtrTableAssumption
  /\ Cached!TierAssumption /\ Cached!CacheAssumption /\ Layered!StreamingAssumption /\ Files!ModelFileAssumption

\* The views that are not looked at keep one initial state.
Init ==
  /\ view \in Views
  /\ Cached!Init
  /\ view # "cache" => setup = (CHOOSE u \in Setups : TRUE)
  /\ Layered!Init
  /\ view # "stream" =>
       /\ shape = [l \in Layered!Layers |-> CHOOSE s \in Shapes : TRUE]
       /\ budget = (CHOOSE b \in Budgets : TRUE)
  /\ Files!Init
  /\ view # "files" => Files!Idle
  /\ Finder!Init
  /\ view # "tables" => kind = (CHOOSE t \in Tables : TRUE)
  /\ Memory!Init
  /\ Knobs!Init
  /\ view # "settings" =>
       /\ opt = [h \in Handles |-> CHOOSE o \in Knobs!Options : TRUE]
       /\ args = [h \in Handles |-> [par |-> CHOOSE p \in Params : TRUE, seed |-> 0]]

Settings == view = "settings" /\ Knobs!Next
            /\ UNCHANGED <<view, memoryVars, tableVars, cacheVars, layerVars, fileVars>>
Blocks == view = "memory" /\ Memory!Next
          /\ UNCHANGED <<view, knobVars, tableVars, cacheVars, layerVars, fileVars>>
Lookups == view = "tables" /\ Finder!Next
           /\ UNCHANGED <<view, knobVars, memoryVars, cacheVars, layerVars, fileVars>>
Caching == view = "cache" /\ Cached!Next
           /\ UNCHANGED <<view, knobVars, memoryVars, tableVars, layerVars, fileVars>>
Streams == view = "stream" /\ Layered!Next
           /\ UNCHANGED <<view, knobVars, memoryVars, tableVars, cacheVars, fileVars>>
Directories == view = "files" /\ Files!Next
               /\ UNCHANGED <<view, knobVars, memoryVars, tableVars, cacheVars, layerVars>>

Next == Settings \/ Blocks \/ Lookups \/ Caching \/ Streams \/ Directories

Spec == Init /\ [][Next]_vars

-----------------------------------------------------------------------------
(* The pointer tables (nn/alloc.c): a probe meets an empty cell or what it   *)
(* looks for, and what was stored is found from its own hash.  And what the  *)
(* cache and the layers keep (moecache.c, moe.c, rt_model_load.h): a slot    *)
(* holds the expert it names, a pinned expert stays, with a slot for each    *)
(* none is read twice; what is read fits the scratch, and what is resident   *)
(* fits the budget.                                                          *)
TablesSound == Finder!TypeOK /\ Finder!ProbesEnd /\ Finder!AllFound
StoresSound == /\ Cached!TypeOK /\ Cached!SlotsTrue /\ Cached!PinnedStays /\ Cached!ReadOnce
               /\ Layered!TypeOK /\ Layered!InScratch /\ Layered!WithinMemory
Consistent == view \in Views /\ TablesSound /\ StoresSound

(* Handles: a call computes with its own handle's threads and sampling, and  *)
(* what it says is decided by its seed, whatever other handles do.           *)
OwnSettings == Knobs!TypeOK /\ Knobs!OwnSettings /\ Knobs!SeedDecides

(* Ownership: no block is freed twice, none that is used is gone, and after  *)
(* the last close none is left, wherever a call fails.                       *)
MemorySound == /\ Memory!TypeOK
               /\ Memory!FreedOnce /\ Memory!NothingLeaks /\ Memory!NothingDangles

(* PtrTable: the table is the set of the owned blocks, whatever it went      *)
(* through.                                                                  *)
SetSpec == Finder!SetSpec

(* ExpertCache: a forward computes with the experts it was routed to, and an *)
(* eviction takes none that is hotter than what it leaves.                   *)
UsesRouted == Cached!UsesRouted
KeepsHot == Cached!KeepsHot

(* Every routed expert, and every layer that is streamed (Streaming), is     *)
(* computed with its own weights.                                            *)
UsesOwn == UsesRouted /\ Layered!UsesOwn

(* ModelFile: an open model computes with the weights of its checkpoint,     *)
(* rounded as its settings say and never twice; a container gives back what  *)
(* it was written from, or is refused, and what is fused is used in place.   *)
LoadsTrue == Files!TypeOK /\ Files!LoadsTrue /\ Files!RoundTrip
InPlace == Files!InPlace
=============================================================================
