# A TLA+ model of moty

moty (`src/c`) runs language models on small machines in plain C: weights
mapped or streamed from disk, one process, a handful of threads. Most of its
lines are arithmetic. What is hard to get right, and hard to test, is around
the arithmetic: a thread pool with its own sleep and wake protocol, caches of
weights that other threads fill, speculative decoding that must not change the
text, a library entry point that leaves by `longjmp` and must neither leak nor
half-update a handle, and files that must survive the death of the process.
That is what this project models. The numbers themselves are abstracted: a
language model is any function from what has been seen to the next token, a
weight is the name of the expert or layer it belongs to.

Contents: 1 inventory, 2 modules and code, 3 runs, 4 bounds, 5 fairness,
6 proofs, 7 disagreements found, 8 what is not modelled, 9 plan.

## 1. Inventory

| part | state it keeps | operations | interacts with | hard behaviour | what makes it correct |
|---|---|---|---|---|---|
| thread pool `nn/par.c` | team size, started workers, the published region (`fn, ctx, n, chunk, team`), `gen`, `next`, `done`; per worker a sleeping flag, a mutex, a condition variable | `moty_par_for`, `moty_par_set_threads`, `moty_par_shutdown`, the worker loop | every kernel; `api.c` and the decode loop change the team between regions | publication of plain fields through one counter, lost wake-ups, teams that shrink and grow | each index once per region; nobody in a region when its fields are rewritten; every call returns |
| C API `api/api.c` | per handle: KV cache, `n_past`, the pending token, the sticky abort flag; per process: `g_api_mu`, sampler, team | open, generate, abort, reset, close | engine step, pool, sampler, allocator, the caller's callback | abort at any moment, failure by `longjmp`, lookahead that writes rows it may reject | the KV cache holds the conversation; each call is the model's own continuation; settings of one handle do not reach another |
| memory `nn/alloc.c`, `track.h`, `fail.h`, `head.c` | two pointer hash tables, arenas, `grow()` statics | allocate, move, release, unwind | everything that allocates | failure at any step, reuse of addresses, tombstones | freed once, nothing dangles or leaks; the tables are sets |
| expert cache `runtime/moecache.c`, `nn/moe.c`, `io/tier.c` | slots (expert, weights, heat, last use), pins | fetch, evict, pin, warm up | forward pass, disk | pointers collected before later fetches evict; two threads warming up | a slot holds the expert it names; a forward uses the experts routed to it |
| hot experts of `engines/glm.c` | heat per expert, resident set | `repin_pass` every so many tokens | routing, disk | ping-pong of two experts, wrapping ticks, saturating heat | the size stays; who enters is hotter; who left stays out a while |
| load pipeline of `glm.c` (PIPE) | `cur` = (generation, index), jobs, ready flags, slabs | dispatch, take, wait | forward pass, I/O threads | a late thread meets the next block | a slab read is the expert asked for, by one reader; waits end |
| pilot of `glm.c` (PILOT_REAL) | prediction queue, caches of all layers, `inflight`, `cur_moe` | predict, reserve, read, publish, barrier | forward pass, pilot thread | two threads choose victims in one cache | no half-read slot is used; every forward ends |
| io_uring batches `io/uring.h` | submission and completion rings, batch of loads, counters | queue, submit, wait, publish | kernel, pilot | partial submission, short reads, an error of the call | what is published was read whole |
| forward passes `engines/*.c`, `nn/attn.c`, `conv.c`, `nn_deltanet.h` | KV rows per layer, recurrent states and windows, glm's selections and the rows of its draft head, logits, the cache of TTA | prefill in blocks, decode, verify drafts, batches of several conversations, abort, reset | callers; the loader decides which matrices are fused, streamed, adapted | state left behind by other histories: drafts dropped, calls aborted, batches of other conversations, a selection made one layer earlier | the logits are those of the history, with every weight the files ask for |
| model files `io/st.h`, `runtime/rt_model_load.h`, `nn/mat.c` | an index of tensors, per matrix its storage and whether it is a view of the map | open under settings, fuse, SAVE_PACKED | every engine | a container opened under other settings, or torn; views that must be adjacent | each matrix is its own, rounded once; a container gives back what it was written from |
| training `engines/qwen_train.h` | adapters, gradients, windows, optimiser steps | forward, hand-written backward, step, save, warm start | the engine's layers, `lora_load`, `stw.h` | accumulation and overwriting of buffers, the end of a window, one alpha for all | the gradient is that of the loss; what was trained comes back |
| weight streaming `runtime/rt_model_load.h` | resident layers, scratch, pointers into it | plan under MEM_GB, read a layer | every engine's step | one scratch for many layers; forwards that skip the read | each layer computed over its own weights, within memory |
| speculative decoding of `glm.c` | history, KV rows, budget | verify a draft in one forward, continue (MORE), interrupt | drafts of three sources, KV file | rows of rejected drafts, ends of budgets and of the cache | the text is that of greedy decoding |
| grammar drafts `util/grammar.h` | a pushdown automaton as a set of stacks, armed or not, counters | compile, accept a byte, forced span, restart | spec_decode, tokenizer | ambiguity, desync, caps on depth and width | the walker admits what the grammar admits; a draft is forced |
| n-gram speculation of `engines/qwenmoe.c` | n-gram table, history, recurrent state | draft, verify, restore | its chat loop | a recurrent state cannot drop rows as a KV cache does | the text is that of greedy decoding |
| conversation file of `glm.c` | header with a counter, records | load, append, truncate, reset | serve modes | process killed at any write; other settings at the next start | what is resumed is one conversation, and all of the finished turns |
| multiplexed server of `glm.c` | slots, requests, rows, output frames | submit, cancel, batch decode, finish, save | clients, conversation file | frames at any point, Ctrl-C, end of input | each answer is its own prompt's; every request ends once |
| chat loops `runtime/runtime.h`, `rt_gen_loop.h`, `olmoe.c` | transcript, rows, position | read a line, prefill in chunks, generate | engine step | turns that continue the rows of the turns before | no row past the context; each turn complete |
| schema compiler `util/schema_gbnf.h` | none | a JSON schema to a grammar | grammar drafts | members, bounds, nesting, what it must refuse | the grammar admits documents of the schema only, and all with every member in its order |
| tokenizer `tok/tok.h` | vocabulary, ranks, added tokens | encode, decode | everything with text | cuts of the regular expression, bytes without a token | the text comes back; merges go as far as they can |
| sampler `nn/sample.c`, glm's in `glm.c` | candidates, the token banned by a rejected draft | pick, accept a draft | decode loops | the nucleus found by threads, rejection | the distribution is the nucleus, drafts or not |
| `io/gguf.h`, `util/json.h`, kernels `nn/`, back ends `hw/`, dispatcher `moty.c` | mostly none | pure functions and arithmetic | | boundaries | see section 8 |

Who calls whom: an engine's program (or `api.c`) prefills and decodes through
the engine's `step`; a step runs layers, a layer runs regions of the pool and,
in MoE models, fetches experts from a cache; glm's cache is filled by the
pipeline, the pilot and the ring as well. Memory comes from the tracker of the
handle or of the running call. The serve modes wrap all of it in files and
frames.

## 2. Modules and the code they model

Abstract specifications (what is promised), each with what implements it:

| abstract | promise | implemented by |
|---|---|---|
| `ParRegion` | a parallel loop: each index once, then the barrier (`par.h`) | `ThreadPool` (`RegionSpec`) |
| `Conversation` | calls on one handle continue one conversation (`moty.h`) | `Session` (`Conversing`) |
| `GreedyDecode` | each token is the model's own choice after everything before it | `SpecDecode` and `NgramSpec` (`Lossless`) |
| `PtrSet` | a set of blocks | `PtrTable` (`SetSpec`) |

Detailed modules:

- **ThreadPool** (`nn/par.c`, pthread backend). `pc[0]` is the caller, `pc[w]`
  a worker. One action per access to shared memory that another thread can
  tell from its neighbours: `SetJob`, `SetTeam`, `ResetNext`, `ResetDone`,
  `Publish`, `WakeNext`, `Join` are `moty_par_for` line by line; `EnterShare`,
  `Grab`, `RunRange`, `RunChunk` are `run_share`; the rest is the worker's loop
  with its two ways into a region (polling, sleeping). `runs` and `fresh` are
  history. Atomics are sequentially consistent.
- **Session** (`api/api.c`, `runtime/runtime.h`). A call is a sequence of
  prefill chunks, plain steps and verifications, each an action, with
  `moty_abort` between any two. `kv` names the token each row was computed for.
- **Handles** (`api/api.c`). Several handles, one lock: what a call copies into
  the process (`team`, `params`, `rng`) and takes back.
- **Ownership** (`nn/alloc.c`, `nn/head.c`, `runtime/runtime.h`). Opening,
  calling and closing as sequences of allocations that may fail after any
  step; an allocation returns any free address, so that stale pointers meet
  new blocks.
- **PtrTable** (`nn/alloc.c`). Both hash tables (`kind` says which) with cells, tombstones, growth
  and, for the registry, rehashing in place; failures of the growth are in
  `OomSpec`, apart from `Spec`. The hash is a constant that collides.
- **Tier**, **ExpertCache**, **Repin** (`io/tier.c`, `runtime/moecache.c`,
  `nn/moe.c`, `repin_pass`). A slot has a name and weights, which a fetch
  changes in several steps. `setup` is how the engine made its cache: the slots,
  the pins, and which of the two forward paths read it. Repin is one layer; other layers appear as the
  chance that they take the exchange of a pass.
- **PipePool**, **Pilot**, **Uring** (`engines/glm.c`, `io/uring.h`). The three
  ways glm reads experts beside the forward pass. In PipePool a step is one
  atomic access; in Pilot one section under `g_pilot_mx` or one step outside;
  in Uring one queueing, one kernel step or one completion.
- **Streaming** (`runtime/rt_model_load.h`). The plan of resident layers and
  the pointers of each matrix, through loading and any forwards.
- **ModelFile** (`io/st.h`, `runtime/rt_model_load.h`, `nn/mat.c`). A directory
  is the set of its files, each a list of tensors with offsets; opening one is
  the index with its refusals, then one form for every matrix, then the fusion;
  SAVE_PACKED writes what a model in memory holds, group by group, and may be
  cut short. A tensor's data is the list of roundings it went through, so that a
  second rounding shows.
- **Layers**, **Dense**, **GlmForward** (`nn/attn.c`, `conv.c`,
  `nn_deltanet.h`, the engines, `glm.c`). A row is named by the history it
  stands for; an operation that reads a row of another history, layer or
  conversation makes a wrong row, and a wrong row makes wrong logits. Dense is
  one forward of an engine of the shared runtime, with what its files ask for
  (adapters, fusion, shared KV, shortlist, TTA); GlmForward is glm's, with the
  selection of full layers that shared ones use again, batches whose rows belong
  to different conversations, and the draft head.
- **Trainer** (`engines/qwen_train.h`, `lora_load` of `qwen.c`, `util/stw.h`).
  `Inputs` is the forward of a layer as a graph; `Backward` is the code's way
  back, buffer by buffer. A gradient is a bag of paths through that graph, which
  `GradientTrue` compares with all of them; a layer's incoming gradient is one
  path for the layer below.
- **Tokens** (`tok/tok.h`), **Sampler** (`nn/sample.c`, `glm.c`), **Schema**
  (`util/schema_gbnf.h`). Tokens writes a text character by character and
  encodes it; Sampler has weights for probabilities and one of `Grid` equal
  intervals for a random number, so that a probability is a count; Schema
  compiles a schema and writes lexemes, walked by Grammar's automaton. What is
  written is compared with two sets: `AllDocuments`, what JSON and the schema say
  (members in any order, left out unless required), and `StrictDocuments`, those
  with every declared member in its place, which the compiler drafts. The first
  holds all that the grammar admits, the second is exactly that; the documents
  between the two are a row of section 7.
- **SpecDecode**, **NgramSpec** (`engines/glm.c`, `engines/qwenmoe.c`). One
  action per forward; a draft is any sequence of tokens (SpecDecode) or what
  the table says (NgramSpec). `more` says whether clients of the serve loop send
  `\x02MORE`, for which `Lossless` makes an exception (section 7).
- **Grammar** (`util/grammar.h` and its users in `glm.c`). What a grammar means is
  `Language`, a least fixed point, which `FollowsLanguage` compares with; the compiler is
  `Symbols`, `Repetition` and `Rule`: a rule made for a group or a postfix is
  named by its syntax tree, so no rule numbers are needed. `Normal` is
  `gr__normalize`; `FeedByte` one round of `gr_feed`.
- **Chat** (`runtime/runtime.h`, `engines/olmoe.c`, `engines/qwenmoe.c`). A
  token is its place in the transcript; `rows` says which were forwarded.
- **KvDisk** (`engines/glm.c`). Every write of the file is an action, and the
  process may die between any two and start again.
- **ServeMux** (`engines/glm.c`). The loop as four actions (interrupt, input,
  decode, exit) with the clients' frames between them.

Composites:

| composite | of | chosen at the start by |
|---|---|---|
| `Library` | `Handles`, `Ownership`, `PtrTable`, `ExpertCache`, `Streaming`, `ModelFile` | `view`: what of a process that opens models is looked at |
| `GlmExperts` | `PipePool`, `Pilot`, `Uring`, `Repin` | `on`: `PIPE`, `PILOT_REAL`, with `URING`, or `REPIN` |
| `Turns` | `SpecDecode`, `NgramSpec`, `Chat`, `Dense`, `GlmForward`, `Trainer` | `entry`: the entry the dispatcher `moty.c` calls, or the forward under it |
| `Text` | `Grammar`, `Schema`, `Tokens`, `Sampler` | `part`: which of them is looked at |
| `GlmServe` | `KvDisk`, `ServeMux` | `mode`: `SERVE` or `SERVE_BATCH` |

Their parts are alternatives in a process, or write no variable in common
(`Library`, `GlmExperts`): no action of one could disturb an invariant of the
other. So `Init` chooses the part that runs, the other parts keep one initial
state, and `Next` is the disjunction. This is a choice the program makes once,
from its command line, its environment or its model file; it adds no
interleaving, and the state space is a sum and not a product. What really
interleaves, threads, clients, crashes and callers, does so inside the parts.
`Consistent` of a composite conjoins the types with the smaller invariants of
its parts.

The `..._proofs` modules extend the module they are about (`Forwards_proofs` the
forward passes in `Turns`, after `Turns_proofs`); section 6 says what they show.

The `MC...` modules (and the end of `GlmServe`) give TLC a language model (a function of the last tokens
and the length, with a stop token), the prompts, grammars, pointers and
symmetries. Mutated forms of definitions stand next to the definitions they
vary, with a comment that begins `Mutant:`; nothing refers to them but the
list of mutants in `PROJECT.json`, one for each property, and whoever wants to
see another conjunct of a property fail.

## 3. Runs

Seven runs pass:

| run | asks | shows |
|---|---|---|
| `pool` | `RegionComplete`, `Barrier`, `IInv`, `RegionSpec`, `CallsReturn`, `PoolFallsAsleep` | regions of all shapes, teams that shrink and grow without taking anyone back, shutdown, a counter that wraps; no wake-up is lost and an idle pool sleeps; the inductive invariant of section 6 |
| `session` | `InKv`, `AbortPrompt`, `Conversing`, `CallsEnd`, `Consistent` (`WithinContext`, `StopTells`) | models that look at the last two tokens, an abort at every point |
| `library` | `OwnSettings` (with `SeedDecides`), `MemorySound` (`FreedOnce`, `NothingLeaks`, `NothingDangles`), `SetSpec`, `UsesOwn` (`UsesRouted`, and that of `Streaming`), `KeepsHot`, `LoadsTrue` (with `RoundTrip`), `InPlace`, `Consistent` (`ProbesEnd`, `AllFound`, `SlotsTrue`, `PinnedStays`, `ReadOnce`, `InScratch`, `WithinMemory`) | two handles with any options and failures at every step; any sequence of operations on either table; the batch path with too few slots, both paths with enough; layers of every shape under every budget; twelve checkpoints, opened under eleven settings, saved and opened again, twice |
| `glm_experts` | `UsesWhole` (`UsesLoaded`, `PublishedWhole`, and that of `Pilot`), `AllEnd` (`Served`, `ForwardsEnd`, `BatchEnds`), `NoPingPong` (with `HotterIn`), `Consistent` (`OneReader`, `Drained`, `Truthful`, `OneCopy`, `OwnSlot`, `CountsOwn`, `SameSize`) | blocks of one size; two forwards with reading ahead; partial submission, short reads, any order of completion; any routing of twelve tokens |
| `turns` | `RowsTrue`, `Lossless`, `ChatTurnTrue`, `InRoom`, `LogitsTrue`, `PairsTrue`, `TrainsTrue` (`GradientTrue`, `SavedTrue`) | glm with any draft, budget and interrupt; qwenmoe with attention layers only and answers shorter than the context; three chat loops, lines of any length; fifteen models of five engines and four of glm, fed in blocks, one by one, as drafts, after aborts and resets, and in batches; five trainings that begin anew or from a file |
| `glm_serve` | `Durable` (with `KvTrue`), `OwnAnswer`, `AllEnd` (`Finishes`, `Exits`), `Consistent` (`DataFirst`, `OneById`, `WithinBudget`, `Saved`, `NoneLeft`) | a death at every write, starts with the same settings; every frame at every point |
| `text` | `FollowsLanguage`, `ForcedTrue`, `SchemaTrue`, `TokensTrue` (`SplitTrue`, `FullyMerged`, `ComesBack`), `DistTrue` (`NucleusTrue`, `LosslessLaw`, `GreedyTrue`), `Consistent` (`DocOfAnswer`, `NoStartMissed`) | ten grammars and every answer over three bytes; schemas of every kind and every document; three tokenizers and every text over a character of each class; every draw from small distributions |

Every part's type invariant is checked with them (in `Consistent`, `OwnSettings`,
`MemorySound`, `LoadsTrue`, `InRoom`, `LogitsTrue`, `TrainsTrue` and `IInv`), and every named conjunct has a mutant in its module that breaks it. A
pass that holds under a restriction (`Readmission = FALSE`, blocks of one size,
`Hybrid = FALSE`, the shortlist off) is the other half of a disagreement of
section 7.

Five runs end in a counterexample that section 7 explains: `pool_readmit`
(`RegionComplete`), `pipe_grow` (`UsesLoaded`), `weights_single` (`UsesRouted`,
the cache alone of `MCLibrary`),
`kvdisk_resize` (`KvTrue`), `qwenmoe_hybrid` (`StateTrue`).

## 4. Bounds, and why they are enough

- *Threads.* A caller and two workers (`pool`), two I/O threads (`glm_experts`),
  one pilot (the code has one), two handles, two clients' slots. The protocols compare a thread's index
  with a team size and its generation with the published one; two workers give
  a member and a non-member at once, two I/O threads a straggler and a taker.
- *Counters.* `P.gen` wraps at 2 in the runs (2^32 in the code), which is
  harder than the code, and the proof is for any modulus of at least 2. Ticks of the tier
  wrap at `TickMod` and heat saturates at `HeatMax`.
- *Caches.* One slot fewer than experts forces eviction; as many slots as
  experts is the other case the code distinguishes.
- *Contexts.* Five to twenty positions: enough for two turns and for a third
  that meets the end. Drafts have one or two tokens, so that none, some and all
  of a draft can be accepted.
- *Histories.* `Passes`, `Tokens`, `Blocks`, `Forwards`, `Batches`, `Frames`,
  `Calls`, `Decodes`, `MaxSaid` and `MaxProp` stop otherwise endless runs. Each
  lets the second and third use of a reused resource happen: the second block
  over the same slabs, the third batch over the same ring.
- *Tables.* A capacity of 2 that grows to at most 16 with the pointers of `MCLibrary` sees
  growth, rehashing, wrap-around of a probe and a table of tombstones.
- *Forward passes.* Three positions, blocks and windows of two and a convolution
  of three: each row is read at its own position, after a window moved and in
  the next block. In GlmForward seven positions, of which three in batches, and
  a top-k of 1, so that a selection really leaves positions out;
  `AbsorbRows` is 1 for 4: one row is absorbed, a block is not.
- *Model files.* One layer (q, k, v, which are fused, and one matrix more),
  sizes in units of eight bytes. `MaxSaves` is 2, the container of a container;
  nothing is saved after a save that failed, and the first target is fixed,
  since targets are alike. A target is never the directory that is open.
- *Trainings.* Two layers, two heads over one of K and V, windows of two and
  three positions from a corpus of five, two epochs, two trainings one after the
  other. `LeastWindow` is 2 for 8, and `MaxTensors` is exactly what the largest
  training of the run needs (256 in the code).
- *Texts.* Four characters, one longer than every look-ahead of the expression
  and the length of the longest contraction with what precedes it; documents of nine
  lexemes with two spaces; nesting of 2 for 32, so that the refusal is met;
  four tokens, and a grid of 60, a multiple of every sum of weights that occurs.
- *Grammars.* Depth 6 and width 4 for 64 and 64: both caps are met. `Long` (8)
  bounds the enumeration of words and leaves every prefix that fits in an
  answer room to be completed. `FeedBytes` is 3 for 63; no token
  of the run is longer (section 7 has the run where one is).

## 5. Fairness

- `pool`: weak fairness of each thread (the operating system runs it), strong
  fairness of the caller's signalling loops, whose mutex the worker holds only
  for a bounded stretch of its loop and releases at every wait. Spurious
  wake-ups and calls of the pool have none: nobody owes them.
- `session`: weak fairness of the steps of a running call; an abort and a new
  call are never owed.
- `glm_experts`: weak fairness of the main thread and of each reader (reads
  end), of the owner of the ring and of the kernel, which completes what it
  took.
- `glm_serve`: weak fairness of the loop; clients owe no frame, and the end of
  the input is what makes the loop exit.

In the composites a condition speaks of the part that was chosen.

## 6. Proofs

The modules `..._proofs` hold theorems that TLAPS checks for every value of the
constants; the assumptions the specifications name (`PoolAssumption`,
`TurnsAssumption` and so on: ranges of constants) are the only ones that are not
written in a theorem. A hypothesis of a theorem is the other half of a
disagreement of section 7, or of a restriction of a run.

| module | theorem | what holds in every state or step | hypotheses |
|---|---|---|---|
| `ThreadPool_proofs` | `InvariantHolds`, `TypeCorrect` | `IInv`, `TypeOK` | no readmission |
| | `BarrierHolds` | `Barrier`: the fields of a region are written while no worker is in one | no readmission |
| | `RegionsComplete` | `RegionComplete`: each index once | no readmission |
| | `PoolImplementsRegion` | `RegionSpec`, the abstract loop | no readmission |
| `Session_proofs` | `CacheIsConversation`, `AbortsPromptly`, `HandleConsistent` | `InKv`, `AbortPrompt`, `Consistent` | none |
| | `SessionImplementsConversation` | `Conversing`, what `moty.h` promises | none |
| `Library_proofs` | `LibrarySettings` | `OwnSettings`: a call computes with the settings of its handle | none |
| | `LibraryMemory` | `MemorySound`: freed once, nothing leaks or dangles | shortlist off, `mmap` does not fail |
| | `CacheKeepsHot` | `KeepsHot` | one thread, a slot the pins leave, counters that do not saturate |
| | `WeightsAreOwn`, `LibraryConsistent` | `UsesOwn`, `Consistent` | one thread, a slot the pins leave, no draft verified under streaming |
| | `TablesAreSets` | `SetSpec`: the two pointer tables are sets | none |
| `GlmServe_proofs` | `AnswersAreOwn` | `OwnAnswer` | none |
| | `ServesConsistently` | `Consistent` | the file opens and its buffer is there |
| | `KeepsTheConversation` | `Durable` | no failed call, one limit, one set of dimensions |
| `GlmExperts_proofs` | `StoreDoesNotSwing` | `NoPingPong` | none |
| | `MechanismsHold`, `ForwardUsesWhole` | `Consistent`, `UsesWhole` | no step adds jobs to a pipeline that has begun; `io_uring_enter` does not fail |
| | `OneSizeHolds` | both | blocks of one size; `io_uring_enter` does not fail |
| `Turns_proofs` | `DraftsChangeNothing`, `RowsOfHistory` | `Lossless`, `RowsTrue` | every layer of qwenmoe keeps rows |
| | `StaysInRoom` | `InRoom` | the same, drafts of at most two tokens |
| | `TurnsInPlace` | `ChatTurnTrue` | none |
| `Forwards_proofs` | `ForwardsTrue`, `PairsOfHistory` | `LogitsTrue`, `PairsTrue` | `GemmaAsRead` |

None of these properties is inductive as it stands. What was added to each, and
why the next step needs it:

- *Pool.* That nobody is busy says nothing of a worker that has loaded the old
  generation and is about to compare its index with the new team. `CallerInv`
  and `WorkerInv` say where each thread can be; `Settled`, that between regions
  every member of the last team and every new worker has dealt with the last
  generation and has loaded no other; `Counted`, that in a region `P.done` is
  the number of members that are through with it. `Settled` gives the publisher
  its clean start, `Counted` gives `Join` its conclusion (as many counts as
  members means that every member is through, the lemma `AllFinished`), and
  `Join` re-establishes `Settled`. `Accounted` is the book of the indices: in a
  static region thread `t` owns the range `par_range` gives it, and the ranges
  partition the region; in a dynamic one the indices below `P.next` are those
  taken, each by one thread. The refinement is one step per action: `Join` is
  the return, a computed index the step of an index, all else a stutter.
- *Session.* `Told` relates the rows, the conversation told so far and the
  pending token at every place inside a call; `Fed` and `Chosen` say what the
  rows of a prompt and of a draft stand for before they are kept.
- *Settings.* At most one handle is past the lock, what it put into the process
  is its own (`LockHeld`), and a draw happens under the lock only (`NotDrawn`).
- *Memory.* Every live block has one owner among the handles, their arenas and
  the running operation (`OneOwner`), what is owned is in the heap (`HeapOwned`)
  and what is tracked is what a `longjmp` would release (`Tracked`). That is
  what reuse of addresses would break.
- *Expert cache.* A slot is what it names except for the one slot a fetch is
  working on (`Filled`, `Staged`); no expert has two slots (`Alone`); with as
  many slots as experts no fetch evicts (`Whole`, by the pigeonhole on slots),
  so the pointers the single path gathers stay (`Gathered`). `Tally` and
  `ColdVictim` count what was asked for, for `KeepsHot`.
- *Streaming.* `Reading`: the scratch holds the matrices read so far of one
  layer, at the sums of the sizes before them.
- *Tables.* `Counted` (the counters are the cells), `Once` (a pointer has one
  cell) and `Probed` (from the hash of a pointer to its cell nothing is empty),
  kept by insertion, deletion, growth and rehashing in place; growing never
  meets a full table. A deletion leaves a tombstone, which `Probed` needs.
- *Server.* `SlotInv`: the rows of a slot are a head of its history, and what
  the history has behind the prompt is the model's own choice; the ring of
  frames and the queue name each request once.
- *Conversation file.* `Written`, `Backed` and `Truth`: the header never counts
  more records than were written, each record is of the conversation before it,
  and between an `ftruncate` and the next header the cut is known.
- *Hot experts.* `Cooler`: an expert that left is at most as hot as each that
  stayed plus what it was asked for since.
- *Pilot.* `Apart` (the two threads hold different slots), `InSlot` (what is
  being read has its reservation) and `Resolved` (a use has waited).
- *Pipeline.* `Stored`, `Exhausted`, `Holds`, `Slab`: which word the readers can
  still hold, that an old one is exhausted, and who may write which slab.
- *Ring.* `Requested`, `Counts`, `Reserved`, `Arriving`: every part of a load is
  in one place among the queue, the kernel, the completions and the slot.
- *Decoders.* The logits are those of the history in every state in which a token
  is picked, and while a draft is verified (`Verifying`) the rows beyond the
  length are those of the draft; in qwenmoe a table may lag by the tokens not
  yet filed (`Behind`) and an answer is the model's own up to the pending token
  (`Accepting`). `StaysInRoom` needs drafts of two tokens: the code does not cut
  a draft near the end.
- *Chats.* `Spent` and `InRows`: the rows of the turns before lie where the
  engine continues.
- *Forward passes of the shared runtime.* `DenseInv`: in every layer the rows,
  the recurrent state and the window are those of the history (`InMemory`),
  placeholders of an image are numbered in order (`Numbered`), and each pair of
  the TTA ring is of the history or of the token that is due (`RingOf`,
  `TtaOf`). One lemma per kind of layer says that rows of the history in mean
  rows of the history out; `PassIs` carries it over the layers. `GemmaAsRead`
  leaves out the two kinds of files whose disagreement section 7 names
  (`gemma.c:318`, `gemma.c:248`).
- *Forward pass of glm.* `StepsInv`: every layer has the rows, and every full
  layer the keys, of all conversations as far as they were told, and the head
  those from `kv_start` on. A forward is given what is `Sent`: rows that are each
  conversation's next ones, at places no two share, each reading the cache of its
  own conversation. `GlmPassIs` takes that over the layers, with the selection
  of the last full layer; it is used for a prompt (`FeedStep`), for a turn of
  drafts (`VerifyTurn`), and for a batch in any order (`BatchStep`).

The parts of a composite write no variable in common, so the proof of a
composite is that of its parts plus one step that says which part moved.

Proofs over the layers of a forward, the cells of a probe or the shards of a
region go by the least number that would be a counterexample (`LeastOf`, from
well-foundedness): the induction theorems of the library take an operator as a
parameter, which the provers cannot instantiate. Recursive functions of the
models (`Pass`, `Says`, `Recurred`) are shown to exist in the same way.

Only model-checked, and why:

- liveness (`CallsReturn`, `PoolFallsAsleep`, `CallsEnd`, `AllEnd`): the prover
  does not reason about fairness;
- `Text` (grammar, schema, tokenizer, sampler): syntax and schemas are recursive
  structures, in modules with recursive operators, and what a recursive
  definition computes needs induction over data; the tokenizer and the sampler
  are compared with definitions that count over all texts and draws;
- `LoadsTrue` and `InPlace` of `ModelFile`, `TrainsTrue`: the index of a file and
  the bag of a gradient are folds of the library over data, whose values need
  induction over a binary operator that is a parameter;
- what is said of failures that break the hypotheses above.

## 7. Disagreements found while modelling

Each is a counterexample TLC finds to something the code's comments or
documentation say, or to what a caller would expect. The first five are runs of
the project. The others are one change of a configuration away: start from the
cfg of the run named (for a part of a composite, choose only that part), change
what the third column says, and TLC ends in the trace.

| run | property | change | what the code does |
|---|---|---|---|
| `pool_readmit` | `RegionComplete` | | a lagging worker that a smaller team left out compares its index with the next, larger team and joins that region twice |
| `pipe_grow` | `UsesLoaded` | | a straggler takes a job of the old generation against the new job count |
| `weights_single` | `UsesRouted` | | a fetch for a token evicts an expert collected for the same token |
| `kvdisk_resize` | `KvTrue` | | a refused file is appended to, and later resumed as the new head of an old tail |
| `qwenmoe_hybrid` | `StateTrue` | | a draft accepted whole advances the recurrent state with its last token twice |
| `session` | `AbortedForgets` | the property | a call refused by the sticky abort flag returns the aborted status with the conversation kept |
| `library` | `RowForThread` of `Handles` | the property | `threads_decode` above `threads` decodes with more threads than the attention scratch has rows |
| `library` | `MemorySound` (`FreedOnce`) | `Shortlist = TRUE` | closing a handle opened with `head_topk` frees the shortlist twice |
| `library` | `MemorySound` (`NothingLeaks`, `NothingDangles`) | `MapFails = TRUE` | a static that grows past the big-block size when `mmap` fails keeps a freed pointer |
| `library` | `OomKeeps`, `Releasable` of `PtrTable` | its `OomSpec` | when it cannot grow, the tracker loses its cells and the registry leaves its mutex locked |
| `library` | `Consistent` (`SlotsTrue`) | `Team` of two | two warm-up threads leave a slot that names one expert and holds another |
| `library` | `Consistent` (`PinnedStays`) | a setup with every slot pinned | a miss evicts a pinned expert |
| `library` | `UsesOwn` | `Verified = Budgets` | the forward that verifies a draft does not stream and uses another layer's weights |
| `glm_experts` | `UsesWhole` (`PublishedWhole`) | `EnterFails = TRUE` | after a failed `io_uring_enter` its entries are taken with the next batch and counted for it |
| `turns` | `Lossless` of `SpecDecode` | without its exception for `more` | an answer cut at its budget and continued says its last token twice |
| `turns` | `InRoom` of `NgramSpec` | `SpecK = 3`, answers up to the context | the last draft of a full context is forwarded past the KV cache |
| `turns` | `FiledTrue` of `NgramSpec` | the property | an n-gram is filed with its own last token |
| `turns` | `WholeTrue` of `Chat` | the property, one engine | the last token of an answer and the suffix after it get no row; in `olmoe` the second turn is forwarded from position 0 |
| `turns` | `TrainsTrue` (`SavedTrue`) | `MaxTensors` one below what the largest job needs | the file takes 256 tensors, 14 for each trained layer: with 19 layers or more the save ends the process and all that was trained is lost |
| `turns` | `TrainsTrue` (`SavedTrue`) | a warm start that trains fewer layers than its file has | the adapters below the first trained layer take part in the forward and are not saved |
| `turns` | `TrainsTrue` (`SavedTrue`) | a warm start from a file without alpha and with different ranks, or without `q` in the first trained layer | one alpha is saved for all, and adapters come back with another scale |
| `text` | `EveryDocument` of `Schema` | the property | `sgb_object` (`schema_gbnf.h:115`) makes every declared member mandatory, in the order of `properties`, also when the schema has no `required`: `{}` is a document of an object with the optional member `a`, and the walker loses it. The header has "strict" semantics for a `required` that is present and says nothing of one that is absent; only drafts are lost |
| `text` | `SchemaTrue` | a schema with empty `properties` and a `required` | `sgb_object` returns before it looks at `required`: `{}` is admitted though the schema refuses it |
| `text` | `CompactOnly` of `Schema` | the property | `schema_gbnf.h:11` says "compact (no whitespace between tokens)"; the grammar admits spaces at every separator, as the comment at `schema_gbnf.h:128` explains |
| `text` | `Consistent` (`DocOfAnswer`) | `FeedBytes = 1` | `gr_feed` (`glm.c:3844`) decodes 63 bytes of a token: of a longer one (a run of spaces) the walker never sees the rest, though the comment at `glm.c:3797` says it reads every byte |
| `glm_serve` | `Durable` (`KvTrue`) | two `Dims`; `Faults` with `"oom"`, with `"create"` | a mismatched, skipped or half-created file is later resumed wrongly or never |
| `text` | `CapForLeftRecursion` | the property, grammars without left recursion | a repetition leaves a frame per item on the stack: after some sixty items the walker is off for the session |

Met while reading, and outside what the models can show, or a boundary their
constants leave out (each of them can be checked at its line):

- glm's draft head (`glm.c:3726`): rows exist from `kv_start` on, but a prompt
  appended to a conversation, drafts taken from a grammar and a paused head
  leave holes that later drafts attend to. Drafts get worse, the text does not
  change. `PairsTrue` says what the rows that do exist pair.
- `gguf_index` (`gguf.h:537`) grows the header's buffer with `realloc`, though
  values already parsed point into it.
- `gemma.c:318` reads `v_proj` as if it were never a packed int4 view;
  `gemma.c:248`: a layer of the shared KV with a `k_proj` of its own overwrites
  the rows of the layer it shares; with EMBEDS the rows of the per-layer
  embeddings are consumed twice.
- `spec_state_save` (`qwenmoe.c:427`) copies `lin_hk * dk * dv` floats of a
  state that has `lin_hv * dk * dv`.
- TTA: `tta_observe` trains A as well as B, `tta_reset` clears B only;
  `docs/online-learning.md:241` says the random A survives.
- `tok.h:235`: without `added_tokens` the id of the start token stays 0; a
  tokenizer from a GGUF file never splits digits beforehand.
- `schema_gbnf.h:78` prints a number with `%.17g`, which is not always its
  shortest form: 0.1 becomes a literal no model writes.
- The token banned after a rejected draft is forgotten when an interrupted
  answer is continued; `dist_sample` (`sample.c:145`) returns token 0 for a
  random number of exactly 0, whatever its probability.
- SAVE_PACKED over the directory that is open truncates the file that is mapped;
  over a sharded directory it leaves every tensor twice; the result of `fclose`
  is not looked at. `docs/api.md:49` says `qbits` is not used for a packed
  container; matrices whose rows are no multiple of 32 still follow it.
  `architecture.md:167` says other tensors are copied unchanged; the second
  version writes the table as int8. Under streaming a container whose
  layout does not fit is refused at the first forward and not at the opening.
- `LORA_LAYERS=0` with `LORA` reads the layer behind the last
  (`qwen_train.h:594`); an alpha of 0 or less is saved, and read back as twice
  the rank.

## 8. What is not modelled, and what is simplified

Not modelled:

- kernels and back ends (`nn/` kernels, `hw/`, CUDA, Metal): floating point,
  whose control is one `ParRegion`; the routing arithmetic of `moe.c`;
- the JSON parser, the header of GGUF files and the dequantisation of its
  types: sequential parsers without state of their own;
- scoring modes and the other programs of `glm.c` that only read logits, the
  profile and the portability layer, tests, tools and examples;
- the adapters and biases TTA learns (Dense has its cache), the OpenMP and
  serial backends of the pool, CPU pinning, `tl_in` after a `longjmp`.

Simplified, and what that hides:

- Atomics and the pool's plain fields are sequentially consistent; reordering
  by weak memory is not explored.
- The model is deterministic under greedy decoding; sampled tokens are any
  token. `Handles` looks at sampled calls only, `SpecDecode` and `NgramSpec` at
  greedy ones. The law of a sampled token is `Sampler`'s, where a probability
  is a weight over a small sum: rounding of floats is not seen.
- `KvDisk` is killed, never unplugged: a write that returned is on the file.
- `Pilot` reads without io_uring, `Uring` is driven by the pilot only and its
  slots are any free slots, not the least recently used.
- `Streaming` counts weights as f32 (QBITS=0).
- `Grammar` starts from a syntax tree; the lexical rules of GBNF, the 1024
  rules and 63-character names are left out. Draft tokens are any cut of the
  forced bytes. `Schema` compiles to the same trees and writes lexemes, so
  escapes inside strings and the digits of numbers are one lexeme each. A schema
  has one of `const`, `enum` and `type` (the code looks at the first it finds and
  ignores the others), and its documents have no undeclared member.
- `Tokens` has one character for each class that the splitting expressions
  tell apart; the tables of Unicode are not modelled.
- `ModelFile` has one layer and no chain of symbolic names near its limit of
  64; the quantisers are names, so that what they round to is not seen.
- `GlmForward` takes the first layer of `indexer_types` to be a full one (a
  shared first layer has nothing to share), and `Closed` is a new process.
- The chat client of `Dense` begins with an empty history; that later turns of a
  chat continue rows with gaps is `WholeTrue` of `Chat` (section 7).
- `Trainer` computes no numbers: an operation's derivative is one edge. The
  gradient that comes into a layer is one path for the layer below, and the two
  matrices of an adapter are one slot.
- `ServeMux` receives whole frames; `Chat` names tokens by their place.
- `ExpertCache` has one layer; layers share nothing in the code either.

## 9. Plan

1. *Model further.* The dispatcher's `detect_arch`, which walks GGUF metadata by
   value type, and the rest of that header; the routing of `moe.c` (top-K with
   groups and bias) against its definition; the pilot's coupled prefetch and
   the ring under the load pipeline; `Repin` over two layers; what TTA learns.
2. *Compose.* Beyond the choice of a part: `Grammar` with `SpecDecode` (the
   drafts and the guard over one history), `Sampler` under `SpecDecode`,
   `ServeMux` with the writes of `KvDisk`, `Chat` around `NgramSpec`.
3. *Prove further.* `LoadsTrue` and `InPlace` of `ModelFile`, with the folds over
   the tensors of a file written as recursive functions, which can be unrolled
   step by step as `Pass` and `Recurred` are; `TokensTrue` of `Tokens`, whose
   module is not recursive; the compositions of item 2, from the lemmas there
   are for each part.

The order so far was: the pool and its theorem, the API (`Session`, `Handles`,
`Ownership`), the caches, the decoders, the files and the server, the tables,
the ring and the grammar; then the forward passes, the model files, the
sampler, the tokenizer, the schema compiler and the trainer.
