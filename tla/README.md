# Verification of the SpGEMM programs, caches and campaigns

This directory is a TLA+ development beside the C++ program: specifications of
the parts where several processes or threads must agree, model-checked on small
instances with TLC, and theorems about them checked by TLAPS for every instance.
Paths below are relative to the repository root.

## 1. Inventory of the system

The program multiplies two sparse matrices (CSR) on a cluster with MPI. It has
three older *baselines* (row-partitioned, two-sided / GET / PUT) and the *Trident*
family: a grid of `side * side` nodes of `nodeSize` ranks, a static Cannon-like
schedule, and five ways to move the tiles. Around it are validation, caches of
reference results and a Python campaign driver for Slurm.

| Part | Code | State | Operations |
|---|---|---|---|
| Process grid | `src/trident/common/process_grid.cpp` | coordinates of a rank, its communicators | construct, `rankAt`, `close` |
| Execution plan | `src/trident/common/execution.cpp` | one `Stage` per round: sources, targets, shapes, offsets | `preparePlan`, `multiply` |
| GET transport | `src/trident/common/rma_get.cpp` | windows over the inputs, `active_`, `pending_`, `closed_` | `begin`, `startFetch`, `completeFetch`, `finish`, `close` |
| GET backend | `src/trident/get/` | none of its own | `begin`, `fetch`, `finish`, `close` |
| Pipelined GET | `src/trident/get_pipeline/` | second buffer pair, `nextStage_` | the same, prefetching |
| PUT backend | `src/trident/put/` | windows over the workspace, `active_`, `nextStage_` | the same |
| Two-sided backend | `src/trident/two_sided/` | none | `fetch` |
| Hybrid backend | `src/trident/hybrid/` | request window, `generation_`, counters, service thread | `begin`, `fetch`, `notify`, `serve`, `finish`, `close` |
| Intra-node aggregation | `src/trident/common/intra_node_two_sided.cpp` | none | `assemble` |
| CSR transfer | `csr_transfer.cpp`, `src/common/mpi_large.hpp` | none | resize, send, receive, split into chunks |
| Matrix blocks | `src/trident/common/matrix_blocks.cpp` | hash accumulator | slice, distribute, gather, `addProduct` |
| Benchmark driver | `src/trident/common/benchmark.cpp` | result record | set up, repeat products, gather, validate, close |
| Baselines | `src/baselines/` | halo plans, windows, row buffers | build plans, exchange rows, multiply |
| Common | `src/common/spgemm_common.cpp`, `benchmark_metrics.cpp` | none | options, partition, slice, gather, serial product, validation |
| Matrix Market | `src/common/matrix_market.cpp` | none | read |
| Reference caches | `src/common/full_reference.cpp`, `partial_reference.cpp` | cache files, locks, temporaries | prepare, publish, read |
| Campaign | `scripts/lib/campaign.py` | manifest, receipts, state files, result tables | prepare, reference, submit, run, status, export |
| Experiments | `scripts/lib/experiments.py` | result tables, locks | run, validate rows, analyse |

How they interact. `multiply` calls `begin`, then for every stage `fetch`
(inter-node), `assemble` (intra-node) and `addProduct`, then `finish`; the
benchmark and the tests call `multiply` repeatedly on the same exchange object and
may change the values of the inputs in place between two calls
(`tests/trident_get_lifecycle.cpp`, `tests/trident_correctness.cpp`). Ranks share
nothing but MPI messages and windows; the hybrid backend adds a second thread per
rank. The campaign starts the programs as Slurm jobs and communicates with itself
over time through files.

What is hard here: ranks run at different speeds and nothing but the backend's own
barriers, flushes and messages keeps a rank from reading an input too early, reading
it after its owner has rewritten it, or writing into a workspace in use. The tests
inject delays at a few points; the orders they do not produce are what the
specifications explore. `PROJECT.json` lists every hazard at its line.

What makes each part correct:
- process grid: all ranks accept a layout or all refuse it, and every place has one rank;
- plan: every rank's source names it back as the target; the rounds visit every
  inner block once;
- all backends: a stage multiplies the tiles its plan names, in the version the
  product was called with, whichever rank runs ahead; every product ends;
- GET: no input is rewritten under a read in flight; the pipeline's reads never
  land in the pair in use;
- PUT: a put only lands in a workspace that waits for it, from the expected writer;
- two-sided: no message meets another stage's receive;
- hybrid: requests are neither lost nor answered twice, the generation check never
  fires, the service thread never outlives its inputs, draining cannot hang;
- baselines: a product finds the rows of B its columns name, wherever their owners keep them,
  for ranks without rows and without needs too;
- data path: whatever the partition, the gathered result is the serial product and the
  count checks never fire on it; arrays longer than an int counts arrive whole;
- reader and validation: a file means what its header says, and a verdict is right in both directions;
- benchmark driver: no rank waits for one that failed; success means a row in a
  table whose rows all stand under their own columns, though baselines use it too;
- caches and campaign: a published file is complete whatever dies when; no job is
  submitted twice; no observation is lost or recorded twice.

## 2. Modules

Inter-node exchange and `multiply`:

| Module | Role |
|---|---|
| `ExecutionPlan` | grid positions, `wrap`, sources and targets of a stage; the contents of a tile (owner, version) |
| `TileExchange` | abstract specification: what `multiply` relies on in any backend |
| `RmaGet` | state and operations of `GetTileTransport`, with MPI windows |
| `TridentGet`, `TridentGetPipeline` | `multiply` with the GET and the pipelined backend; extend `RmaGet` |
| `TridentPut` | `multiply` with the PUT backend |
| `TileMessages` | point-to-point messages that carry tiles (`csr_transfer`, `waitAll`) |
| `TridentTwoSided` | `multiply` with the two-sided backend and the intra-node aggregation; extends `TileMessages` |
| `TridentHybrid` | `multiply` with the hybrid backend, both threads; extends `TileMessages` |

Set-up, data path and result:

| Module | Role |
|---|---|
| `ProcessGrid` | node discovery, the decision on the layout, the place of every rank |
| `RowBlocks`, `RowPartition` | the closed form of `partitionRows`, and its loop |
| `MpiChunks` | both ends of `forMpiChunks` |
| `Csr` | sparse matrices by rows, the serial product, the counts |
| `CsrMessages` | a matrix between rank 0 and another rank (`sendCsr`, `receiveCsr`) |
| `TridentProduct` | tiles, stages with their shapes and offsets, panels, accumulation, gathering, checks |
| `BaselineProduct` | row blocks, product, gathering and counts of a baseline; extends `CsrMessages` |
| `FullValidation` | the streaming verdict on a result, row by row |
| `MatrixMarketReader` | `readMatrixMarket` |
| `BenchmarkDriver` | `runBenchmark`: the collectives of a job, failures, the result table |

Halo of the baselines:

| Module | Role |
|---|---|
| `RowExchange` | abstract specification: a product finds the rows its columns name |
| `RowHalo` | requests, slots and look-up; the rounds of the main programs |
| `HaloMessages` | the message phases; extends `RowHalo` |
| `HaloTwoSided`, `HaloGet`, `HaloPut` | plan and exchange of the three baselines |

Files and Slurm:

| Module | Role |
|---|---|
| `ReferenceStore` | abstract specification: what a reference cache promises for one key |
| `CacheFiles` | the files of a cache entry: lock, rename, fsync, what a crash leaves |
| `ReferenceCache` | generators and validations of one key, Full or Partial; extends `CacheFiles` |
| `CampaignSubmission` | `submit` of the campaign driver, and Slurm as it uses it |
| `CampaignRun` | `run` and `perform`: attempts of one node count over shared tables |

Every backend instantiates `TileExchange` under a refinement mapping (`Exchange`,
`ImplementsExchange`), every halo `RowExchange` (`Promised`, `ImplementsRows`), and
`ReferenceCache` `ReferenceStore` (`Store`, `ImplementsStore`).

Theorems are in the modules `..._proof`:

| Module | Theorems about |
|---|---|
| `ExecutionPlan_proof` | the plan, and the remainders it is computed with |
| `GetBackends_proof` | `TridentGet`, and `TridentGetPipeline`, of which it instantiates the first as `Get` |
| `TridentHybrid_proof` | `TridentHybrid` |
| `TridentTwoSided_proof` | `TridentTwoSided` |
| `MCExchanges_proof` | `TridentPut`, and what follows for the instances `MCExchanges` makes of it and of `TridentTwoSided` |
| `Jobs_proof` | what surrounds a product: `ProcessGrid`, `RowPartition`, `MpiChunks`, `ReferenceCache`, `CampaignSubmission`, `BenchmarkDriver`, `CampaignRun` |
| `BaselineProduct_proof` | `Csr`, `FullValidation` and `BaselineProduct` |
| `MCAlgorithms_proof` | `TridentProduct`, and what follows for the programs `MCAlgorithms` runs |

For TLC, `MCExchanges`, `MCLayout` and `MCAlgorithms` each put several
independent systems side by side. A behaviour picks one of them at the start and only that
one moves; the variables of the others keep the value `Unused`, or in `MCLayout`, which extends
its modules, their initial one. `MCAlgorithms` extends `BaselineProduct` and `FullValidation`, so that
what is proved of these is proved of what it runs. Where a module is instantiated the property says
`system = ... => property of the module`. `CsrInputs`, `HaloInputs`, `FileInputs` and
`ValidationInputs` hold the matrices, files and results the runs use.

### How the parts fit

`ProcessGrid` gives a rank the place by which the other modules name it, `MpiChunks`
justifies that arrays travel as one message, `RowPartition` that `partitionRows` may be
used as a value. `TridentProduct` takes of the backends what `TileExchange`
promises, the tile of `Source(r, s, op)`, and adds what happens to its contents;
`BaselineProduct` takes of the halos what `RowExchange` promises.
`BenchmarkDriver` leaves out what happens inside a product.

### Data

In the exchanges a tile is a record of its owner and a version. The inputs of product `g` are version
`g`: the caller's rewriting in place (`Prepare`, `PrepareInputs`) increments the
version, and a buffer that no complete tile was written to holds `NoTile`. That is
all the freshness properties need; values, shapes and sizes are left to `TridentProduct`, and
the checks on buffer addresses and sizes, which callers of the models cannot fail, are left out.
The three arrays of a CSR tile travel together there; to and from rank 0 they are
separate messages (`CsrMessages`), and an empty array is none.

In `Csr` and the modules over it values are integers. Sums then do not depend on the order
of their terms, a hash table is a function from columns to sums, and an error bound is a number of
tolerated units per term. `FullValidation` keeps the structure of the verdict
(coordinates on either side only, zeros, no bound available), not the arithmetic
of rounding. In the halos an entry of B is its position at its owner.

A rank of a grid is a record of row, column and node rank; `RankNumber` gives the
number the code uses. `pc` says where a program stands; an operation
with a barrier or a wait in it is one action up to the wait and one after it. A call
whose check would throw is not enabled in the exchanges, so that a broken lifecycle shows as a
deadlock; in the data paths it leads to `"failed"`, which `BaselineGathersProduct` and
`TridentNeverFails` exclude.

`TridentProduct` moves all ranks together: a barrier or the exchange
lies between any two of its steps, and the ranks share nothing else.
The halo modules have one barrier per round where the main programs
have two or more collectives, so more orders are possible than in the code.
`MatrixMarketReader` knows lines as comments or entries, since text that does not parse
is refused at once; `hermitian` takes the branch of `symmetric` and is not listed apart.

### MPI

- A barrier is a counter of the barriers a rank has entered; a rank leaves once
  every rank has entered as many.
- A window has a private copy (the owner's loads and stores) and a public one
  (remote accesses), which `MPI_Win_sync` makes equal. A read returns either copy
  (separate and unified memory models); a put into a buffer with unsynchronised local stores
  leaves it undefined.
- An `MPI_Get` or `MPI_Put` is performed at any moment from its issue to the end of its flush.
- A send completes when buffered (eager) or when met (rendezvous); MPI chooses, out
  of `SendModes`. A rendezvous send reads its buffer when it is met. In the halos
  a wait may end once the receives are complete, but is only certain to end when the
  sends are met as well (`SendsMet`).
- A hybrid request lands at any moment, but is only *guaranteed* to land while the
  owner's main thread is in a blocking call, which is what `docs/trident_hybrid.md`
  says of software RMA transports (`Reaches`).
- A collective lets a rank go as MPI allows: all ranks must have come (barrier), or only
  the root (broadcast), or nobody unless one is the root (gather). `MPI_Abort` reaches the
  other processes one by one, at any later moment.

### The hybrid backend's granularity

`TridentHybrid` runs a local step together with the MPI call that follows it
(`begin` with the first `fetch` up to its requests, the end of a stage with the next one) and a poll
that finds nothing new is a stuttering step. The slots are polled in any order, of
which the code's scan is one.

### Files, processes and Slurm

- A process of the caches and the campaign may be killed between any two steps; the
  kernel then releases its `flock`, and stdio's buffer is lost.
- A machine crash (`CacheFiles`) leaves of a file anything between what `fsync`
  secured and what was written, and one of the states the directory had since its own
  `fsync`. `rename` is atomic. Bytes are a function of the cache key and are
  left out; a file is the set of its chunks in place.
- `BenchmarkDriver` runs jobs one after the other over one table. All Trident programs write the
  same columns, and a program only compares the header, so their rows may stand in one table, each
  with its implementation; a baseline writes other columns. Its job is one step, with the same check,
  and adds its row or, if it is stopped, at most an empty table. A rank may throw wherever it is; a job may be stopped at any time, as by its time limit.
  Creating the table is one step, writing to it (the header, if it was empty, and the row) another.
- Slurm starts a job once the job it depends on has ended (`afterany`), and ends what
  it runs. `sacct` knows every job or the call fails; cancelling a pending job is left out.
- Whether a job of `CampaignSubmission` left something missing is its outcome (`complete`);
  `CampaignRun` looks inside. Its attempts share a node count; tables, locks and the
  state file are per node count or per job as in the code. Results survive kills there;
  crashes of the file system are only modelled for the caches.
- A reference that a generator reports as *generated* survives every crash. One
  that is *reused* need not: if the first generator is killed between `rename` and
  the synchronisation of the directory, the next one finds the file and does not
  synchronise again. Nothing in the repository promises more, and a lost file is
  generated again (`ReferenceStore` says exactly this).

## 3. Runs

| Run | Instance | Distinct states | What it shows |
|---|---|---|---|
| `get` | 2 x 2 x 1, 2 products | 35,262 | no write under a read, termination, refinement |
| `get_pipeline` | 2 x 2 x 1, 2 products | 52,254 | the same, and the two buffer pairs stay apart |
| `exchanges` | tiles: PUT and two-sided on 2 x 2 x 1, 2 products, two-sided on 1 x 1 x 3, 3 products; rows: 3 ranks, 2 rounds, 33 pairs of matrices, 3 transports | 161,797 | refinement of `TileExchange` and `RowExchange`, the panel holds the right slices in place, termination |
| `hybrid` | 2 x 2 x 1, 2 products, rendezvous | 457,534 | requests answered once, none unexpected by the service thread, refinement |
| `hybrid_fair` | 2 x 2 x 1, 1 product, rendezvous | 183,894 | termination under weak progress |
| `reference_cache` | 2 generators, 1 validation, 3 chunks, 4 starts, 1 crash | 50,456 | absent or complete whatever dies, sole writer, refinement |
| `submission` | 2 callers, 3 jobs in 1 pool, 4 Slurm jobs | 94,487 | no duplicated or forgotten job; chains are resumed in order and progress |
| `submission_retry` | 1 caller, 3 jobs, retries, 5 Slurm jobs | violation | see below |
| `campaign_run` | 2 attempts at a time, 5 in all; 5 cases, 3 jobs, 2 variants | 29,307 | rows recorded once, after the checks, and kept; complete means all; lock released |
| `benchmark_driver` | 2 jobs of 3 ranks, of 2 Trident programs and a baseline | 833,862 | success only with a row, every row under its columns, every process ends |
| `layout` | 1 to 8 ranks on up to 4 hosts; 0 to 13 rows over 1 to 6 ranks; 0 to 9 elements, chunks of up to 4 | 57,050 | places, common decisions, one owner per row, payload whole |
| `algorithms` | 2 x 2 x 2 ranks; 3 ranks; files of two rows and up to four lines; results of 1 x 3 and 2 x 2 | 295,524 | gathered result, checks that never fire, reader, verdict |

Why the bounds are enough. The exchanges have the smallest grid with remote tiles in
both operands (2 x 2 nodes of one rank), except the panel, which needs several ranks on a node. At
`Side = 2` a stage has a remote A tile, a remote B tile, both or neither, depending
on the rank, so every branch of every backend is taken. Two products are enough for
a fast rank to reach the next version of the inputs while a slow one is still in the
previous product; because every rank of the row and column is a neighbour, no further
rank can be reached. Three products on the panel let a rank run two ahead of a peer that has
not received. The hybrid runs use rendezvous sends only, the mode in
which a send depends on the input for longest; with both modes two products have several million states.
They split two products (safety) from termination (one product), since the second is the slower to check;
that two products do not get stuck is checked by `hybrid` as the absence of deadlocks.

Three ranks in the halos and in `BaselineProduct` give a rank with more rows, one with fewer, and one with
none; the matrices have empty rows, ranks that need nothing, rows named twice
and out of order, and gaps between requested rows. The grid of `TridentProduct` has two ranks
per node, so tiles are cut twice and a panel has offsets; its matrices have
unsorted and repeated columns, stored zeros and sums that cancel.
`MaxDimension = 4` is the most rows a matrix has there and the most a panel may have. In `layout` the placements include nodes of unequal size, block and cyclic
orders, and jobs that fit no square. The files of `algorithms` hold one arbitrary line (out of range
on either side, comments) and up to four good ones, fewer and more than announced. The results
that are judged are right and wrong ones, and matrices that are none: offsets that decrease or are
too few, a column outside, a column without value.

With these sizes no panel comes near `MaxDimension`: that the limit refuses no good matrix on any
grid is what `TridentChecksHold` proves, and that a panel beyond it is refused is left to the code.

`MaxProducts` and `MaxRounds` are the caller's number of repetitions, not a limit in the code.
`PanelProducts` is the number of products on the one node. `MaxStarts`, `MaxStarted`, `MaxCrashes`, `MaxIds` and
`Jobs` bound how often processes start, machines crash, Slurm accepts a job and the benchmark is run;
`JobCount` is the number of jobs in a campaign. Four starts let a second generator and a reader run before,
between and after a generator that died; three chunks tell header, body and
checksum apart; five starts let the three jobs of `campaign_run` overlap and be
retried; four Slurm jobs are one per job and one retry. `Done`, `Stopped`, `Exhausted`, `NoMoreJobs`
and `Returned` are the finished run's stuttering step (in `CampaignSubmission` `RefuseCall` is a call that ends with an error),
so deadlock is checked everywhere.

`RequestsAnswered` says of the hybrid slots both that the generation in a slot is the one its owner
expects and that none is left over at the end; `OnceAndChecked` that an observation is recorded
once and after its pilot and probe. `ChainsResumed` says that the jobs of a pool run one at a time and
in order, also after a caller died in the middle of a submission, as long as nothing is retried.

`FreshTiles`, which the refinement implies, and the `TypeOK` of the modules with a theorem about them
(the GET, pipelined and hybrid backends, `ReferenceCache`, `CampaignSubmission`, and inside their
invariants the PUT and two-sided backends and `CampaignRun`) are proved rather than run; in the other
modules `TypeOK` documents the state.

Every property has a *slip* in `PROJECT.json` (`mutants`): a definition marked
`Slip:` in the modules that alters the code's behaviour as a plausible mistake
would, under which the property fails.

### A disagreement between documentation and code

`docs/experiments.md:81` says "Each node count has a sequential job chain".
`submit` continues the chain of a pool from the last *active* job in the order of the manifest
(`scripts/lib/campaign.py:444-448`). After `--retry-failed` the manifest's last active job
need not be the last link of the chain: jobs 0, 1, 2 run as 1, 2, 3; job 0 fails and is
retried as 4, after 3; job 1 fails and is retried, while 3 is active, as 5, also after
3. When 3 ends, 4 and 5 start together. For measurements the
execution lock of the node count makes the later one fail, which wastes an allocation and
needs another retry; for references more chains run than `reference_parallelism` says.
`submission_retry` finds this; `ChainsResumed` shows that the chain is
sequential as long as nothing is retried.

### Fairness

Strong fairness is assumed nowhere.

- `TridentGet`, `TridentGetPipeline`: weak fairness of each rank's steps together; a rank is a
  running process and MPI performs issued operations.
- `MCExchanges`, `TridentHybrid`: only that *some* step happens as long as one
  can (weak fairness of one disjunction over all ranks). It is weaker, and enough, since no rank can go on for ever
  without the others: rounds and products are finite and nothing polls but by stuttering.
- For the hybrid backend a request is only part of that disjunction while its owner's main thread
  is inside MPI (`InMpi`), in `fetch` or in `finish`. Both calls are needed: without the one in
  `fetch` (`InMpiFinishOnly`) nobody gets a tile, and with a plain join in
  `finish` TLC finds a rank whose last requests never land, which is why the code has that receive.
- In the halos (`Progress`) nothing is owed to a rank whose sends nobody has met.
- `BenchmarkDriver`: every rank runs on and an abort arrives. Throwing and time limits are not fair.
- Caches and `CampaignRun`: a process that was started runs on until it ends or
  is killed; nobody is required to start, retry or kill anything. In
  `CampaignSubmission` only Slurm is fair: it starts what is eligible and ends
  what it runs, since every job has a time limit.

## 4. Proofs

TLAPS proves, for all values of the constants:

- `ExecutionPlan_proof`: `TargetsInvertSources` (q is the source of r in a round
  exactly when r is the target of q) and `RoundsCoverInnerBlocks`. They rest on
  lemmas about `%` and on `WrapShift`, which says what the corrected C++ remainder computes.
- `GetBackends_proof`, for GET (`Get...`) and pipelined GET: `TypeCorrect`, `Freshness`,
  `WritesAwaitReaders` (no input is rewritten under a read in flight) and `Implementation` of
  `TileExchange`; for the second also `DoubleBuffering`.
- `TridentHybrid_proof`: `TypeCorrect`, `Protocol` (`RequestsAnswered`: the generation check never
  fires, and a finished product leaves as many tiles served as asked for), `ReceivesFirst` (a tile always
  finds its receive) and `Implementation`.
- `TridentTwoSided_proof`: `Freshness` (of panels and tiles) and `Implementation`.
- `MCExchanges_proof`: `PutImplementation`; `MessagesImplementation` and `PanelsFresh`, which carry
  the theorems about the two-sided backend over to both of its instances there.
- `Jobs_proof`, of what precedes a product: `LoopComputesPartition` (the loop leaves the closed form the other modules use) and
  `RowsHaveOneOwner`; `Whole` (a payload arrives whole and no chunk is longer than an int);
  `RefusedByAll` (one rank refuses a layout only if all do) and `InTheirPlaces` (if they accept
  it, every rank is where the plan says, and ranks of a host are one node of the grid); of the reference
  caches `CacheTypeCorrect`, `NeverHalf` (the published name is absent or
  complete after any kills and crashes), `OneWriter` and `CacheImplementation` of `ReferenceStore`;
  of the submission: `TypeCorrect`, `WorkedOnOnce` (no two active Slurm jobs for one job),
  `ReceiptsRemember` (none is forgotten) and `ResumedInOrder` (chains stay chains, without retries);
  of the benchmark driver: `Recording` (what a rank returns is in the table) and
  `Readable` (one header, rows of its columns only); of a campaign's runs: `MeasuredOnce`,
  `CompleteIsComplete` and `RowsKept`, an action property.
- `MCAlgorithms_proof`: `BaselineProductIsRight` and `TridentProductIsRight`. Whatever the numbers of
  ranks, nodes, rows and columns, what rank 0 puts together is exactly the serial product, which is the
  product of the matrices; and `TridentChecksHold`, for a baseline part of the first: the program's own checks
  of shapes and counts never stop it. `VerdictsAreRight` (from `Judgement` in `BaselineProduct_proof`): the
  streaming verdict passes a result exactly when no coordinate is off and counts those that are, for any
  matrices, well formed or not.

Assumptions, beside that a constant bound is a number and that a name for nobody or nothing is
nobody's (`BoundAssumption`, `BoundsAssumption`, `SubmitBoundAssumption`, `ProductsAssumption`,
`RowsAssumption`, `CountAssumption`, `StartsAssumption`, `NoneAssumption`, `NothingAssumption`,
`NoCallerAssumption`, `UnsetAssumption`, `UnusedAssumption`):
at least one node, one rank per node (`GridAssumption`, `SidesAssumption`) and one rank (`RanksAssumption`); MPI sends eagerly,
with rendezvous, or either way (`SendModesAssumption`); an int holds something (`IntAssumption`) and
counts are not negative; jobs have ranks (`RankCountsAssumption`, `SizeAssumption`); files have
chunks (`ChunksAssumption`) and a process generates or validates, not both (`ProcessAssumption`);
a campaign has chains (`ChainAssumption`), cases, variants and jobs that hold cases (`PlanAssumption`);
what is judged are three matrices, of which nothing else is assumed (`InputsAssumption`), and what is
multiplied are two matrices the reader accepts, of fitting shapes (`OperandsAssumption`), whose
dimensions an int holds (`DimensionAssumption`).

Few of the properties are inductive by themselves. What the invariants add, and why it is needed:

**GET.** The inductive invariant of both GET backends adds to the types: how many barriers a rank
has entered as a function of its product and location, so that comparing counters
tells where other ranks are (`BarrierInv`); what the flags say about the location
(`FlagInv`); how versions of private and public copies follow the product
(`InputInv`); which reads are in flight where (`ReadInv`); and what every buffer
entry holds, or which read will fill it (`TileInv`). None of the properties is
inductive without the barrier counts: that a reader sees version `g` needs that its
source has entered the `g`-th "inputs ready" barrier and cannot have left the "readers
done" barrier. The refinement maps each
action to one abstract step or to a stutter; `fetch` becomes visible when the flushes return.

**Hybrid.** There are no barriers to count. Between an owner and each consumer of its tiles
three numbers follow one another instead: the tiles asked for, answered and received. A consumer asks
again only once it has received, so `gets <= answers <= asks <= gets + 1`
(`ProtocolInv`); a slot therefore never holds more than the one request its owner expects,
and the counter at `finish` is exact (`CountInv`, a count of answers over a set of
neighbours that `MainInv` and `ServiceInv` relate to the places of the two threads). `TileInv` follows: the owner cannot be
in the next product before all that will ask have been answered. That every consumer has one round for a given owner is
`ExecutionPlan_proof`'s inversion of sources and targets.

**PUT.** Each stage has two barriers, and how many a rank has entered follows from its product, stage
and location (`BarrierInv`). A rank that has left the n-th knows that all have entered it, so between the
two barriers of a stage all ranks are in that stage of that product (`SameStage`). Only there are puts in
flight (`PutInv`), into a buffer whose owner has synchronised its own stores and waits; when its owner
leaves the second barrier the writer has flushed, so the buffer holds the tile of the stage (`TileInv`).
There is no barrier between products: that inputs are not rewritten under a put comes from the second
barrier of the last stage.

**Two-sided.** Nothing keeps the ranks together, and a message names neither stage nor product. The
invariant numbers the messages of every link: how many were sent follows from where the sender is (`Sent`),
how many were received from where the receiver is and what it still waits for (`Got`). The
link holds as many as the difference, the numbers tell what they carry (`ChannelInv`, `Between`), and
only the last one can be a rendezvous message, of a sender that waits for it and cannot rewrite its
input meanwhile. A posted receive then gets the message its stage asks for, since
both ends count the stages in which the one sends and the other receives alike, which is again the inversion of sources
and targets. `TileInv` and `PanelInv` say what that leaves in the buffers.

**Validation.** The invariant (`VerdictIInv`) follows the merge of the actual row with the sorted cells of the expected
one: the coordinates reached so far are all those of earlier rows and the columns either side has passed in
the current one, and `rejected` counts those of them that are off. It needs that the
expected side is sorted without repetitions (`AscendingIs`) and that the row sums are what `ColumnSum` says
of the entries. Sums and concatenations are recursive functions. The prover has no induction over them, but
a set of numbers that is not empty has a least one (`FirstFailure`): that such a function
exists (`Iterated`) and what holds of all its values is proved with a least counterexample.

**Baseline product.** Each rank's place tells what it has: its cut of A and of B once it has received them, its
share of the result once it has multiplied (`BlocksInv`). What has not been received is on the wire, and
nothing else is: a link holds the parts of the cuts still due, in order, without those that are empty
(`WireInv`), so the arrays a header announces are the next ones there. Rank 0's matrix consists of the shares of the ranks
before `nextPeer` (`GatherInv`); a matrix is determined by its rows (`SameRows`), so the last append makes it
the serial product. The counts agree since a sum over ranks of sums over their rows is the
sum over all rows (`NnzOfCuts`, `WorkAgrees`), and the serial product is the product since accumulating,
sorting and dropping zeros leave the sum at every coordinate (`ResultRowIs`).

**Trident product.** The ranks move together, so each place says what all tiles are (`TridentIInv`). The
accumulator is compared with the product by *sums at a coordinate*, not by entries: up to stage `s` a
rank has gained the terms of the inner blocks of the rounds before `s` (`GainsAddUp`), each inner index
occurs in just one round (`InnerOnce`, from `RoundsCoverInnerBlocks`), and a panel, slices one after the other
with rebased row pointers, has as its k-th row the k-th row of the inner block (`PanelIs`). So the finished tile
is the tile of the serial product (`ResultTileIs`), rows being sorted, without repetitions and without
zeros on both sides. Gathering appends tiles in the order of the ranks, that is of their columns within a row, so what has been
collected of a row is the part of the serial row below the next tile's columns (`OwnedBefore`,
`GathersMore`), and sorting a row that is sorted changes nothing (`SortedStays`). The counts agree because
the ranks that hold a row, and those that hold a column of it, cover it once (`RowHolders`, `ColumnHolders`,
`GridSum`).

**Layout.** That of the partition says where the loop is: `firstRow` is the closed form for the current
rank, and the blocks so far are ordered and cover all rows below it. The key lemma is that a
block ends where the next begins (`BlocksAdjoin`). That of the chunks says that the chunks in
flight follow each other without a gap from the receiver's offset to the sender's
(`ChainInv`), so the receiver, which computes the next chunk on its own, finds just that one.
That a layout is refused by all rests on an argument about cardinalities: ranks on one host
with all ranks share it with all (`SharedByAll`). The places of the ranks add what each step of the
construction has computed (`NodesInv`, `SizesInv`, `PlacesInv`); the lemma that carries them is
`Counted`: counting how many members of a set lie below a member numbers the set from zero, once for
the nodes by their leaders and once for the ranks of a node.

**Caches.** A rename publishes what the writer has flushed and synchronised, and nobody else may
undo that: the lock has one owner (`LockInv`), only that owner has the temporary open, and as
the file the directory names (`FileInv`); it has secured what its place says (`BufferInv`); and
no directory that a crash can bring back publishes the inode of the temporary (`DirectoryInv`).

**Submission.** A call decides by what it read when it took the lock. The invariant says what that
still tells of Slurm's queue, where jobs start and end meanwhile (`CandidateInv`), what the call
has done so far (`CallInv`, `ManifestInv`), that a receipt names a job of its own (`ReceiptInv`), and
how the jobs of a pool hang together while nothing was retried (`LinkInv`, `PreviousInv`).

**Tables.** In the benchmark driver a rank that knows the verdict knows that the root has come to the
broadcast, and the root comes there after its row (`VerdictInv`); what it found in the table holds until it
writes (`FoundInv`, `RowsInv`). In a campaign the lock of the node count, which a dead attempt gives back, lets one attempt work
(`AloneInv`), so what it found still holds when it replaces a table
(`PresentInv`, `TempInv`); a check leaves the work only when its row is there (`CheckInv`) and comes
before every case because of the order of the work (`FirstOfAll`).

Only model-checked: everything about termination and release (`AllEnd`, `AllClose`, `ChainsProgress`,
`ExecutionReleased` and the rest), since fairness is out of reach of the prover; that the halos implement
`RowExchange` (`ImplementsRows`), and the reader (`ReadsWhatIsWritten`).

## 5. Not modelled

- Timing, statistics, options, logging, reporting; hashing, random values, encodings.
- Floating point: rounding and the arithmetic of the error bounds.
- Buffer allocation and collective set-up of windows.
- The campaign's `prepare`, `verify`, `reference` and `export`, the stand-alone experiment runner
  and its analyses, downloads and exports: they read and write files in one pass and nothing runs beside them.
- Two jobs that start on one new table at the same moment, and a row torn by a kill: the
  campaign gives every attempt a table of its own, and where the system tears a write is not in the code.
- Exhaustion of the 64-bit generation of the hybrid backend, out of reach of any run, and
  unbounded piles of eager messages.

The components marked `partly` or `not_modelled` in `PROJECT.json` are listed with their reason.

## 6. What is left

1. Proofs that the halos implement `RowExchange` (the slots of a rank are the requested rows in order, and one
   barrier separates the rounds) and that the reader places what it has counted.
2. The rest of the campaign: `reference` with its receipts, `verify`, `export`.
