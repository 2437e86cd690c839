# A verification development for Sirius

Sirius is a SQL engine for GPUs that lives in DuckDB as an extension. DuckDB
parses and optimises a statement, Sirius translates the logical plan to GPU
operators, and runs them over columns that it keeps cached in GPU memory; when
anything throws on the way, DuckDB runs the statement instead. This directory
holds TLA+ modules of that engine, the TLC runs that check them on small
instances, and TLAPS proofs of what matters most for every size.

The code modelled is `src/src` (C++ and CUDA); source names below are relative
to it, documentation is quoted by its path in the repository. The tests, the
benchmark scripts, the TPC-H generator, earlier projects' results and
`src/legacy` are not part of the system. The `duckdb` and `substrait`
submodules are external.

1. [The system](#1-the-system)
2. [The modules](#2-the-modules)
3. [The runs](#3-the-runs)
4. [Fairness](#4-fairness)
5. [The proofs](#5-the-proofs)
6. [Where the code departs from its promises](#6-where-the-code-departs-from-its-promises)
7. [What is not modelled](#7-what-is-not-modelled)
8. [Plan](#8-plan)
9. [Running it](#9-running-it)

## 1. The system

```
  client -> DuckDB -> gpu_processing bind / function      (sirius_extension.cpp)
                          |  plan generator               (gpu_physical_plan_generator.cpp, plan/)
                          v
                      GPUContext -> GPUExecutor           (gpu_context.cpp, gpu_executor.cpp)
                          |           | meta-pipelines    (gpu_meta_pipeline.cpp, gpu_pipeline.cpp)
                          |           v
                          |        operators              (operator/, expression_executor/)
                          |           | kernels           (cuda/)
                          v           v
                      GPUBufferManager, one per process   (gpu_buffer_manager.cpp)
                        caching region | processing pool | pinned host arena
```

Three kinds of interaction make the system hard to reason about.

* **One buffer manager for everybody.** `GPUBufferManager` is a singleton
  without a lock. All connections share its caching region, its processing pool
  and its host arena, and `ResetBuffer` and `ResetCache` take memory back from
  all of them.
* **Pointers and row ids instead of values.** Operators hand each other columns
  that point into blocks of somebody else, with row ids that say which rows are
  meant. Who owns a block is a rule that each operator follows on its own.
* **Callbacks of a pipeline.** The executor calls `GetData`, `Execute` and
  `Sink` of the operators; their results are kept in the operators themselves,
  so that the order of pipelines is the only thing that makes a result complete
  when it is read.

| Component | State | Operations | What is hard | What makes it correct |
|---|---|---|---|---|
| Caching allocator (`gpu_buffer_manager.cpp`) | two atomic bump pointers, one per share of the region | `customCudaMalloc(.., caching)`, `ResetCache` | atomics of several connections interleave; a refused request takes its bump back | blocks are disjoint and in the region; a refused request leaks nothing |
| Column cache and table scan (`gpu_physical_table_scan.cpp`, `gpu_buffer_manager.cpp`) | `tables`, the header of each cached column, the bytes | is it cached, evict, register, allocate, copy, hand out views | eviction under a query that still reads; a load that throws half way; changed tables | a header points at the bytes of its own column, of one version |
| Pipeline construction and scheduling (`gpu_meta_pipeline.cpp`, `gpu_executor.cpp`, `BuildPipelines` of the operators) | meta-pipelines, pipelines, dependencies; the schedule; results in operators | `BuildPipelines`, `Ready`, the scheduling loop, the execution loop | CTEs and delim joins add dependencies across the tree; right joins add pipelines | every result is complete before it is read |
| Query lifecycle (`sirius_extension.cpp`, `gpu_context.cpp`) | the prepared plan of a statement, its result, the host arena, `buffer_is_initialized` | `gpu_buffer_init`, bind, execute, fetch, fall back | two statements' binds, executions and fetches interleave over one arena | plans and answers keep their memory; every call is answered |
| Result collector (`gpu_physical_result_collector.cpp`, `cuda/utils.cu`) | host buffers of all columns, the chunks | reserve, copy and convert each column, cut into chunks | a buffer sized before row ids are applied; chunks are pointers | DuckDB reads the relation |
| Hash join kernels (`gpu_physical_hash_join.cpp`, `cuda/operator/hash_join_*.cu`) | slots claimed with `atomicCAS`, counters of the output | build, probe, mark, scan | thousands of threads; a stride that need not visit all slots | no row lost or hidden; the output is the join |
| Processing pool and late materialisation (`gpu_materialize.cpp`, `materialize.cu`, the operators) | blocks, locks, columns with data and row ids | allocate, free, lock, compose row ids, materialise | materialising frees blocks other columns may point to | columns keep standing for what the plan means |
| Expression executor (`expression_executor/`) | one column per expression | `Execute` per expression class, `Select` | NULLs, masks, what is not supported | SQL's value, or an exception |
| Scan predicates (`gpu_physical_table_scan.cpp`, `arbitrary_expression.cu`) | row ids, a counter claimed by blocks | take, skip or refuse pushed filters; the kernel | blocks finish in any order; string comparison | each matching row once |
| String kernels (`strings_matching.cu`, `substring.cu`) | none between launches | automaton match, prefix, substring | matches across pieces, chunks and rows | a row is found when it matches |
| Order by and top-N (`gpu_physical_order.cpp`, `gpu_physical_top_n.cpp`, `cudf_orderby.cu`) | the sorted columns | sink, sort, cut; string top-N by prefixes | groups of equal prefixes cut by the limit; NULLs; a second batch | the first rows of a full sort |
| Aggregates (`gpu_physical_*_aggregate.cpp`, `cudf_aggregate.cu`, `cudf_groupby.cu`, `plan/gpu_plan_aggregate.cpp`) | the result, combined batch by batch | plan, sink, combine, hand out | three numberings of the columns; NULLs; empty and second batches; widening | SQL's groups and values |
| INNER joins (`gpu_physical_hash_join.cpp`, `gpu_physical_nested_loop_join.cpp`, `cudf_join.cu`, `nested_loop_join.cu`) | keys and payload of the build side; offsets of blocks | plan, sink, count, write, or call cuDF | two numberings of columns; blocks claim places in any order; which of three paths | SQL's pairs, with their cells |
| Delim joins (`gpu_physical_delim_join.cpp`) | columns kept for a scan, a join and an aggregate | pipelines, sink | dependencies through scans elsewhere in the plan; three readers of the same blocks | as for pipelines and for the pool |
| Plan generator (`gpu_physical_plan_generator.cpp`, `plan/`) | the plan under construction, `delim_index`, the CTEs' scans | one function per logical operator | filters that move; maps; scans gathered from a tree already rebuilt | the plan means the statement |
| cuDF and RMM wrappers (`cuda/cudf/`) | none | joins, sorts, group-bys | who frees which buffer | as for the pool |
| Substrait entry | none of its own | `gpu_execution` | binds without asking whether it may | as for the lifecycle |
| Logging, legacy kernels, tests and build | none | | | |

`PROJECT.json` lists the same components with their modules, and the hazards of
each at the line where they bite.

## 2. The modules

Each module states in its header what it stands for. `PROJECT.json` maps every
definition to the lines it models. A definition commented "Faulty" is a variant
of the one that follows it, a plausible mistake that a property must detect; no
specification uses it.

| Module | Models | State and actions against the code |
|---|---|---|
| `CacheLayout` | how the region is split and requests are padded | constants only |
| `CacheAllocator` | `customCudaMalloc` for the cache and `ResetCache` | one action per atomic (`GpuFetchAdd`, `GpuGrant`, `GpuRollback`, `CpuFetchAdd`, `CpuGrant`, `OutOfCachingMemory`, `ResetCache`), any number of connections |
| `TableCache` | a connection's scans over the cache | `Submit`; `AllCached`, `TooLarge`, `Evict`, `Extend` are the branches of `GetDataDuckDB`; `AllocateOnGpu`, `AllocateOnCpu`, `OutOfCachingMemory`, `OutOfCpuMemory` those of `ScanDataDuckDB` buffer by buffer; `LoadColumns`, `TakeViews`, `Finish`, `Return`; `UpdateTable` is another DuckDB connection |
| `PhysicalPlan` | plans as trees of operators, and which of them the generator can make (`WellFormed`) | shared by the next three |
| `GPUMetaPipeline` | `GPUMetaPipeline::Build` and every operator's `BuildPipelines` | `stack` is the C++ call stack; an action is one call's body up to its last recursive call |
| `GPUExecutor` | `InitializeInternal` and `Execute` | extends the construction with `Ready`, `GetMetaPipelines` (one call of the recursion), `ScheduleTurn`, `PushPipeline` (one turn of the loop over a meta-pipeline's pipelines), `StartExecution`, `RunPipeline`, `Throw`; `held` are the rows in operators, by the `Sink` call they came from |
| `DataFlow` | nothing: the abstract specification | an operator is filled once, after what it reads; `GPUExecutor` implements it |
| `QueryLifecycle` | entry points and `GPUContext` | per statement: bind (`BindUnplanned`, `GeneratePlan`), call (`CallAgain`, `CallDuckDB`, `CallUnplanned`, `CallGPU`), `Run`, `Collect`, `EndQuery`, `Throw`, `Fetch`, `Drain`; one host arena for all |
| `ResultCollector` | `GPUPhysicalMaterializedCollector::Sink` and `GetNext` | the arena cell by cell, so that an overrun shows |
| `HashJoin` | the hash table of the joins Sirius does itself | one action per atomic or plain write of a thread: claim, fill keys, fill row id; probe, write; scan. `Word` is what a kernel for the first key's type reads of any key; `ProbeReturns` is a kernel that asserts and returns |
| `LateMaterialization` | the processing pool through the operators of a plan | blocks, columns as `[data, ids]`, and `wanted`, the relation the plan means; an operator reads its columns one at a time |
| `Predicates` | nothing: SQL's values of expressions and filters | the reference |
| `StringKernels` | the string kernels, thread by thread | operators |
| `ExpressionExecutor` | `GpuExpressionExecutor::Execute`, one operator per class of expression | a column, or `Thrown` |
| `WhereClause` | the scan's filters, then the filter operator | the blocks of the scan kernel claim and write in any order; `Evaluate`, `Select` |
| `Aggregates` | a `LogicalAggregate` to its answer | plan, sink one or two batches, hand out; the numbering of columns is the code's |
| `TopN` | ORDER BY and top-N, from the relation sunk into the operator to the columns it hands out | `Sink` per batch, `GetData`; `CustomStringTopN` by its records, prefix order and leading groups; a sort is any order that its comparator allows |
| `InnerJoin` | an INNER join from its `LogicalComparisonJoin` to its rows | `PlanComparisonJoin`, `Sink`, `Execute` (cuDF or the kernels), `CountBlock`, `EndCount`, `WriteRow`, `EndWrite`, `Output`; blocks claim their places in any order, and a build column called unique makes `cudf::distinct_hash_join` keep one row of each key |
| `PlanGenerator` | `GPUPhysicalPlanGenerator`, one operator per `CreatePlan` | pure: the plan under construction in, the plan out |
| `PlannedQuery` | a logical plan through the generator to its rows | `PlanNode` is the next `CreatePlan` to return; `Execute` runs the physical plan, operator by operator, on small tables; a relation is columns of data and row ids, and an operator hands on what the code's does (`Bare`: neither row ids nor masks nor offsets) |
| `CacheAllocatorProofs`, `TableCacheProofs`, `QueryLifecycleProofs`, `HashJoinProofs`, `HashJoinAnswerProofs`, `LateMaterializationProofs`, `LateMaterializationValues`, `GPUExecutorProofs` | | section 5 |
| `MC...` | | the inputs of the runs |

`CacheLayout` is extended by `CacheAllocator` and `TableCache`; `PhysicalPlan`
by `GPUMetaPipeline` and `DataFlow`; `GPUMetaPipeline` by `GPUExecutor`;
`Predicates` and `StringKernels` by `ExpressionExecutor`, and that by
`WhereClause`; `PhysicalPlan` by `PlanGenerator`, and that by `PlannedQuery`.
`MCOperators` puts the four one-shot computations side by side (`Aggregates`,
`TopN`, `InnerJoin`, `PlannedQuery`): each input belongs to one of them, and the
variables of the others stay idle. `MCGPUExecutor` runs plans that
`PlanGenerator` makes through the construction and the schedule of
`GPUExecutor`, after renumbering them from the result collector down, parents
before children. TLC evaluates `PlansAssumption` on all of these plans: what the
proofs assume of a plan holds of those the generator's model makes.

What the modules leave out of the data:

* addresses are small integers, sizes a few units, the padding unit two bytes
  in place of 256;
* a relation is what its columns stand for (a base column and row numbers), a
  row of a pipeline the `Sink` call it came from;
* integers keep their widths where a width decides something: the hash of a
  negative key, the widening of sums, the widening of the collector;
* time, logging, profiling and the layout of messages are left out.

## 3. The runs

Each passing run checks the module's type invariant where it has one, and the
properties below. `CHECK_DEADLOCK FALSE` appears where a query, a plan or a
kernel ends and nothing is left to do; `cache_allocator` and the two
`table_cache` runs check for deadlock.

| Run | Distinct states | Properties |
|---|---|---|
| `cache_allocator` | about 168,000 | `BlocksApartUnlessRaced`, `BlocksInRegionUnlessRaced`, `NothingLeaksUnlessRaced` |
| `table_cache` | about 120,000 | `CacheCoherent`, `GpuAnswerIsWhatWasLoaded`, `HolesComeFromFailures`, `SubmittedIsAnswered` |
| `table_cache_oversized` | violation | `OversizedInputIsRefused` |
| `executor_plans` | 123,000 | `PipelinesFollowPlan`, `ScanFollowsProbes`, `RowsReachReaders`, `TablesAreLive`, `ImplementsDataFlow` |
| `lifecycle_sql` | 6,264 | `PlanMemoryIsIntact`, `AnswerIsWhole`, `OnlyLateInitFails`, `EveryCallEnds` |
| `lifecycle_substrait` | violation | `InitSizesTheRegions` |
| `collector` | 113,000 | `AnswerIsRelation`, `PointersUnlessOutgrown` |
| `collector_nulls` | violation | `NullsStayInTheirRows` |
| `hash_join` | 876,000 | `RowsAreKept`, `RowsAreReachable`, `AnswerIsJoin`, `KernelsEnd` |
| `late_materialization` | 6,460,000 | `RelationIsCurrent`, `StoredColumnsStay`, `AnswerIsWanted`, `NoStrayFree` |
| `where_clause` | 516,000 | `ScanKeepsMatches`, `ValuesAreSql`, `NullsHideButNeverFlip`, `AnswerIsWhere` |
| `operators` | 606,000 | `AggregateGroupsAreSql`, `AggregateValuesAreSql`, `SortedRowsAreSql`, `JoinedPairsAreSql`, `JoinedCellsArePaired`, `PlannedRowsAreThePlans`, `PlannedScansAreServed` |

**cache_allocator.** Two connections, a region of ten bytes of which six are on
the GPU, padding to two, requests of zero and two bytes (the padding makes them
two and four), four grants between resets (`MaxGrants`). Both shares can be
full, a request can be refused by one and served by the other, and every pair
of atomics of two connections meets. `raced` records that a rollback or a reset
overlapped another connection's request; until then blocks are apart, in their
region, and every byte below a pointer belongs to somebody.

**table_cache.** Three columns of two tables, one of them a VARCHAR column with
three buffers; any two fit into eighteen bytes (ten on the GPU), all three do
not, and what the scan adds up is less than what the allocator takes, so that a
load can be admitted and then fail half way. Two queries (a scan of two
columns; a join whose first scan has a row id), one change per table
(`MaxVersion`), host allocation that may fail. It shows that a header always
points at bytes of its own column in the version that was loaded
(`CacheCoherent`), that GPU answers consist of those bytes unless the query
itself evicted the cache (`lostViews`), and that an empty registered column
exists only after a load that threw.

**executor_plans.** All trees of depth three over scans, filters, aggregates
and hash joins (`INNER`, `RIGHT`, `SEMI`: a join that adds nothing, one that
scans its table afterwards, one that frees it), nested-loop joins, and plans
with left and right delim joins and CTEs, nested in each other, whose scans add
dependencies across the tree. Three joins on a path are enough for each order
in which child pipelines can nest. To these hand-made trees come the plans that `PlanGenerator` makes of
logical plans with correlated subqueries, nested delim joins and CTEs, so that
the executor is checked on trees in the shape the generator really leaves behind:
placeholders, joins taken out of the tree, scans registered across it.
`ImplementsDataFlow` is the refinement:
`Flow == INSTANCE DataFlow WITH filled, thrown`, an operator being filled when
the last pipeline into it has run. It covers safety (everything is read after
it was filled, nothing is filled twice) and, with fairness, that every query
ends with an answer or an exception: the scheduling loop never stops with work
left over.

**lifecycle_sql.** Two statements, each bound, executed up to twice
(`MaxCalls`) and fetched in two chunks, from two threads, over an arena of five
cells: one plan, one work cell and two chunks fit, two statements at once do
not always. Which interleavings spare a plan's arrays and an answer's chunks is
said with two histories, `resetSince` and `allocSince`.

**collector.** Relations of two columns of at most three rows in vectors of
two: fixed-width, widened to 128 bits, strings (inline and long), an
unsupported type, stored or with row ids that drop, reorder or repeat rows, with
NULLs. The 22 cells of the arena suffice for the largest relation that is not
refused, so that an overrun lands in the next column's cells and is seen.

**hash_join.** Up to three build rows (six slots) and two probe rows; the five
join types, one equality, two equalities, equality and inequality, and three
equalities; build columns called unique, whose values repeat or not; the sentinel
and NULL among the keys; a stride that visits every slot, and the stride 3, which
shares a factor with six slots as 100007 = 97 * 1031 does with a build side of 97
rows. Three threads are enough for one to lose a slot to a second while a third
writes. Second keys twice as wide as the first, half as wide and of neither width
are read as words of the first key's width: `HalfWrap` = 16 stands for 2^32, so that
a small number fills one half of a word or both. Under three equalities the threads
with a row return, and what the scan of the others finds is any of `Strays` (0 and
1). Joins, comparisons and types that the build refuses end in `refused`.

**late_materialization.** Every plan of up to six operators (`MaxOperators`)
from two kinds of scan, filters, projections, limits, sorts with and without a
limit, joins on either column, left and right delim joins, a CTE and
aggregates, over two columns of three rows, with every way in which the pool may
hand out a freed block again. Six operators suffice for a CTE whose scan is
joined with another scan, filtered and sorted, and for a delim join over a
filtered input whose cached columns, or whose distinct aggregate, are read after
the others'.

**where_clause.** Pushed filters on every table of up to five numbers (two
blocks of four rows, in each order of claims and writes) and on pairs of
strings; every expression built over pairs of fifteen atoms, with NULLs and
zeros; every match of two short terms in texts of up to four characters, with
cuDF and with Sirius's kernels cut into chunks of five characters for two
threads.

**operators.** Families of inputs for four modules.

* *Aggregates*: up to three aggregates in every order with filters and
  DISTINCT; one aggregate over every table of up to three rows with NULLs; every
  type; sums at the limits of their type (`Max16` = 1, `Max32` = 7); and the two
  batches that a RIGHT join below hands over, the second of which has no left
  columns. Counting a left column per build key above a RIGHT join, the shape of
  TPC-H's query 13, is among them and is right.
* *Sorts*: one or two keys in either direction over tables of up to three rows
  with NULLs, with limits and offsets; a table one row longer than `MaxRows`, on
  which the sink throws; a second batch; and the string top-N over four strings
  of up to two bytes with prefixes of one (`PrefixBytes` = 1), so that every way
  of cutting between and inside groups of equal prefixes occurs.
* *INNER joins*: every comparison over keys with NULLs and negative numbers,
  casts on either side, two conditions in either order, projection maps, build
  columns called unique, whose values repeat or not, alone or beside a key that
  does, and both kernels with blocks of two threads (`BlockThreads`), so that two blocks
  claim their places in either order; words are taken modulo 16 (`Wrap`) in
  place of 2^64.
* *Plans*: some ten thousand logical plans. Scans with every choice of up to
  three columns, projection, filters and filters the function refuses; functions
  without pushdown; every operator over every operator over a table and over what
  needs no table; joins with maps on both sides; delim joins on either side over
  subqueries of five shapes, nested on the outer and on the inner side; CTEs,
  nested, read twice and across delim joins; and what throws.
  Tables hold numbers, a NULL and strings (`Text`), and are read whole, filtered,
  projected or grouped below CTEs and delim joins, so that their scans find columns
  with row ids, without them, and with masks and offsets.
  `PlannedRowsAreThePlans` evaluates the physical plan and the logical plan on
  the same tables. `PlannedScansAreServed` says that each scan of a delim join's
  or a CTE's result reads the one it is planned for and is not part of what
  fills it.

For every property a mutant of the code, a "Faulty" definition, breaks it under
the same configuration; `PROJECT.json` names the pairs.

## 4. Fairness

* `TableCache`: `WF_vars(Scan)`. A query runs on its own thread and never waits
  for another; submitting queries and changing tables is left to chance.
* `GPUExecutor`: `WF_vars(Next)`. Construction, scheduling and execution are
  one loop on one thread. `Throw` is one of its steps and not forced.
* `QueryLifecycle`: `WF_vars(Continue(s))` for each statement: a thread inside
  the table function goes on, and DuckDB calls the function until it is drained.
  Nobody has to bind, execute or initialise.
* `HashJoin`: `WF_vars(Next)`. A launched kernel goes on until all its threads
  are through; which thread moves is open, and no thread is promised a turn.
  This is weaker than what a GPU gives.

The other specifications have none: their properties are safety.

## 5. The proofs

Everything below holds for every value of the constants under the named
assumptions of the modules; `tlapm` checks each proof to the last leaf.

**`CacheAllocatorProofs`** (from `CacheLayoutAssumption`: sizes are naturals and
the padding unit is positive; `CacheAllocatorAssumption`: request sizes are
naturals).

* `TypeCorrect`. Every granted block and pending claim has a positive length,
  because padding always adds at least one byte.
* `AtomicsKeepBlocksApart`, `AtomicsKeepBlocksInRegion`,
  `RefusedRequestsLeakNothing`: the three invariants of the run, for any number
  of connections, sizes and splits.
* `OneConnectionIsSafe`: with one connection nothing ever races, so the same
  three hold without condition.

`BlocksApart` is not inductive: a claim between its `fetch_add` and its test is
not yet a block but already occupies its range. The inductive invariant says,
as long as nothing raced, of each share that granted blocks and pending claims
together tile it: all lie below the pointer, none overlap, and they leave no
gap. A `fetch_add` extends the tiling at the pointer; a grant turns a claim into
a block in place; a rollback is clean only when nobody else has a claim pending,
and then the claim is the last tile, so the pointer returns to its start.

**`HashJoinProofs`** (from `HashJoinAssumption`: inputs are well formed).

* `TypeCorrect`. Slots stay in the table and step counters below `ht_len`,
  whatever the stride.
* `ClaimedRowsAreKept`. What a thread won by `atomicCAS` stays its own through
  its plain writes and after.
* `PlacedRowsAreReachable`. No slot a build thread stepped over is empty again,
  so a probe for the row's key comes to the row first.

The inductive invariant names what each thread holds: no two threads claimed the
same slot (`ClaimsApart`), a claimed slot has its owner's first word, then its
other words, then its row id (`ClaimsHold`, `KeysHold`, `RowsHold`), and the path
of each thread is full up to where it is (`PathsFull`). It assumes that no key is
the marker of an empty slot (`~SentinelKey`). It speaks of words, not values: what
a thread read of its row, whatever the types of the keys. `ClaimsApart` is what makes the plain writes
safe: only the owner writes; and since a claimed word never becomes the marker
again, paths stay full.

**`HashJoinAnswerProofs`** (from `HashJoinAssumption` and the invariant of
`HashJoinProofs`).

* `AnswersAreTheJoin`: `AnswerIsJoin`. When the kernels end, the output has every
  row of the join once and nothing else, for any number of rows and threads, any
  keys and stride, any number of equalities and any types of the keys behind the
  first, in the cases the code is ready for. `Ready` (section 6) excludes three
  equalities with rows to place (`Unhashed`), keys whose words are not their values
  (`MisreadKey`, `SignedZero`), the sentinel, NULLs and matches past the first of a
  column called unique. It says nothing of the number of conditions or of types
  otherwise: three equalities over an empty build side, and keys of other widths
  whose words happen to be their values, are covered.

The invariant of the build says where the rows are; this one says what the
probes make of them. `SlotsOwned`, `BuildEnded`: after the build a slot is empty or
its owner's. Then the hits of a probe row are the slots of its partners (`Hit`,
`Partner`), and it meets none of them twice: a walk that comes back to a slot has
come round, and would never meet the empty slot it stops at (`HitsAreApart`, from
`ComesBack`). `Reserved` says that what `atomicAdd` gave to a thread is still
free and nobody else's; `OutFaithful`, `OutComplete` and `OutOnce` that the output
so far is one-to-one with what the finished threads answer. `MarksRight` ties
the marks to the finished probes, which is what the scan of the right joins needs
to add the other rows; `ScanReady` that all of them have finished by then.
Numbers of rows are counted with the library's theorems on finite sets; where an
induction on slots would be natural, the proof takes a least counterexample
(`LeastNumber`, from the well-foundedness of the naturals).

**`TableCacheProofs`** (from `TableCacheAssumption`: the tables, columns and buffer
sizes are well formed and a query that uses the cache has a scan;
`CacheLayoutAssumption`).

* `CacheStaysCoherent`: `CacheCoherent`. However scans, evictions and loads that
  throw follow each other, a loaded column has its own bytes.
* `AnswersShowWhatWasLoaded`: `GpuAnswerIsWhatWasLoaded`.
* `OnlyFailuresLeaveHoles`: `HolesComeFromFailures`.
* `TypeCorrect`: `TypeOK`, with headers that lead into the region.

`CacheCoherent` speaks of bytes, and a load writes all its buffers in one go at
the end, long after it took their places. The inductive invariant therefore says
of places, not bytes, that everybody who holds one, a loaded column or a buffer
of the load under way, holds it below one of the two pointers (`BelowPointers`) and
alone (`HeldApart`). An eviction resets the pointers only after it has
unregistered every column; a load that threw gives its places up with the
columns still registered, which is what `HolesExplained` accounts for.
`ViewsCurrent` ties a query's views to the headers as long as it has not evicted
the cache under them; the answer follows from both.

**`QueryLifecycleProofs`** (from `LifecycleAssumption`: the sizes are naturals).

* `PlansAreIntact`: `PlanMemoryIsIntact`; `AnswersAreWhole`: `AnswerIsWhole`;
  `OnlyLateInitEndsInException`: `OnlyLateInitFails`. For any number of connections
  and statements and any sizes.

A plan is intact because it lies below `hostPtr` and allocations only write from
there on. So `PlansHeld` says that what is alive and not reset lies below the
pointer, and `AnswersHeld` the same of the chunks between collecting and the
query's own reset; afterwards they lie above the pointer and last until somebody
allocates, which is what `allocSince` records. `FetchesHeld` makes the chunks
given out so far a prefix of the answer. `InStep` says what plan, result and
counters a call has at each point of its course; the cases of the other parts
follow from it, and `OnlyLateInitFails` is one of its conjuncts.

**`LateMaterializationProofs`** (from `LateMaterializationAssumption`: the operators'
references are positions, their row counts naturals).

* `ColumnsInUseAreAllocated`: until a block is freed under a column in use
  (`reread`), every column of the operators and of the stores points into blocks that
  are not freed, its row ids into a block of row ids.
* `FreesAreKnown`: `NoStrayFree`. For tables, plans and operators of any size and
  every reuse of addresses.

A block is freed by the operator that materialises a column or composes row ids,
without asking who else points there; it is safe because of who may share one.
`StoresSound` and `CurrentSound` say that a live block, one that a free really
frees, is in the relation or in one of the stores, never in two of them (`Mine`): the
scan of a CTE and the probe of a join lock what they share, the result of a sort
is kept from the start, and only the columns a delim join has cached are lent
unlocked, once. Within the relation `SharedAlike` says that columns in one
live block are all late or none is, so that what is freed was not read in place.
`ComposingSound` is about `HandleMaterializeRowIDs`: old row ids that are not in the
map of composed ones are in no finished column and not among the new ones, which
is why the map must be kept up to date.

**`LateMaterializationValues`** (from the same assumption and on the invariant above).

* `RelationHoldsItsValues`: `RelationIsCurrent`.
* `StoresHoldTheirValues`: `StoredColumnsStay`.
* `AnswersAreThePlans`: `AnswerIsWanted`. For tables, plans and operators of any size,
  every point at which a column is materialised and every reuse of addresses, until
  one of the two cases of section 6 has happened (`Excused`: `reread` or `dropped`).

The invariant, `ValuesInv`, says of every place that holds columns that they denote
the plan's rows. `Right` and `AllRight` say it of one column and of a relation: the
block, read through the row ids, gives the rows that the plan means, with their
tag. Between operators (`ReadyRight`) all columns of the plan are equally long
(`Uniform`), without which one set of row ids could not narrow them all. While an
operator reads its references (`ReadRight`) what it has read is right and what
it still needs is untouched. While it composes row ids (`ComposeRight`) the columns done are
already narrowed and those to come still denote the rows before (`StillRight`,
`NarrowsTo`). Two facts carry the steps: a gather of a gather is a gather by the
composed row ids (`PickPick`), and freeing, locking or allocating changes no value
of a block in use (`Same`), which is where the invariant of `LateMaterializationProofs`
is needed.

**`GPUExecutorProofs`** (from `PlansAssumption`: plans are well formed, `WellFormed`;
each conjunct is what the generator's `unique_ptr` trees, the constructors of the
delim joins and `GatherDelimScans` leave behind).

* `ScanAfterProbes`: `ScanFollowsProbes`. For plans of any size and shape.
* `TablesStayLive`: `TablesAreLive`, from the first theorem's invariant (`IInv`) and
  `TableInv`.
* `ReadersGetRows`: `RowsReachReaders`, from these two and `RowsInv`.

The first property is about the end of a long run: joins nest in any order, the delim joins
move them, and each right join leaves a child pipeline that must come after all
pipelines that probe the same table. The invariant follows the recursion. A call
still to be made finds none of the operators below its own in a pipeline
(`FramesSound`; two calls on the stack have disjoint subtrees, `Apart`), so an operator
gets into the pipelines of one sink only, and once into each (`OpsSound`). The joins
above the place a call builds at have their own frames below it on the stack
(`ChildrenWait`). Therefore, when a join's child pipeline is cut off, no join in what it
takes along is a source already, and whoever probes it was made before. Every
pipeline has a source or a call that will give it one (`SourcesComing`); a scan's
producer is registered before the scan (`ScansSound`). The schedule then only has to keep
the order within a meta-pipeline, which is `InOrder`. The subtrees are a recursive
function on the plan; the lemmas about them (`SubtreeBelow`, `SubtreesApart`) take a least
counterexample.

A hash table that is freed after a probe would be used again if a second pipeline
probed it. `PathsSound`, a part of the same invariant, says where a second one can come
from: the base pipeline apart, each pipeline of a meta-pipeline has a join as its source,
one that `IsSource` accepts, and rows on the way up to any operator of the pipeline pass that
join (`Reach`, which reads the recursive `Path`: `PathDef`, `ReachFacts`). In `TableInv`,
a pipeline is pushed once (`Once`: a meta-pipeline is only taken in hand while its base
pipeline is not pushed, and `InOrder` has the base pushed first), and a freed table is one
that a pipeline before `next` probed (`FreedWasProbed`). So two pipelines that use a
freed table are different, of one sink, hence of one meta-pipeline, and one of them goes on
from a join that adds rows (`ProbedTwice`): the case `TablesAreLive` names.

The third property joins construction, schedule and execution. `FeedInv` belongs to the
construction: for whatever an operator reads, the base pipeline of its meta-pipeline has a
dependency on a pipeline that fills it (`PipesFed`). For most operators the dependency is
made in the step that places them, for the join and the scan below a delim join in a step
before, which is why the calls on the stack carry it (`FramesFed`, with `Delims`).
`ShouldSchedule` looks at the base pipeline only; `DepsScheduled` shows that this
is enough for all pipelines of the meta-pipeline. So a pipeline that fills the result runs
before its reader. Without a join on the way that adds rows it is the only one
(`SunkByBase`: another one goes on from a join on the way, and runs only if that join adds
rows). `HeldOnce` says that a result sunk into once holds the rows of that pipeline. It is
inductive because no two sinks fill the same operator (`HoldsApart`), which needs
that the operators `BuildPipelines` gives a meta-pipeline have a Sink of their own
(`SinksFed`): the join below a right delim join and the aggregate beside a delim join have none.

**Only model-checked:** the liveness properties and the refinement of
`DataFlow` (fairness and ENABLED are beyond the prover); `WhereClause`, `Aggregates`,
`TopN`, `InnerJoin` and `PlannedQuery`, whose definitions evaluate expressions, sort
and plan by recursion over data; the invariants of the modules in section 8, for
now. `WidthAssumption`, `CollectorAssumption` and `KernelAssumption` are
evaluated by the runs and not used by a proof.

## 6. Where the code departs from its promises

Three runs find a disagreement between the code and its documentation; each is a
finding in `PROJECT.json` with the quoted lines:

* `table_cache_oversized`: input larger than the caching region is answered on
  the GPU instead of being refused, when the scans fit one at a time
  (`gpu_physical_table_scan.cpp:540`). The second scan's `ResetCache` hands out
  the memory of the first scan's columns.
* `lifecycle_substrait`: a Substrait statement bound before `gpu_buffer_init`
  builds the buffer manager with regions of size zero, which a later
  `gpu_buffer_init` leaves as they are (`sirius_extension.cpp:315`).
* `collector_nulls`: every chunk after the first reads the NULLs of the first
  (`gpu_physical_result_collector.cpp:467`).

Other departures are named by an operator, and the properties hold outside of
them. The operator's definition states the case exactly; the cases were met as TLC
counterexamples of the property without them.

| Name | Module | The case |
|---|---|---|
| `raced` | `CacheAllocator` | a rollback or a reset overlaps another connection's request |
| `lostViews` | `TableCache` | a query evicts the cache under its own earlier scans |
| `failedLoad` | `TableCache` | a load that threw leaves its columns registered and empty; a later GPU query answers from an empty column |
| `ver` of an answer | `TableCache` | a changed table is answered in the version that was loaded |
| `AddsRows` | `GPUExecutor` | a join that adds unmatched rows sinks twice into what is above it: joins, CTEs and delim joins keep the second call's rows only, and a join above probes its freed table again |
| `resetSince`, `allocSince` | `QueryLifecycle` | another statement resets the arena between bind and execution, or resets or fills it while an answer is fetched |
| `OnlyLateInitFails` | `QueryLifecycle` | bound before, executed after `gpu_buffer_init`: the statement fails, without fallback |
| `NullsSpread`, `Outgrown`, `NegativeHuge` | `ResultCollector` | NULLs beyond one vector; row ids that make a string column longer than its buffer; negative integers read as HUGEINT |
| `Unhashed`, `MisreadKey`, `SignedZero`, `SentinelKey`, `NullKey`, `MissesMatches`, `ShortCycle` | `HashJoin` | three equalities or more, which the build takes (`gpu_physical_hash_join.cpp:157`) and the kernels leave by `cudaAssert(0)`, a macro that only returns (`cuda_helper.cuh:43`), so that the join is answered from an empty table and unwritten arrays instead of by DuckDB; a key of another width than the first, read as words of the first's; 0.0 against -0.0, compared by their bits; a key of all ones; a NULL key, compared by its bytes; a column called unique that is compared with `<>`, or whose values repeat (two batches of unique keys combined, `gpu_physical_grouped_aggregate.cpp:35`); a build side that has a factor in common with the stride |
| `reread`, `dropped` | `LateMaterialization` | a block freed under a column that is used again, by a key used twice or by the distinct aggregate of a delim join after the join; row ids that the scan of a CTE or of a delim join's input does not take, an offset a limit does not apply |
| `NullsSkipped`, `Misordered` | `WhereClause` | `IS NOT NULL` pushed without a comparison; strings that are a proper prefix of the constant, and characters from 128 on |
| `Answered`, `ConstantNotIn`, `HasNullConstant`, `Plain` | `WhereClause` | patterns the kernels misjudge; `NOT IN` over constants; constants that are NULL; rows with a NULL or a zero |
| `Filtered`, `CountsNulls`, `NothingValid`, `NoRow`, `FirstLost`, `SumTooLow`, `RowsUnseen` | `Aggregates` | ungrouped: filters ignored, `COUNT(c)` counts NULLs, only NULLs or no rows, FIRST, INT16 sums of 65,538 rows of the smallest value, rows unseen because the first argument is a left column |
| `KeyLost`, `KeyRepeats`, `MaskLost`, `SumLost` | `Aggregates` | grouped, above a RIGHT join: a left key, a key in both batches, NULLs in groups, sums of left columns |
| `CustomMistakes`, `LeftColumns` | `TopN` | string top-N: descending, with an offset, over NULLs, or with no group that ends behind the limit; a left column among a RIGHT join's unmatched rows. `NULLS FIRST` is nowhere read: the reference puts NULLs last, as the code does |
| `UniqueRepeats`, `NullMisjudged`, `OthersIgnored`, `OrderUnsigned`, `Dangles`, `Forgotten` | `InnerJoin` | the keys of a join with a build column called unique repeat, and one row of each is kept; two NULLs are equal, and `IS DISTINCT FROM` is `<>`; the kernels read one condition and take INT64 for unsigned; cuDF expressions that refer to moved elements; masks and string offsets that a nested-loop join's Sink leaves behind |
| `Understood` | `PlannedQuery` | VALUES with several rows keeps the last; OFFSET without ORDER BY is not read; a query without FROM has no rows |
| `ScansForget` | `PlannedQuery` | the scan of a CTE or of a LEFT delim join's input, whose columns had row ids, a NULL or a string: rows that a filter or a join below left out come back, masks and offsets are gone (`gpu_physical_column_data_scan.cpp:54`, `gpu_physical_cte.cpp:96`; `dropped` is the same loss in the pool) |
| `ReadsCollection`, `Widened` | `PlannedQuery` | a collection of DuckDB's never reaches the GPU; a scan with a filter its function refuses yields the filter's column as well |

Some assertions say more than the code needs: `assert(h_count[0] > 0)` behind the
probes and the scan of a join (`hash_join_inner.cu:294`, `hash_join_single.cu:278`,
`hash_join_right.cu:178`, `nested_loop_join.cu:185`) fails for a join that finds
nothing. A release build leaves it out (`NDEBUG`), and it is the release build that
is modelled: such joins are answered rightly, as `AnswerIsJoin` and
`JoinedPairsAreSql` show.

## 7. What is not modelled

* **Plans outside the families of `operators`**: joins in `PlannedQuery` have one
  equality (conditions are `InnerJoin`'s), aggregates only groups (the rest is
  `Aggregates`'), filters only equalities. A filter the function refuses comes
  with a projection, because DuckDB leaves `projection_ids` empty only when
  nothing is removed; a dummy scan stands below a projection.
* **Thread order inside cub's and cuDF's sorts and scans**: any result their
  contract allows.
* **cuDF, RMM, DuckDB, the Substrait extension**: external; modelled from how
  the code uses them. The map marks thirteen definitions so.
* **Casts, dates, lengths, regular expressions**: single calls of cuDF functions.
* **Blocks, tiles and shared memory of the join kernels**: a thread's step on
  one slot is what decides; the tiling only shares out rows to threads. The scan
  kernel's tiles are modelled, because its blocks claim their places.
* **Conditions between types**: DuckDB casts both sides of a join condition to one
  type, which `HashJoin` takes for granted (`types` has one type per condition); NaNs
  have one bit pattern.
* **Code that nothing calls**: union and recursive-CTE pipelines,
  `comparison_expression.cu`, the variants of the string kernels that return row
  ids, `cuda/operator/unused`, Sirius's own group-by and distinct kernels.
* **Logging, `src/legacy`, tests and build**: no state of the engine.

## 8. Plan

Built so far, in this order: allocator and its proofs; cache; executor and the
refinement; lifecycle; collector; hash join and its proofs; late
materialisation; WHERE clause; aggregates; top-N; INNER joins; plan generator and
its composition with the executor; delim joins in the pool; the proofs of cache,
lifecycle, the join's answer, the pool, its values, the schedule,
the life of the hash tables and the rows that readers find.

Next steps of the model: the generator's MARK and RIGHT joins with their extra
columns in `PlannedQuery`; casts in `ExpressionExecutor`.

Next theorems:

1. `GPUExecutor`: `PipelinesFollowPlan`, the run's last invariant. It needs that
   the pipelines spell the recursive function `Path`, operator by operator.
2. `ResultCollector`: `PointersUnlessOutgrown`. Buffer lengths are sums over rows,
   defined by a fold; the sums would have to become part of the state.

`WhereClause` cannot hold a theorem as it is: it reaches the recursive operators of
`Predicates`. Its claims of places (`ScanKeepsMatches`) could be proved in a module
of their own, as those of the join's output are.

## 9. Running it

```
tlc -config MCCacheAllocator.cfg MCCacheAllocator     # and likewise the other MC modules
tlapm CacheAllocatorProofs.tla
tlapm HashJoinProofs.tla
tlapm HashJoinAnswerProofs.tla
tlapm TableCacheProofs.tla
tlapm QueryLifecycleProofs.tla
tlapm LateMaterializationProofs.tla
tlapm LateMaterializationValues.tla
tlapm GPUExecutorProofs.tla
```

The longest runs, `hash_join` and `late_materialization`, take about two minutes,
the others seconds. The proofs need Z3, Zenon and LS4. The modules use
the TLA+ standard modules, the community modules `SequencesExt`,
`FiniteSetsExt`, `Functions` and `Folds`, and the library of TLAPS.
