----------------------------- MODULE TableCache -----------------------------
(***************************************************************************)
(* The column cache as the table scans of one connection use it.           *)
(*                                                                         *)
(* A query is a sequence of scans.  Each scan asks which of its columns    *)
(* are registered (GetDataDuckDB), evicts the whole cache when the sum of  *)
(* the missing ones does not fit, registers them with an empty header,     *)
(* allocates their buffers one after the other, copies the bytes and only  *)
(* then fills the headers (ScanDataDuckDB).  GetData hands the operators   *)
(* the pointers of the headers; the bytes are read when the operators      *)
(* materialise, the payload of a join not before the end of the query.     *)
(*                                                                         *)
(* An exception leaves the cache as it is and DuckDB answers the query.    *)
(* Other DuckDB connections change tables; nobody tells the cache.         *)
(***************************************************************************)
EXTENDS CacheLayout, Sequences, FiniteSetsExt

CONSTANTS
    Table,
    Column,       \* the columns of all tables
    TableOf,      \* [Column -> Table]
    BufferSize,   \* [Column -> Seq(Nat)]: data, validity mask, and VARCHAR offsets
    Queries,      \* what clients submit: scans in order, one at least (others do not use the cache)
    MaxVersion,   \* bound: changes of one table
    HostMayFail   \* may customCudaHostAlloc run out of pinned memory?

ASSUME TableCacheAssumption ==
    /\ TableOf \in [Column -> Table]
    /\ BufferSize \in [Column -> Seq(Nat)]
    /\ \A c \in Column : Len(BufferSize[c]) \in 2 .. 3
    /\ Queries \subseteq Seq([cols : Seq(Column), rowId : BOOLEAN]) \ {<<>>}
    /\ MaxVersion \in Nat
    /\ HostMayFail \in BOOLEAN

VARIABLES
    gpuCachingPointer, cpuCachingPointer,
    header,     \* tables[..]->columns[..]: none, empty, or where the buffers lie
    mem,        \* what was last written to each byte of gpuCache and cpuCache
    version,    \* how often each DuckDB table was changed
    phase,      \* where the query is
    query, at,  \* its scans, and the one under way
    snapshot,   \* the versions its transaction sees
    missing,    \* the columns with already_cached[col] = false
    fresh,      \* d_ptr, d_mask_ptr, d_offset_ptr of the load under way
    views,      \* the columns GetData handed to the operators
    answer,     \* what the client got
    lostViews,  \* ResetCache ran while the query already held views
    failedLoad  \* a load threw after registering its columns, since the last reset

cacheVars == <<gpuCachingPointer, cpuCachingPointer, header, mem, failedLoad>>
loadVars == <<missing, fresh>>
queryVars == <<query, at, snapshot, views, lostViews>>
vars == <<cacheVars, loadVars, queryVars, version, phase, answer>>

-----------------------------------------------------------------------------
Buffers == UNION {{<<c, i>> : i \in 1 .. Len(BufferSize[c])} : c \in Column}
BuffersOf(C) == {b \in Buffers : b[1] \in C}
SizeOf(b) == BufferSize[b[1]][b[2]]

\* Addresses of a buffer that starts at p: cpuCache follows gpuCache.
Bytes(b, p) == p .. p + SizeOf(b) - 1

NoHeader == [state |-> "none", start |-> <<>>, ver |-> 0]
EmptyHeader == [state |-> "empty", start |-> <<>>, ver |-> 0]
Loaded(c) == header[c].state = "loaded"

ScanCols == LET s == query[at].cols IN {s[i] : i \in DOMAIN s}
ColumnsOf(q) == UNION {LET s == q[k].cols IN {s[i] : i \in DOMAIN s} : k \in DOMAIN q}

\* already_cached: a column is cached when it is registered, loaded or not.
Registered(c) == header[c] # NoHeader
Missing == {c \in ScanCols : ~ Registered(c)}

\* total_size sums data and mask of the missing columns, neither padding nor offsets.
Counted(c) == BufferSize[c][1] + BufferSize[c][2]

\* The entry of a generated row id column is read uninitialised and may add anything.
Totals == IF query[at].rowId THEN 0 .. CacheSize + 1
                             ELSE {MapThenSumSet(Counted, Missing)}
IsFull(total) == gpuCachingPointer + cpuCachingPointer + total >= CacheSize

\* The order of the allocation loop: columns as the scan lists them, then data, mask, offsets.
Before(b, d) ==
    LET s == query[at].cols
    IN \E i, j \in DOMAIN s : /\ s[i] = b[1] /\ s[j] = d[1]
                              /\ i < j \/ (b[1] = d[1] /\ b[2] <= d[2])

Blank == <<>>
NoAnswer == [by |-> "nobody", cols |-> {}]
ByDuckDB == [by |-> "duckdb", cols |-> {}]

Contents == {Blank} \cup (Buffers \X Nat)
Headers == [state : {"none", "empty", "loaded"}, start : Seq(0 .. CacheSize), ver : Nat]
Seen == [col : Column, state : {"none", "empty", "loaded"}, ver : Nat, bytes : SUBSET Contents]

TypeOK ==
    /\ gpuCachingPointer \in 0 .. GpuShare
    /\ cpuCachingPointer \in 0 .. CpuShare
    /\ header \in [Column -> Headers]
    /\ mem \in [0 .. CacheSize - 1 -> Contents]
    /\ version \in [Table -> Nat] /\ snapshot \in [Table -> Nat]
    /\ phase \in {"idle", "check", "allocate", "view", "finish", "answered"}
    /\ query \in Queries \cup {<<>>} /\ at \in Nat
    /\ missing \subseteq Column
    /\ DOMAIN fresh \subseteq Buffers /\ \A b \in DOMAIN fresh : fresh[b] \in 0 .. CacheSize
    /\ views \subseteq [col : Column, header : Headers]
    /\ answer.by \in {"nobody", "duckdb", "gpu"} /\ answer.cols \subseteq Seen
    /\ lostViews \in BOOLEAN /\ failedLoad \in BOOLEAN

Init ==
    /\ gpuCachingPointer = 0 /\ cpuCachingPointer = 0
    /\ header = [c \in Column |-> NoHeader]
    /\ mem = [a \in 0 .. CacheSize - 1 |-> Blank]
    /\ version = [t \in Table |-> 0] /\ snapshot = [t \in Table |-> 0]
    /\ phase = "idle" /\ query = <<>> /\ at = 1
    /\ missing = {} /\ fresh = <<>> /\ views = {}
    /\ answer = NoAnswer
    /\ lostViews = FALSE /\ failedLoad = FALSE

-----------------------------------------------------------------------------
Submit(q) ==
    /\ phase = "idle"
    /\ query' = q /\ at' = 1 /\ snapshot' = version /\ views' = {} /\ lostViews' = FALSE
    /\ phase' = "check"
    /\ UNCHANGED <<cacheVars, loadVars, version, answer>>

\* GetDataDuckDB returns at once when every column of the scan is registered.
AllCached ==
    /\ phase = "check"
    /\ Missing = {}
    /\ phase' = "view"
    /\ UNCHANGED <<cacheVars, loadVars, queryVars, version, answer>>

\* An exception: ResetBuffer leaves the caching region alone, and DuckDB answers.
Throw ==
    /\ missing' = {} /\ fresh' = <<>>
    /\ phase' = "answered"
    /\ answer' = ByDuckDB
    /\ UNCHANGED <<queryVars, version>>

\* "Total size of columns to be cached is greater than the cache size"
TooLarge ==
    /\ phase = "check"
    /\ Missing # {}
    /\ \E total \in Totals : IsFull(total) /\ total > CacheSize
    /\ Throw
    /\ UNCHANGED cacheVars

\* createTableAndColumnInGPU: the column is registered, with a header of length 0.
Register(C) ==
    /\ missing' = C
    /\ phase' = "allocate"
    /\ UNCHANGED <<mem, query, at, snapshot, views, fresh, version, answer>>

\* Faulty: the pointers are reset, the headers of cached columns are kept.
EvictKeepingHeaders ==
    /\ phase = "check"
    /\ Missing # {}
    /\ \E total \in Totals : IsFull(total) /\ total <= CacheSize
    /\ gpuCachingPointer' = 0 /\ cpuCachingPointer' = 0
    /\ header' = [c \in Column |-> IF c \in Missing THEN EmptyHeader ELSE header[c]]
    /\ lostViews' = (lostViews \/ views # {})
    /\ failedLoad' = FALSE
    /\ Register(Missing)

\* ResetCache, and all columns of the scan are registered anew, also the cached ones.
Evict ==
    /\ phase = "check"
    /\ Missing # {}
    /\ \E total \in Totals : IsFull(total) /\ total <= CacheSize
    /\ gpuCachingPointer' = 0 /\ cpuCachingPointer' = 0
    /\ header' = [c \in Column |-> IF c \in ScanCols THEN EmptyHeader ELSE NoHeader]
    /\ lostViews' = (lostViews \/ views # {})
    /\ failedLoad' = FALSE
    /\ Register(ScanCols)

Extend ==
    /\ phase = "check"
    /\ Missing # {}
    /\ \E total \in Totals : ~ IsFull(total)
    /\ header' = [c \in Column |-> IF c \in Missing THEN EmptyHeader ELSE header[c]]
    /\ Register(Missing)
    /\ UNCHANGED <<gpuCachingPointer, cpuCachingPointer, failedLoad, lostViews>>

Unallocated == BuffersOf(missing) \ DOMAIN fresh
IsNextBuffer(b) == b \in Unallocated /\ \A d \in Unallocated : Before(b, d)

Allocated(b, p) ==
    /\ fresh' = [d \in DOMAIN fresh \cup {b} |-> IF d = b THEN p ELSE fresh[d]]
    /\ UNCHANGED <<header, mem, failedLoad, missing, queryVars, version, phase, answer>>

\* Faulty: the padding is not counted when the share is tested.
AllocateUnpaddedOnGpu(b) ==
    /\ phase = "allocate" /\ IsNextBuffer(b)
    /\ gpuCachingPointer + SizeOf(b) <= GpuShare
    /\ gpuCachingPointer' = gpuCachingPointer + Padded(SizeOf(b))
    /\ Allocated(b, gpuCachingPointer)
    /\ UNCHANGED cpuCachingPointer

\* customCudaMalloc(.., caching = 1), one connection: see CacheAllocator for its steps.
AllocateOnGpu(b) ==
    /\ phase = "allocate" /\ IsNextBuffer(b)
    /\ gpuCachingPointer + Padded(SizeOf(b)) <= GpuShare
    /\ gpuCachingPointer' = gpuCachingPointer + Padded(SizeOf(b))
    /\ Allocated(b, gpuCachingPointer)
    /\ UNCHANGED cpuCachingPointer

AllocateOnCpu(b) ==
    /\ phase = "allocate" /\ IsNextBuffer(b)
    /\ gpuCachingPointer + Padded(SizeOf(b)) > GpuShare
    /\ cpuCachingPointer + Padded(SizeOf(b)) <= CpuShare
    /\ cpuCachingPointer' = cpuCachingPointer + Padded(SizeOf(b))
    /\ Allocated(b, GpuShare + cpuCachingPointer)
    /\ UNCHANGED gpuCachingPointer

\* The load ends half way: the columns stay registered, the memory stays taken.
AbandonLoad ==
    /\ failedLoad' = TRUE
    /\ Throw
    /\ UNCHANGED <<gpuCachingPointer, cpuCachingPointer, header, mem>>

OutOfCachingMemory(b) ==
    /\ phase = "allocate" /\ IsNextBuffer(b)
    /\ gpuCachingPointer + Padded(SizeOf(b)) > GpuShare
    /\ cpuCachingPointer + Padded(SizeOf(b)) > CpuShare
    /\ AbandonLoad

\* Before each caching buffer a pinned one is taken from the processing arena.
OutOfCpuMemory ==
    /\ HostMayFail
    /\ phase = "allocate" /\ Unallocated # {}
    /\ AbandonLoad

\* Faulty: the masks are not copied.
LoadWithoutMasks ==
    /\ phase = "allocate" /\ Unallocated = {}
    /\ mem' = [a \in DOMAIN mem |->
                 IF \E b \in DOMAIN fresh : b[2] # 2 /\ a \in Bytes(b, fresh[b])
                 THEN LET b == CHOOSE b \in DOMAIN fresh : b[2] # 2 /\ a \in Bytes(b, fresh[b])
                      IN <<b, snapshot[TableOf[b[1]]]>>
                 ELSE mem[a]]
    /\ header' = [c \in Column |->
                    IF c \in missing
                    THEN [state |-> "loaded",
                          start |-> [i \in DOMAIN BufferSize[c] |-> fresh[<<c, i>>]],
                          ver |-> snapshot[TableOf[c]]]
                    ELSE header[c]]
    /\ missing' = {} /\ fresh' = <<>>
    /\ phase' = "view"
    /\ UNCHANGED <<gpuCachingPointer, cpuCachingPointer, failedLoad, queryVars, version, answer>>

\* Faulty: the header of one column is left as it was registered.
LoadAllButOneHeader ==
    /\ phase = "allocate" /\ Unallocated = {}
    /\ header' = [c \in Column |->
                    IF c \in missing \ {CHOOSE m \in missing : TRUE}
                    THEN [state |-> "loaded",
                          start |-> [i \in DOMAIN BufferSize[c] |-> fresh[<<c, i>>]],
                          ver |-> snapshot[TableOf[c]]]
                    ELSE header[c]]
    /\ missing' = {} /\ fresh' = <<>>
    /\ phase' = "view"
    /\ UNCHANGED <<mem, gpuCachingPointer, cpuCachingPointer, failedLoad, queryVars, version, answer>>

\* callCudaMemcpyHostToDevice for every buffer, then the headers of all columns.
LoadColumns ==
    /\ phase = "allocate" /\ Unallocated = {}
    /\ mem' = [a \in DOMAIN mem |->
                 IF \E b \in DOMAIN fresh : a \in Bytes(b, fresh[b])
                 THEN LET b == CHOOSE b \in DOMAIN fresh : a \in Bytes(b, fresh[b])
                      IN <<b, snapshot[TableOf[b[1]]]>>
                 ELSE mem[a]]
    /\ header' = [c \in Column |->
                    IF c \in missing
                    THEN [state |-> "loaded",
                          start |-> [i \in DOMAIN BufferSize[c] |-> fresh[<<c, i>>]],
                          ver |-> snapshot[TableOf[c]]]
                    ELSE header[c]]
    /\ missing' = {} /\ fresh' = <<>>
    /\ phase' = "view"
    /\ UNCHANGED <<gpuCachingPointer, cpuCachingPointer, failedLoad, queryVars, version, answer>>

\* Faulty: the same scan is checked again.
TakeViewsAgain ==
    /\ phase = "view"
    /\ views' = views \cup {[col |-> c, header |-> header[c]] : c \in ScanCols}
    /\ phase' = IF at = Len(query) + 1 THEN "finish" ELSE "check"
    /\ UNCHANGED <<cacheVars, loadVars, query, at, snapshot, lostViews, version, answer>>

\* GetData wraps the cached pointers for the operators; no byte is copied.
TakeViews ==
    /\ phase = "view"
    /\ views' = views \cup {[col |-> c, header |-> header[c]] : c \in ScanCols}
    /\ at' = at + 1
    /\ phase' = IF at = Len(query) THEN "finish" ELSE "check"
    /\ UNCHANGED <<cacheVars, loadVars, query, snapshot, lostViews, version, answer>>

\* The operators read the bytes behind a view; one of length 0 yields no row.
Read(v) ==
    [col |-> v.col, state |-> v.header.state, ver |-> v.header.ver,
     bytes |-> UNION {{mem[a] : a \in Bytes(<<v.col, i>>, v.header.start[i])} :
                         i \in DOMAIN v.header.start}]

Finish ==
    /\ phase = "finish"
    /\ answer' = [by |-> "gpu", cols |-> {Read(v) : v \in views}]
    /\ phase' = "answered"
    /\ UNCHANGED <<cacheVars, loadVars, queryVars, version>>

\* The client fetched the answer.
Return ==
    /\ phase = "answered"
    /\ phase' = "idle"
    /\ query' = <<>> /\ at' = 1 /\ views' = {} /\ answer' = NoAnswer /\ lostViews' = FALSE
    /\ snapshot' = [t \in Table |-> 0]
    /\ UNCHANGED <<cacheVars, loadVars, version>>

\* Another DuckDB connection commits a change of the table.
UpdateTable(t) ==
    /\ version[t] < MaxVersion
    /\ version' = [version EXCEPT ![t] = @ + 1]
    /\ UNCHANGED <<cacheVars, loadVars, queryVars, phase, answer>>

Scan ==
    \/ AllCached \/ TooLarge \/ Evict \/ Extend
    \/ \E b \in Buffers : AllocateOnGpu(b) \/ AllocateOnCpu(b) \/ OutOfCachingMemory(b)
    \/ OutOfCpuMemory \/ LoadColumns \/ TakeViews \/ Finish

Next ==
    \/ \E q \in Queries : Submit(q)
    \/ Scan
    \/ Return
    \/ \E t \in Table : UpdateTable(t)

Spec == Init /\ [][Next]_vars

\* The thread of the query runs on; clients and updates come when they like.
FairSpec == Spec /\ WF_vars(Scan)

-----------------------------------------------------------------------------
\* The bytes of buffer i of column c, as they were when version v was loaded.
BytesOf(c, v) == {<<b, v>> : b \in {d \in BuffersOf({c}) : SizeOf(d) > 0}}

\* A header that GetData may use points at bytes of its own column, all of one version:
\* loading, evicting and failing in any order never let two columns share the region.
CacheCoherent ==
    \A c \in Column : Loaded(c) =>
        \A b \in BuffersOf({c}) : \A a \in Bytes(b, header[c].start[b[2]]) :
            mem[a] = <<b, header[c].ver>>

\* What the GPU answers is, column by column, what the load put into the cache, unless
\* the query itself evicted the cache under its earlier scans.
GpuAnswerIsWhatWasLoaded ==
    answer.by = "gpu" /\ ~ lostViews =>
        \A r \in answer.cols : r.state = "loaded" => r.bytes = BytesOf(r.col, r.ver)

\* Outside a load, a registered column without data exists only after a load that threw.
HolesComeFromFailures ==
    (\E c \in Column : header[c] = EmptyHeader) /\ phase # "allocate" => failedLoad

\* Every submitted query is answered, by the GPU or by DuckDB.
SubmittedIsAnswered == phase = "check" ~> phase = "answered"

\* docs/README.md, Limitations: Sirius "would return an error if the input data size is
\* larger than the GPU caching region", and then falls back to DuckDB.
OversizedInputIsRefused ==
    answer.by = "gpu" => MapThenSumSet(Counted, ColumnsOf(query)) <= CacheSize
=============================================================================
