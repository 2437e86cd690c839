--------------------------- MODULE CacheAllocator ---------------------------
(***************************************************************************)
(* customCudaMalloc(.., caching = 1) and ResetCache of GPUBufferManager.   *)
(*                                                                         *)
(* The buffer manager is a singleton without a lock.  A request bumps the  *)
(* GPU pointer with an atomic fetch_add, and takes the bump back with a    *)
(* fetch_sub when the GPU share is exceeded; it then tries the CPU share   *)
(* the same way, and throws when that is full too.  Each atomic is a step, *)
(* so the steps of several connections interleave.                         *)
(*                                                                         *)
(* The pointers are size_t.  They are integers here, a negative one being  *)
(* the wrapped 2^64 - n: size_t addition and comparison agree with that    *)
(* reading as long as sizes stay below 2^63.                               *)
(***************************************************************************)
EXTENDS CacheLayout

CONSTANTS
    Conn,       \* connections whose threads call the singleton
    Sizes,      \* the byte sizes callers ask for
    MaxGrants   \* bound: grants between two resets of the cache

ASSUME CacheAllocatorAssumption == Sizes \subseteq Nat /\ MaxGrants \in Nat

VARIABLES
    gpuCachingPointer,
    cpuCachingPointer,
    pc,        \* where each connection is inside customCudaMalloc
    claim,     \* what its last fetch_add returned, and how much it added
    granted,   \* the blocks handed out since the last ResetCache
    grants,    \* how many were handed out, the bound of the model
    raced      \* a rollback or a reset overlapped another connection's request

vars == <<gpuCachingPointer, cpuCachingPointer, pc, claim, granted, grants, raced>>

Claims == [start : Int, len : Nat \ {0}]
NoClaim == [start |-> 0, len |-> 1]
Shares == {"gpu", "cpu"}

TypeOK ==
    /\ gpuCachingPointer \in Int
    /\ cpuCachingPointer \in Int
    /\ pc \in [Conn -> {"idle", "onGpu", "gpuFull", "onCpu"}]
    /\ claim \in [Conn -> Claims]
    /\ granted \subseteq [id : Nat, share : Shares, start : Int, len : Nat \ {0}]
    /\ grants \in Nat
    /\ raced \in BOOLEAN

Init ==
    /\ gpuCachingPointer = 0
    /\ cpuCachingPointer = 0
    /\ pc = [c \in Conn |-> "idle"]
    /\ claim = [c \in Conn |-> NoClaim]
    /\ granted = {}
    /\ grants = 0
    /\ raced = FALSE

-----------------------------------------------------------------------------
\* Faulty: only the start of the block is tested.
StartFits(start, len, room) == start >= 0 /\ start <= room

\* size_t comparison start + alloc <= room: a wrapped (negative) sum is huge.
Fits(start, len, room) == start + len >= 0 /\ start + len <= room

Grant(c, share) ==
    /\ granted' = granted \cup
         {[id |-> grants, share |-> share, start |-> claim[c].start, len |-> claim[c].len]}
    /\ grants' = grants + 1
    /\ pc' = [pc EXCEPT ![c] = "idle"]
    /\ UNCHANGED <<gpuCachingPointer, cpuCachingPointer, claim, raced>>

\* Faulty: the pointer moves by the bytes asked for, the block has the padded length.
GpuFetchAddUnpadded(c, n) ==
    /\ pc[c] = "idle"
    /\ grants < MaxGrants
    /\ claim' = [claim EXCEPT ![c] = [start |-> gpuCachingPointer, len |-> Padded(n)]]
    /\ gpuCachingPointer' = gpuCachingPointer + n
    /\ pc' = [pc EXCEPT ![c] = "onGpu"]
    /\ UNCHANGED <<cpuCachingPointer, granted, grants, raced>>

\* start = __atomic_fetch_add(&gpuCachingPointer, alloc)
GpuFetchAdd(c, n) ==
    /\ pc[c] = "idle"
    /\ grants < MaxGrants
    /\ claim' = [claim EXCEPT ![c] = [start |-> gpuCachingPointer, len |-> Padded(n)]]
    /\ gpuCachingPointer' = gpuCachingPointer + Padded(n)
    /\ pc' = [pc EXCEPT ![c] = "onGpu"]
    /\ UNCHANGED <<cpuCachingPointer, granted, grants, raced>>

GpuGrant(c) ==
    /\ pc[c] = "onGpu"
    /\ Fits(claim[c].start, claim[c].len, GpuShare)
    /\ Grant(c, "gpu")

\* Faulty: the bump stays.
GpuGiveUp(c) ==
    /\ pc[c] = "onGpu"
    /\ ~ Fits(claim[c].start, claim[c].len, GpuShare)
    /\ pc' = [pc EXCEPT ![c] = "gpuFull"]
    /\ UNCHANGED <<gpuCachingPointer, cpuCachingPointer, claim, granted, grants, raced>>

\* __atomic_fetch_sub(&gpuCachingPointer, alloc): the bump is taken back.
GpuRollback(c) ==
    /\ pc[c] = "onGpu"
    /\ ~ Fits(claim[c].start, claim[c].len, GpuShare)
    /\ gpuCachingPointer' = gpuCachingPointer - claim[c].len
    /\ pc' = [pc EXCEPT ![c] = "gpuFull"]
    /\ raced' = (raced \/ \E d \in Conn \ {c} : pc[d] = "onGpu")
    /\ UNCHANGED <<cpuCachingPointer, claim, granted, grants>>

CpuFetchAdd(c) ==
    /\ pc[c] = "gpuFull"
    /\ claim' = [claim EXCEPT ![c].start = cpuCachingPointer]
    /\ cpuCachingPointer' = cpuCachingPointer + claim[c].len
    /\ pc' = [pc EXCEPT ![c] = "onCpu"]
    /\ UNCHANGED <<gpuCachingPointer, granted, grants, raced>>

CpuGrant(c) ==
    /\ pc[c] = "onCpu"
    /\ Fits(claim[c].start, claim[c].len, CpuShare)
    /\ Grant(c, "cpu")

\* The CPU share is full as well: roll back and throw "Out of caching memory".
OutOfCachingMemory(c) ==
    /\ pc[c] = "onCpu"
    /\ ~ Fits(claim[c].start, claim[c].len, CpuShare)
    /\ cpuCachingPointer' = cpuCachingPointer - claim[c].len
    /\ pc' = [pc EXCEPT ![c] = "idle"]
    /\ raced' = (raced \/ \E d \in Conn \ {c} : pc[d] = "onCpu")
    /\ UNCHANGED <<gpuCachingPointer, claim, granted, grants>>

\* GetDataDuckDB empties the cache between two requests of its connection.
ResetCache(c) ==
    /\ pc[c] = "idle"
    /\ gpuCachingPointer' = 0
    /\ cpuCachingPointer' = 0
    /\ granted' = {}
    /\ grants' = 0
    /\ raced' = (raced \/ \E d \in Conn \ {c} : pc[d] # "idle")
    /\ UNCHANGED <<pc, claim>>

Next ==
    \E c \in Conn :
        \/ \E n \in Sizes : GpuFetchAdd(c, n)
        \/ GpuGrant(c)
        \/ GpuRollback(c)
        \/ CpuFetchAdd(c)
        \/ CpuGrant(c)
        \/ OutOfCachingMemory(c)
        \/ ResetCache(c)

Spec == Init /\ [][Next]_vars

-----------------------------------------------------------------------------
(***************************************************************************)
(* What the callers rely on.                                               *)
(***************************************************************************)
Pointer(s) == IF s = "gpu" THEN gpuCachingPointer ELSE cpuCachingPointer
Room(s) == IF s = "gpu" THEN GpuShare ELSE CpuShare

\* The connections between the fetch_add on share s and what follows it.
Waiting(s) == {c \in Conn : pc[c] = IF s = "gpu" THEN "onGpu" ELSE "onCpu"}
GrantedIn(s) == {g \in granted : g.share = s}

Apart(x, y) == x.start + x.len <= y.start \/ y.start + y.len <= x.start
Holds(x, b) == x.start <= b /\ b < x.start + x.len

\* Blocks that customCudaMalloc returned for the cache since the last reset never share
\* a byte: the columns of two scans are not written over each other.  It is the atomics
\* that make this true for several connections, until a rollback or a reset overlaps
\* a request of another one.
BlocksApart ==
    \A s \in Shares : \A g, h \in GrantedIn(s) : g.id # h.id => Apart(g, h)
BlocksApartUnlessRaced == ~ raced => BlocksApart

\* A block lies inside gpuCache or cpuCache, so customCudaFree's range test recognises it
\* and no cudaMemcpy runs past the region.
BlocksInRegion ==
    \A s \in Shares : \A g \in GrantedIn(s) : 0 <= g.start /\ g.start + g.len <= Room(s)
BlocksInRegionUnlessRaced == ~ raced => BlocksInRegion

\* A refused request gives back all it took: when no request is under way, every byte
\* below a pointer belongs to a block, so failed loads do not shrink the cache.
NothingLeaks ==
    (\A c \in Conn : pc[c] = "idle") =>
        \A s \in Shares : \A b \in 0 .. CacheSize :
            b < Pointer(s) => \E g \in GrantedIn(s) : Holds(g, b)
NothingLeaksUnlessRaced == ~ raced => NothingLeaks
=============================================================================
