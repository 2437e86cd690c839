---------------------------- MODULE CacheLayout ----------------------------
(***************************************************************************)
(* The arithmetic of the caching region of GPUBufferManager.               *)
(*                                                                         *)
(* cache_size_per_gpu bytes are split at construction between the GPU      *)
(* (available_gpu_cache_size) and pinned host memory (the rest).  The      *)
(* model keeps one address space for both: 0 .. GpuShare - 1 is gpuCache,  *)
(* GpuShare .. CacheSize - 1 is cpuCache.                                  *)
(***************************************************************************)
EXTENDS Integers

CONSTANTS
    CacheSize,   \* cache_size_per_gpu: bytes asked for in gpu_buffer_init
    FreeOnGpu,   \* what getFreeGPUMemorySize reports, times 0.99
    Alignment    \* the padding unit of customCudaMalloc (256 in the code)

ASSUME CacheLayoutAssumption ==
    /\ CacheSize \in Nat
    /\ FreeOnGpu \in Nat
    /\ Alignment \in Nat \ {0}

\* available_gpu_cache_size: everything when the GPU has room, else what is free.
GpuShare == IF CacheSize <= FreeOnGpu THEN CacheSize ELSE FreeOnGpu

\* The bytes of cpuCache.
CpuShare == CacheSize - GpuShare

\* Faulty: an aligned request, of no bytes even, is not padded.
PaddedIfNeeded(n) == n + ((Alignment - (n % Alignment)) % Alignment)

\* alloc + (alignment - alloc % alignment): an aligned request still grows by a whole unit.
Padded(n) == n + (Alignment - (n % Alignment))

=============================================================================
