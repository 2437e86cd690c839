-------------------------- MODULE MCCacheAllocator --------------------------
(* CacheAllocator with cached blocks of two or four units in a region of     *)
(* six GPU units and four CPU units: both shares overflow.                   *)
EXTENDS CacheAllocator

CONSTANTS c1, c2

TwoConns == {c1, c2}
=============================================================================
