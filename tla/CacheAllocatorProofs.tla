----------------------- MODULE CacheAllocatorProofs -----------------------
(***************************************************************************)
(* Proofs about CacheAllocator, for every number of connections, every     *)
(* size of the two shares and every alignment.                             *)
(***************************************************************************)
EXTENDS CacheAllocator, TLAPS

\* Every request grows to at least one byte, also an aligned or an empty one.
LEMMA PaddedPositive ==
    ASSUME NEW n \in Nat
    PROVE  Padded(n) \in Nat \ {0}
<1>1. n % Alignment \in 0 .. Alignment - 1
  BY CacheLayoutAssumption
<1>2. QED
  BY <1>1, CacheLayoutAssumption DEF Padded

LEMMA SharesAreNat == GpuShare \in Nat /\ CpuShare \in Nat
  BY CacheLayoutAssumption DEF GpuShare, CpuShare

LEMMA TypeCorrectStep == TypeOK /\ [Next]_vars => TypeOK'
<1> SUFFICES ASSUME TypeOK, [Next]_vars PROVE TypeOK'
  OBVIOUS
<1> USE DEF TypeOK, Claims, Shares
<1>1. ASSUME NEW c \in Conn, NEW n \in Sizes, GpuFetchAdd(c, n) PROVE TypeOK'
  <2>1. Padded(n) \in Nat \ {0}
    BY PaddedPositive, CacheAllocatorAssumption
  <2>2. QED
    BY <1>1, <2>1 DEF GpuFetchAdd
<1>2. ASSUME NEW c \in Conn, GpuGrant(c) PROVE TypeOK'
  BY <1>2 DEF GpuGrant, Grant
<1>3. ASSUME NEW c \in Conn, GpuRollback(c) PROVE TypeOK'
  BY <1>3 DEF GpuRollback
<1>4. ASSUME NEW c \in Conn, CpuFetchAdd(c) PROVE TypeOK'
  BY <1>4 DEF CpuFetchAdd
<1>5. ASSUME NEW c \in Conn, CpuGrant(c) PROVE TypeOK'
  BY <1>5 DEF CpuGrant, Grant
<1>6. ASSUME NEW c \in Conn, OutOfCachingMemory(c) PROVE TypeOK'
  BY <1>6 DEF OutOfCachingMemory
<1>7. ASSUME NEW c \in Conn, ResetCache(c) PROVE TypeOK'
  BY <1>7 DEF ResetCache
<1>8. CASE UNCHANGED vars
  BY <1>8 DEF vars
<1>9. QED
  BY <1>1, <1>2, <1>3, <1>4, <1>5, <1>6, <1>7, <1>8 DEF Next

LEMMA InitTypeOK == Init => TypeOK
<1> SUFFICES ASSUME Init PROVE TypeOK
  OBVIOUS
<1>1. NoClaim \in Claims
  BY DEF NoClaim, Claims
<1>2. claim \in [Conn -> Claims]
  BY <1>1 DEF Init
<1>3. pc \in [Conn -> {"idle", "onGpu", "gpuFull", "onCpu"}]
  BY DEF Init
<1>4. gpuCachingPointer \in Int /\ cpuCachingPointer \in Int /\ grants \in Nat
  BY DEF Init
<1>5. granted = {} /\ raced \in BOOLEAN
  BY DEF Init
<1>6. QED
  BY <1>2, <1>3, <1>4, <1>5 DEF TypeOK

\* The variables of the allocator keep their types in every reachable state.
THEOREM TypeCorrect == Spec => []TypeOK
  BY InitTypeOK, TypeCorrectStep, PTL DEF Spec

-----------------------------------------------------------------------------
(***************************************************************************)
(* Why the atomics keep the blocks apart.  As long as no rollback and no   *)
(* reset overlapped another request, the blocks granted and the claims     *)
(* still waiting for their test tile the share from 0 up to its pointer.   *)
(***************************************************************************)
Ends(x) == x.start + x.len

\* Every block and every pending claim of share s lies below the pointer.
BelowPointer(s) ==
    /\ 0 <= Pointer(s)
    /\ \A c \in Waiting(s) : 0 <= claim[c].start /\ Ends(claim[c]) <= Pointer(s)
    /\ \A g \in GrantedIn(s) :
           0 <= g.start /\ Ends(g) <= Pointer(s) /\ Ends(g) <= Room(s) /\ g.id < grants

\* No two of them share a byte.
NoOverlap(s) ==
    /\ \A g, h \in GrantedIn(s) : g.id # h.id => Apart(g, h)
    /\ \A g \in GrantedIn(s), c \in Waiting(s) : Apart(g, claim[c])
    /\ \A c, d \in Waiting(s) : c # d => Apart(claim[c], claim[d])

\* Nothing between them is lost.
Packed(s) ==
    \A b \in Nat : b < Pointer(s) =>
        \/ \E g \in GrantedIn(s) : Holds(g, b)
        \/ \E c \in Waiting(s) : Holds(claim[c], b)

Tiled(s) == BelowPointer(s) /\ NoOverlap(s) /\ Packed(s)
IInv == TypeOK /\ (~ raced => \A s \in Shares : Tiled(s))

\* What the rest of a proof needs to know of the types on share s.
LEMMA TypesOnShare ==
    ASSUME TypeOK, NEW s \in Shares
    PROVE  /\ Pointer(s) \in Int
           /\ Room(s) \in Nat
           /\ \A c \in Conn : claim[c].start \in Int /\ claim[c].len \in Nat \ {0}
           /\ \A g \in GrantedIn(s) :
                 g.start \in Int /\ g.len \in Nat \ {0} /\ g.id \in Nat
           /\ Waiting(s) \subseteq Conn
           /\ grants \in Nat
  BY SharesAreNat DEF TypeOK, Claims, Shares, Pointer, Room, GrantedIn, Waiting

\* A step that leaves share s as it is keeps it tiled.
LEMMA OtherShare ==
    ASSUME NEW s \in Shares, TypeOK, TypeOK', Tiled(s),
           Pointer(s)' = Pointer(s), Waiting(s)' = Waiting(s),
           \A d \in Waiting(s) : claim'[d] = claim[d],
           GrantedIn(s)' = GrantedIn(s), grants' >= grants
    PROVE  Tiled(s)'
<1> USE DEF Room
<1>1. BelowPointer(s)'
  BY TypesOnShare, SharesAreNat DEF Tiled, BelowPointer, Ends, TypeOK
<1>2. NoOverlap(s)'
  BY DEF Tiled, NoOverlap, Apart
<1>3. Packed(s)'
  BY DEF Tiled, Packed, Holds
<1>4. QED
  BY <1>1, <1>2, <1>3 DEF Tiled

\* The fetch_add: the new claim starts where the pointer was, above everything.
LEMMA ClaimKeepsTiled ==
    ASSUME NEW s \in Shares, NEW c \in Conn, TypeOK, TypeOK', Tiled(s),
           c \notin Waiting(s), Waiting(s)' = Waiting(s) \cup {c},
           claim'[c].start = Pointer(s), Pointer(s)' = Pointer(s) + claim'[c].len,
           \A d \in Waiting(s) : claim'[d] = claim[d],
           GrantedIn(s)' = GrantedIn(s), grants' = grants
    PROVE  Tiled(s)'
<1>1. claim'[c].len \in Nat \ {0} /\ Pointer(s) \in Int
  BY TypesOnShare DEF TypeOK, Claims
<1>2. BelowPointer(s)'
  BY <1>1, TypesOnShare, SharesAreNat DEF Tiled, BelowPointer, Ends, Room
<1>3. NoOverlap(s)'
  <2>1. \A g \in GrantedIn(s) : Apart(g, claim'[c])
    BY TypesOnShare DEF Tiled, BelowPointer, Ends, Apart
  <2>2. \A d \in Waiting(s) : Apart(claim[d], claim'[c]) /\ Apart(claim'[c], claim[d])
    BY TypesOnShare DEF Tiled, BelowPointer, Ends, Apart
  <2>3. QED
    BY <2>1, <2>2 DEF Tiled, NoOverlap, Apart
<1>4. Packed(s)'
  <2> SUFFICES ASSUME NEW b \in Nat, b < Pointer(s)'
               PROVE  \/ \E g \in GrantedIn(s) : Holds(g, b)
                      \/ \E d \in Waiting(s)' : Holds(claim'[d], b)
    BY DEF Packed, Holds
  <2>1. CASE b < Pointer(s)
    BY <2>1 DEF Tiled, Packed, Holds
  <2>2. CASE ~ (b < Pointer(s))
    BY <2>2, <1>1 DEF Holds
  <2>3. QED
    BY <2>1, <2>2
<1>5. QED
  BY <1>2, <1>3, <1>4 DEF Tiled

\* A claim that passed its test becomes a block: it held its bytes already.
LEMMA GrantKeepsTiled ==
    ASSUME NEW s \in Shares, NEW c \in Waiting(s), TypeOK, TypeOK', Tiled(s),
           Fits(claim[c].start, claim[c].len, Room(s)),
           Waiting(s)' = Waiting(s) \ {c}, claim' = claim, Pointer(s)' = Pointer(s),
           GrantedIn(s)' = GrantedIn(s) \cup
               {[id |-> grants, share |-> s, start |-> claim[c].start, len |-> claim[c].len]},
           grants' = grants + 1
    PROVE  Tiled(s)'
<1> DEFINE new == [id |-> grants, share |-> s, start |-> claim[c].start, len |-> claim[c].len]
<1>1. BelowPointer(s)'
  BY TypesOnShare, SharesAreNat DEF Tiled, BelowPointer, Ends, Room, Fits
<1>2. NoOverlap(s)'
  <2>1. \A g \in GrantedIn(s) : Apart(g, new) /\ Apart(new, g)
    BY DEF Tiled, NoOverlap, Apart
  <2>2. \A d \in Waiting(s) \ {c} : Apart(new, claim[d])
    BY DEF Tiled, NoOverlap, Apart
  <2>3. QED
    BY <2>1, <2>2 DEF Tiled, NoOverlap, Apart
<1>3. Packed(s)'
  <2> SUFFICES ASSUME NEW b \in Nat, b < Pointer(s)
               PROVE  \/ \E g \in GrantedIn(s)' : Holds(g, b)
                      \/ \E d \in Waiting(s)' : Holds(claim[d], b)
    BY DEF Packed, Holds
  <2>1. CASE \E g \in GrantedIn(s) : Holds(g, b)
    BY <2>1
  <2>2. CASE \E d \in Waiting(s) \ {c} : Holds(claim[d], b)
    BY <2>2
  <2>3. CASE Holds(claim[c], b)
    <3>1. Holds(new, b) /\ new \in GrantedIn(s)'
      BY <2>3 DEF Holds
    <3>2. QED
      BY <3>1
  <2>4. QED
    BY <2>1, <2>2, <2>3 DEF Tiled, Packed
<1>4. QED
  BY <1>1, <1>2, <1>3 DEF Tiled

\* A rollback on its own: the refused claim was the last one below the pointer, because
\* every byte above it would have to belong to a block, and no block lies beyond the room.
LEMMA TakeBackKeepsTiled ==
    ASSUME NEW s \in Shares, NEW c \in Conn, TypeOK, TypeOK', Tiled(s),
           Waiting(s) = {c}, ~ Fits(claim[c].start, claim[c].len, Room(s)),
           Waiting(s)' = {}, claim' = claim, Pointer(s)' = Pointer(s) - claim[c].len,
           GrantedIn(s)' = GrantedIn(s), grants' = grants
    PROVE  Tiled(s)'
<1>1. /\ claim[c].start \in Nat
      /\ claim[c].len \in Nat \ {0}
      /\ Ends(claim[c]) <= Pointer(s)
      /\ Ends(claim[c]) > Room(s)
      /\ Pointer(s) \in Nat
  BY TypesOnShare DEF Tiled, BelowPointer, Ends, Fits
<1>2. Pointer(s) = Ends(claim[c])
  <2> SUFFICES ASSUME Pointer(s) # Ends(claim[c]) PROVE FALSE
    OBVIOUS
  <2>1. Pointer(s) - 1 \in Nat /\ Pointer(s) - 1 >= Ends(claim[c])
    BY <1>1 DEF Ends
  <2>2. ~ Holds(claim[c], Pointer(s) - 1)
    BY <1>1, <2>1 DEF Holds, Ends
  <2>3. \A g \in GrantedIn(s) : ~ Holds(g, Pointer(s) - 1)
    BY <1>1, <2>1, TypesOnShare DEF Tiled, BelowPointer, Ends, Holds
  <2>4. QED
    BY <1>1, <2>1, <2>2, <2>3 DEF Tiled, Packed
<1>3. Pointer(s)' = claim[c].start
  BY <1>1, <1>2 DEF Ends
<1>4. \A g \in GrantedIn(s) : Ends(g) <= claim[c].start
  BY <1>1, TypesOnShare DEF Tiled, BelowPointer, NoOverlap, Apart, Ends
<1>5. BelowPointer(s)'
  BY <1>1, <1>3, <1>4, TypesOnShare, SharesAreNat DEF Tiled, BelowPointer, Ends, Room
<1>6. NoOverlap(s)'
  BY DEF Tiled, NoOverlap, Apart
<1>7. Packed(s)'
  BY <1>1, <1>3 DEF Tiled, Packed, Holds, Ends
<1>8. QED
  BY <1>5, <1>6, <1>7 DEF Tiled

\* An empty cache is tiled.
LEMMA EmptyIsTiled ==
    ASSUME NEW s \in Shares, Pointer(s) = 0, Waiting(s) = {}, GrantedIn(s) = {}
    PROVE  Tiled(s)
  BY DEF Tiled, BelowPointer, NoOverlap, Packed

-----------------------------------------------------------------------------
\* The invariant is inductive: one step per atomic operation of the allocator.
LEMMA InductiveStep == IInv /\ [Next]_vars => IInv'
<1> SUFFICES ASSUME TypeOK, ~ raced => \A s \in Shares : Tiled(s), [Next]_vars,
                    TypeOK', ~ raced', NEW s \in Shares
             PROVE  Tiled(s)'
  BY TypeCorrectStep DEF IInv, Shares
<1>a. ~ raced /\ Tiled(s)
  <2>1. ~ raced
    BY DEF Next, vars, GpuFetchAdd, GpuGrant, Grant, GpuRollback, CpuFetchAdd, CpuGrant,
           OutOfCachingMemory, ResetCache, TypeOK
  <2>2. QED
    BY <2>1
<1>b. s = "gpu" \/ s = "cpu"
  BY DEF Shares
<1> USE DEF Waiting, Pointer, GrantedIn
<1>1. ASSUME NEW c \in Conn, NEW n \in Sizes, GpuFetchAdd(c, n) PROVE Tiled(s)'
  <2>1. CASE s = "gpu"
    BY <1>a, <1>1, <2>1, ClaimKeepsTiled DEF GpuFetchAdd, TypeOK
  <2>2. CASE s = "cpu"
    BY <1>a, <1>1, <2>2, OtherShare DEF GpuFetchAdd, TypeOK
  <2>3. QED
    BY <1>b, <2>1, <2>2
<1>2. ASSUME NEW c \in Conn, GpuGrant(c) PROVE Tiled(s)'
  <2>1. CASE s = "gpu"
    BY <1>a, <1>2, <2>1, GrantKeepsTiled DEF GpuGrant, Grant, TypeOK, Room
  <2>2. CASE s = "cpu"
    BY <1>a, <1>2, <2>2, OtherShare DEF GpuGrant, Grant, TypeOK
  <2>3. QED
    BY <1>b, <2>1, <2>2
<1>3. ASSUME NEW c \in Conn, GpuRollback(c) PROVE Tiled(s)'
  <2>1. CASE s = "gpu"
    <3>1. /\ Waiting(s) = {c} /\ Waiting(s)' = {}
          /\ ~ Fits(claim[c].start, claim[c].len, Room(s))
          /\ claim' = claim
          /\ Pointer(s)' = Pointer(s) - claim[c].len
          /\ GrantedIn(s)' = GrantedIn(s)
          /\ grants' = grants
      BY <1>a, <1>3, <2>1 DEF GpuRollback, TypeOK, Room
    <3>2. QED
      BY <1>a, <3>1, TakeBackKeepsTiled
  <2>2. CASE s = "cpu"
    BY <1>a, <1>3, <2>2, OtherShare DEF GpuRollback, TypeOK
  <2>3. QED
    BY <1>b, <2>1, <2>2
<1>4. ASSUME NEW c \in Conn, CpuFetchAdd(c) PROVE Tiled(s)'
  <2>1. CASE s = "gpu"
    BY <1>a, <1>4, <2>1, OtherShare DEF CpuFetchAdd, TypeOK
  <2>2. CASE s = "cpu"
    BY <1>a, <1>4, <2>2, ClaimKeepsTiled DEF CpuFetchAdd, TypeOK, Claims
  <2>3. QED
    BY <1>b, <2>1, <2>2
<1>5. ASSUME NEW c \in Conn, CpuGrant(c) PROVE Tiled(s)'
  <2>1. CASE s = "gpu"
    BY <1>a, <1>5, <2>1, OtherShare DEF CpuGrant, Grant, TypeOK
  <2>2. CASE s = "cpu"
    BY <1>a, <1>5, <2>2, GrantKeepsTiled DEF CpuGrant, Grant, TypeOK, Room
  <2>3. QED
    BY <1>b, <2>1, <2>2
<1>6. ASSUME NEW c \in Conn, OutOfCachingMemory(c) PROVE Tiled(s)'
  <2>1. CASE s = "gpu"
    BY <1>a, <1>6, <2>1, OtherShare DEF OutOfCachingMemory, TypeOK
  <2>2. CASE s = "cpu"
    <3>1. /\ Waiting(s) = {c}
          /\ Waiting(s)' = {}
          /\ ~ Fits(claim[c].start, claim[c].len, Room(s))
          /\ claim' = claim
          /\ Pointer(s)' = Pointer(s) - claim[c].len
          /\ GrantedIn(s)' = GrantedIn(s)
          /\ grants' = grants
      BY <1>a, <1>6, <2>2 DEF OutOfCachingMemory, TypeOK, Room
    <3>2. QED
      BY <1>a, <3>1, TakeBackKeepsTiled
  <2>3. QED
    BY <1>b, <2>1, <2>2
<1>7. ASSUME NEW c \in Conn, ResetCache(c) PROVE Tiled(s)'
  <2>1. Pointer(s)' = 0 /\ Waiting(s)' = {} /\ GrantedIn(s)' = {}
    BY <1>b, <1>7 DEF ResetCache, TypeOK
  <2>2. QED
    BY <2>1 DEF Tiled, BelowPointer, NoOverlap, Packed
<1>8. CASE UNCHANGED vars
  BY <1>a, <1>8, OtherShare DEF vars, TypeOK
<1>9. QED
  BY <1>1, <1>2, <1>3, <1>4, <1>5, <1>6, <1>7, <1>8 DEF Next

LEMMA Inductive == Spec => []IInv
<1>1. Init => IInv
  <2> SUFFICES ASSUME Init, NEW s \in Shares PROVE Tiled(s)
    BY InitTypeOK DEF IInv
  <2>1. QED
    BY EmptyIsTiled DEF Init, Pointer, Waiting, GrantedIn, Shares
<1>2. QED
  BY <1>1, InductiveStep, PTL DEF Spec

\* Any number of connections may load columns at once: until a rollback or a reset
\* overlaps a request of another connection, no cached byte has two owners.
THEOREM AtomicsKeepBlocksApart == Spec => []BlocksApartUnlessRaced
<1>1. IInv => BlocksApartUnlessRaced
  BY DEF IInv, Tiled, NoOverlap, BlocksApartUnlessRaced, BlocksApart
<1>2. QED
  BY <1>1, Inductive, PTL

\* Under the same condition every block lies inside its region.
THEOREM AtomicsKeepBlocksInRegion == Spec => []BlocksInRegionUnlessRaced
<1>1. IInv => BlocksInRegionUnlessRaced
  BY DEF IInv, Tiled, BelowPointer, Ends, BlocksInRegionUnlessRaced, BlocksInRegion
<1>2. QED
  BY <1>1, Inductive, PTL

\* Under the same condition a refused request leaves no hole behind.
THEOREM RefusedRequestsLeakNothing == Spec => []NothingLeaksUnlessRaced
<1>1. IInv => NothingLeaksUnlessRaced
  <2> SUFFICES ASSUME IInv, ~ raced, \A c \in Conn : pc[c] = "idle", NEW s \in Shares,
                      NEW b \in 0 .. CacheSize, b < Pointer(s)
               PROVE  \E g \in GrantedIn(s) : Holds(g, b)
    BY DEF NothingLeaksUnlessRaced, NothingLeaks
  <2>1. Waiting(s) = {}
    BY DEF Waiting
  <2>2. b \in Nat /\ Packed(s)
    BY CacheLayoutAssumption DEF IInv, Tiled
  <2>3. QED
    BY <2>1, <2>2 DEF Packed
<1>2. QED
  BY <1>1, Inductive, PTL

\* With one connection nothing overlaps, and the three promises hold without condition.
THEOREM OneConnectionIsSafe ==
    ASSUME \A c, d \in Conn : c = d
    PROVE  Spec => [](BlocksApart /\ BlocksInRegion /\ NothingLeaks)
<1>1. Init => ~ raced
  BY DEF Init
<1>2. ~ raced /\ [Next]_vars => ~ raced'
  BY DEF Next, vars, GpuFetchAdd, GpuGrant, Grant, GpuRollback, CpuFetchAdd, CpuGrant,
         OutOfCachingMemory, ResetCache
<1>3. ~ raced /\ BlocksApartUnlessRaced /\ BlocksInRegionUnlessRaced /\ NothingLeaksUnlessRaced
        => BlocksApart /\ BlocksInRegion /\ NothingLeaks
  BY DEF BlocksApartUnlessRaced, BlocksInRegionUnlessRaced, NothingLeaksUnlessRaced
<1>4. QED
  BY <1>1, <1>2, <1>3, AtomicsKeepBlocksApart, AtomicsKeepBlocksInRegion,
     RefusedRequestsLeakNothing, PTL DEF Spec
=============================================================================
