-------------------------- MODULE TableCacheProofs --------------------------
(***************************************************************************)
(* Proofs about TableCache, for all tables, columns, buffer sizes, queries *)
(* and sizes of the caching region.                                        *)
(*                                                                         *)
(* The argument: the buffers of the loaded columns and those of the load   *)
(* under way lie below the caching pointers and apart from each other, so  *)
(* a load writes no byte of another column.                                *)
(***************************************************************************)
EXTENDS TableCache, TLAPS

\* The buffers that own memory, and where they start.
Held == {b \in Buffers : Loaded(b[1]) \/ b \in DOMAIN fresh}
Place(b) == IF b \in DOMAIN fresh THEN fresh[b] ELSE header[b[1]].start[b[2]]

\* A header leads into the caching region, or nowhere.
Leads(c, h) ==
    /\ h \in Headers
    /\ IF h.state = "loaded"
       THEN /\ DOMAIN h.start = 1 .. Len(BufferSize[c])
            /\ \A i \in DOMAIN h.start : h.start[i] + BufferSize[c][i] <= CacheSize
       ELSE h.start = <<>>
HeadersLead ==
    /\ \A c \in Column : Leads(c, header[c])
    /\ \A v \in views : Leads(v.col, v.header)

\* GetData and the load know the scan they work for.
ScanUnderWay ==
    phase \in {"check", "allocate", "view"} => query \in Queries /\ at \in 1 .. Len(query)

\* Only the columns of the load under way are missing: registered, without data.
LoadUnderWay ==
    /\ phase # "allocate" => missing = {}
    /\ \A b \in DOMAIN fresh : b[1] \in missing
    /\ \A c \in missing : header[c] = EmptyHeader

\* Every other column without data was left by a load that threw.
HolesExplained ==
    \A c \in Column : header[c] = EmptyHeader => failedLoad \/ c \in missing

\* Whoever owns memory owns it below one of the two pointers ...
BelowPointers ==
    \A b \in Held :
        \/ 0 <= Place(b) /\ Place(b) + SizeOf(b) <= gpuCachingPointer
        \/ GpuShare <= Place(b) /\ Place(b) + SizeOf(b) <= GpuShare + cpuCachingPointer

\* ... and alone.
HeldApart ==
    \A b, d \in Held : b # d =>
        Place(b) + SizeOf(b) <= Place(d) \/ Place(d) + SizeOf(d) <= Place(b)

\* The views of a query that did not evict the cache are the headers of the cache.
ViewsCurrent ==
    ~ lostViews => \A v \in views : v.header.state = "loaded" => header[v.col] = v.header

NoAnswerYet == phase # "answered" => answer = NoAnswer

IInv ==
    /\ TypeOK /\ HeadersLead /\ ScanUnderWay /\ LoadUnderWay /\ HolesExplained
    /\ BelowPointers /\ HeldApart /\ CacheCoherent
    /\ ViewsCurrent /\ NoAnswerYet /\ GpuAnswerIsWhatWasLoaded

-----------------------------------------------------------------------------
LEMMA PaddedGrows ==
    ASSUME NEW n \in Nat
    PROVE  Padded(n) \in Nat /\ Padded(n) > n
<1>1. n % Alignment \in 0 .. Alignment - 1
  BY CacheLayoutAssumption
<1>2. QED
  BY <1>1, CacheLayoutAssumption DEF Padded

LEMMA Shares ==
    /\ CacheSize \in Nat /\ GpuShare \in Nat /\ CpuShare \in Nat
    /\ GpuShare + CpuShare = CacheSize
  BY CacheLayoutAssumption DEF GpuShare, CpuShare

LEMMA SequencesAreFunctions ==
    ASSUME NEW S
    PROVE  /\ \A s \in Seq(S) : DOMAIN s = 1 .. Len(s) /\ \A i \in DOMAIN s : s[i] \in S
           /\ \A n \in Nat : \A s \in [1 .. n -> S] : s \in Seq(S)
<1>1. ASSUME NEW s \in Seq(S) PROVE DOMAIN s = 1 .. Len(s) /\ \A i \in DOMAIN s : s[i] \in S
  OBVIOUS
<1>2. \A n \in Nat : \A s \in [1 .. n -> S] : s \in Seq(S)
  OBVIOUS
<1>3. QED
  BY <1>1, <1>2

LEMMA BufferFacts ==
    /\ \A b \in Buffers :
          /\ b[1] \in Column /\ b[2] \in 1 .. Len(BufferSize[b[1]])
          /\ b = <<b[1], b[2]>> /\ SizeOf(b) \in Nat
    /\ \A c \in Column : \A i \in 1 .. Len(BufferSize[c]) :
          <<c, i>> \in Buffers /\ SizeOf(<<c, i>>) = BufferSize[c][i]
    /\ \A c \in Column :
          /\ BufferSize[c] \in Seq(Nat) /\ Len(BufferSize[c]) \in Nat
          /\ DOMAIN BufferSize[c] = 1 .. Len(BufferSize[c])
<1>1. \A c \in Column :
         /\ BufferSize[c] \in Seq(Nat) /\ Len(BufferSize[c]) \in Nat
         /\ DOMAIN BufferSize[c] = 1 .. Len(BufferSize[c])
  BY TableCacheAssumption
<1>2. ASSUME NEW b \in Buffers
      PROVE  /\ b[1] \in Column /\ b[2] \in 1 .. Len(BufferSize[b[1]])
             /\ b = <<b[1], b[2]>> /\ SizeOf(b) \in Nat
  <2>1. PICK c \in Column : \E i \in 1 .. Len(BufferSize[c]) : b = <<c, i>>
    BY DEF Buffers
  <2>2. QED
    BY <1>1, <2>1 DEF SizeOf
<1>3. \A c \in Column : \A i \in 1 .. Len(BufferSize[c]) :
         <<c, i>> \in Buffers /\ SizeOf(<<c, i>>) = BufferSize[c][i]
  BY DEF Buffers, SizeOf
<1>4. QED
  BY <1>1, <1>2, <1>3

\* The columns of the scan under way, and those it misses.
LEMMA ScanFacts ==
    ASSUME query \in Queries, at \in 1 .. Len(query)
    PROVE  ScanCols \subseteq Column /\ Missing \subseteq Column
<1>1. query[at].cols \in Seq(Column)
  <2> DEFINE Scans == [cols : Seq(Column), rowId : BOOLEAN]
  <2>1. query \in Seq(Scans)
    BY TableCacheAssumption
  <2>2. query[at] \in Scans
    <3> HIDE DEF Scans
    <3>1. QED
      BY <2>1
  <2>3. QED
    BY <2>2
<1>2. QED
  BY <1>1 DEF ScanCols, Missing

LEMMA HeaderKinds ==
    /\ \A c \in Column : Leads(c, NoHeader) /\ Leads(c, EmptyHeader)
    /\ NoHeader # EmptyHeader
    /\ NoHeader.state = "none" /\ EmptyHeader.state = "empty"
<1>1. <<>> \in Seq(0 .. CacheSize)
  OBVIOUS
<1>2. QED
  BY <1>1 DEF Leads, Headers, NoHeader, EmptyHeader

\* While a load is under way its columns do not count as loaded.
LEMMA FreshIsNotLoaded ==
    ASSUME LoadUnderWay, NEW b \in DOMAIN fresh
    PROVE  b[1] \in missing /\ header[b[1]] = EmptyHeader /\ ~ Loaded(b[1])
  BY HeaderKinds DEF LoadUnderWay, Loaded

LEMMA InitInv == Init => IInv
<1> SUFFICES ASSUME Init PROVE IInv
  OBVIOUS
<1> USE DEF Init
<1>1. DOMAIN fresh = {} /\ \A c \in Column : ~ Loaded(c) /\ header[c] = NoHeader
  BY HeaderKinds DEF Loaded
<1>2. TypeOK
  <2>1. header \in [Column -> Headers] /\ mem \in [0 .. CacheSize - 1 -> Contents]
    BY HeaderKinds DEF Leads, Contents
  <2>2. version \in [Table -> Nat] /\ snapshot \in [Table -> Nat]
    OBVIOUS
  <2>3. answer.by = "nobody" /\ answer.cols = {}
    BY DEF NoAnswer
  <2>4. gpuCachingPointer \in 0 .. GpuShare /\ cpuCachingPointer \in 0 .. CpuShare
    BY Shares
  <2>5. views \subseteq [col : Column, header : Headers] /\ missing \subseteq Column
    OBVIOUS
  <2>6. DOMAIN fresh \subseteq Buffers /\ \A b \in DOMAIN fresh : fresh[b] \in 0 .. CacheSize
    BY <1>1
  <2>7. answer.cols \subseteq Seen /\ query \in Queries \cup {<<>>} /\ at \in Nat
    BY <2>3
  <2>8. QED
    BY <2>1, <2>2, <2>3, <2>4, <2>5, <2>6, <2>7 DEF TypeOK
<1>3. HeadersLead
  BY HeaderKinds DEF HeadersLead
<1>4. ScanUnderWay /\ LoadUnderWay
  BY <1>1 DEF ScanUnderWay, LoadUnderWay
<1>5. HolesExplained
  BY <1>1, HeaderKinds DEF HolesExplained
<1>6. BelowPointers /\ HeldApart
  BY <1>1, BufferFacts DEF BelowPointers, HeldApart, Held
<1>7. CacheCoherent
  BY <1>1 DEF CacheCoherent
<1>8. ViewsCurrent /\ NoAnswerYet /\ GpuAnswerIsWhatWasLoaded
  BY DEF ViewsCurrent, NoAnswerYet, GpuAnswerIsWhatWasLoaded, NoAnswer
<1>9. QED
  BY <1>2, <1>3, <1>4, <1>5, <1>6, <1>7, <1>8 DEF IInv

-----------------------------------------------------------------------------
(***************************************************************************)
(* Who owns which bytes.                                                   *)
(***************************************************************************)
\* Where a held buffer lies, and that the bytes of two of them are disjoint sets.
LEMMA PlaceFacts ==
    ASSUME IInv
    PROVE  /\ \A b \in Held : b \in Buffers /\ Place(b) \in 0 .. CacheSize
           /\ \A b, d \in Held : \A a :
                 a \in Bytes(b, Place(b)) /\ a \in Bytes(d, Place(d)) => b = d
<1>1. ASSUME NEW b \in Held PROVE b \in Buffers /\ Place(b) \in 0 .. CacheSize
  <2>1. b \in Buffers
    BY DEF Held
  <2>2. CASE b \in DOMAIN fresh
    BY <2>1, <2>2 DEF IInv, TypeOK, Place
  <2>3. CASE b \notin DOMAIN fresh
    <3>1. Loaded(b[1]) /\ b[1] \in Column
      BY <2>1, <2>3, BufferFacts DEF Held
    <3>2. Leads(b[1], header[b[1]])
      BY <3>1 DEF IInv, HeadersLead
    <3>3. /\ header[b[1]].start \in Seq(0 .. CacheSize)
          /\ DOMAIN header[b[1]].start = 1 .. Len(BufferSize[b[1]])
      BY <3>1, <3>2 DEF Leads, Loaded, Headers
    <3>4. header[b[1]].start[b[2]] \in 0 .. CacheSize
      BY <2>1, <3>3, BufferFacts, SequencesAreFunctions
    <3>5. QED
      BY <2>1, <2>3, <3>4 DEF Place
  <2>4. QED
    BY <2>1, <2>2, <2>3
<1>2. ASSUME NEW b \in Held, NEW d \in Held, b # d, NEW a,
             a \in Bytes(b, Place(b)), a \in Bytes(d, Place(d))
      PROVE  FALSE
  <2>1. /\ Place(b) \in Int /\ SizeOf(b) \in Nat /\ Place(d) \in Int /\ SizeOf(d) \in Nat
    BY <1>1, BufferFacts, Shares
  <2>2. Place(b) + SizeOf(b) <= Place(d) \/ Place(d) + SizeOf(d) <= Place(b)
    BY <1>2 DEF IInv, HeldApart
  <2>3. QED
    BY <1>2, <2>1, <2>2 DEF Bytes
<1>3. QED
  BY <1>1, <1>2

\* Steps that move no buffer; the buffers of a load that threw are forgotten.
LEMMA MemoryStays ==
    ASSUME IInv, header' = header, mem' = mem, fresh' = fresh \/ DOMAIN fresh' = {},
           gpuCachingPointer' = gpuCachingPointer, cpuCachingPointer' = cpuCachingPointer
    PROVE  BelowPointers' /\ HeldApart' /\ CacheCoherent'
<1>1. \A b \in Held' : b \in Held /\ Place(b)' = Place(b)
  BY FreshIsNotLoaded DEF IInv, Held, Place, Loaded
<1>2. BelowPointers' /\ HeldApart'
  BY <1>1 DEF IInv, BelowPointers, HeldApart
<1>3. CacheCoherent'
  BY DEF IInv, CacheCoherent, Loaded
<1>4. QED
  BY <1>2, <1>3

\* Columns that are registered own nothing yet; evicted ones own nothing any more.
LEMMA RegisterKeepsApart ==
    ASSUME IInv, DOMAIN fresh = {}, fresh' = fresh, mem' = mem,
           \A c \in Column : Loaded(c)' => Loaded(c) /\ header'[c] = header[c],
           \/ \A c \in Column : ~ Loaded(c)'
           \/ gpuCachingPointer' = gpuCachingPointer /\ cpuCachingPointer' = cpuCachingPointer
    PROVE  BelowPointers' /\ HeldApart' /\ CacheCoherent'
<1>1. \A b \in Held' : b \in Held /\ Place(b)' = Place(b) /\ Loaded(b[1])'
  BY BufferFacts DEF Held, Place
<1>2. BelowPointers'
  <2>1. CASE \A c \in Column : ~ Loaded(c)'
    BY <2>1, <1>1, BufferFacts DEF BelowPointers, Held
  <2>2. CASE gpuCachingPointer' = gpuCachingPointer /\ cpuCachingPointer' = cpuCachingPointer
    BY <2>2, <1>1 DEF IInv, BelowPointers
  <2>3. QED
    BY <2>1, <2>2
<1>3. HeldApart'
  BY <1>1 DEF IInv, HeldApart
<1>4. CacheCoherent'
  BY DEF IInv, CacheCoherent
<1>5. QED
  BY <1>2, <1>3, <1>4

\* A buffer allocated at a caching pointer lies above all others of its share.
LEMMA AllocateKeepsApart ==
    ASSUME IInv, NEW b \in Buffers, IsNextBuffer(b), NEW p \in Int, Allocated(b, p),
           \/ /\ p = gpuCachingPointer /\ cpuCachingPointer' = cpuCachingPointer
              /\ gpuCachingPointer' = gpuCachingPointer + Padded(SizeOf(b))
              /\ gpuCachingPointer' <= GpuShare
           \/ /\ p = GpuShare + cpuCachingPointer /\ gpuCachingPointer' = gpuCachingPointer
              /\ cpuCachingPointer' = cpuCachingPointer + Padded(SizeOf(b))
    PROVE  BelowPointers' /\ HeldApart' /\ CacheCoherent'
<1>1. b \notin DOMAIN fresh /\ b[1] \in missing /\ ~ Loaded(b[1])
  BY HeaderKinds DEF IsNextBuffer, Unallocated, BuffersOf, IInv, LoadUnderWay, Loaded
<1>2. /\ DOMAIN fresh' = DOMAIN fresh \cup {b} /\ fresh'[b] = p
      /\ \A d \in DOMAIN fresh : fresh'[d] = fresh[d]
      /\ header' = header /\ mem' = mem
  BY <1>1 DEF Allocated
<1>3. /\ Held' = Held \cup {b} /\ b \notin Held /\ Place(b)' = p
      /\ \A d \in Held : Place(d)' = Place(d)
  BY <1>1, <1>2 DEF Held, Place, Loaded
<1>4. /\ gpuCachingPointer \in Nat /\ gpuCachingPointer <= GpuShare
      /\ cpuCachingPointer \in Nat
  BY Shares DEF IInv, TypeOK
<1>5. SizeOf(b) \in Nat /\ Padded(SizeOf(b)) \in Nat /\ Padded(SizeOf(b)) > SizeOf(b)
  BY BufferFacts, PaddedGrows
<1>6. \A d \in Held : Place(d) \in Int /\ SizeOf(d) \in Nat
  BY PlaceFacts, BufferFacts, Shares
<1>7. \A d \in Held :
         \/ 0 <= Place(d) /\ Place(d) + SizeOf(d) <= gpuCachingPointer
         \/ GpuShare <= Place(d) /\ Place(d) + SizeOf(d) <= GpuShare + cpuCachingPointer
  BY DEF IInv, BelowPointers
<1>8. BelowPointers'
  <2>1. ASSUME NEW d \in Held
        PROVE  \/ 0 <= Place(d) /\ Place(d) + SizeOf(d) <= gpuCachingPointer'
               \/ /\ GpuShare <= Place(d)
                  /\ Place(d) + SizeOf(d) <= GpuShare + cpuCachingPointer'
    BY <1>4, <1>5, <1>6, <1>7, Shares
  <2>2. \/ 0 <= p /\ p + SizeOf(b) <= gpuCachingPointer'
        \/ GpuShare <= p /\ p + SizeOf(b) <= GpuShare + cpuCachingPointer'
    BY <1>4, <1>5, Shares
  <2>3. QED
    BY <1>3, <2>1, <2>2 DEF BelowPointers
<1>9. HeldApart'
  <2>1. \A d \in Held : Place(d) + SizeOf(d) <= p \/ p + SizeOf(b) <= Place(d)
    BY <1>4, <1>5, <1>6, <1>7, Shares
  <2>2. QED
    BY <1>3, <2>1 DEF IInv, HeldApart
<1>10. CacheCoherent'
  BY <1>2 DEF IInv, CacheCoherent, Loaded
<1>11. QED
  BY <1>8, <1>9, <1>10

\* The headers a load fills in: what it allocated, as it read the table.
LEMMA LoadedHeader ==
    ASSUME IInv, LoadColumns, NEW c \in missing
    PROVE  /\ c \in Column /\ Loaded(c)' /\ header'[c].ver = snapshot[TableOf[c]]
           /\ Leads(c, header'[c])
           /\ \A b \in BuffersOf({c}) : b \in DOMAIN fresh /\ header'[c].start[b[2]] = fresh[b]
<1>1. c \in Column /\ TableOf[c] \in Table /\ snapshot[TableOf[c]] \in Nat
  BY TableCacheAssumption DEF IInv, TypeOK
<1>2. header'[c] = [state |-> "loaded",
                    start |-> [i \in DOMAIN BufferSize[c] |-> fresh[<<c, i>>]],
                    ver |-> snapshot[TableOf[c]]]
  BY <1>1 DEF LoadColumns
<1>3. \A i \in 1 .. Len(BufferSize[c]) : <<c, i>> \in Held /\ <<c, i>> \in DOMAIN fresh
  <2>1. \A i \in 1 .. Len(BufferSize[c]) : <<c, i>> \in BuffersOf(missing)
    BY <1>1, BufferFacts DEF BuffersOf
  <2>2. QED
    BY <2>1 DEF LoadColumns, Unallocated, Held, BuffersOf
<1>4. Leads(c, header'[c])
  <2> DEFINE start == [i \in DOMAIN BufferSize[c] |-> fresh[<<c, i>>]]
  <2>1. \A i \in 1 .. Len(BufferSize[c]) :
           fresh[<<c, i>>] \in 0 .. CacheSize /\ fresh[<<c, i>>] + BufferSize[c][i] <= CacheSize
    <3> SUFFICES ASSUME NEW i \in 1 .. Len(BufferSize[c])
                 PROVE  /\ fresh[<<c, i>>] \in 0 .. CacheSize
                        /\ fresh[<<c, i>>] + BufferSize[c][i] <= CacheSize
      OBVIOUS
    <3>1. Place(<<c, i>>) = fresh[<<c, i>>] /\ SizeOf(<<c, i>>) = BufferSize[c][i]
      BY <1>1, <1>3, BufferFacts DEF Place
    <3>2. BufferSize[c][i] \in Nat /\ fresh[<<c, i>>] \in 0 .. CacheSize
      BY <1>1, <1>3, <3>1, BufferFacts, PlaceFacts
    <3>3. \/ Place(<<c, i>>) + SizeOf(<<c, i>>) <= gpuCachingPointer
          \/ Place(<<c, i>>) + SizeOf(<<c, i>>) <= GpuShare + cpuCachingPointer
      BY <1>3 DEF IInv, BelowPointers
    <3>4. gpuCachingPointer \in 0 .. GpuShare /\ cpuCachingPointer \in 0 .. CpuShare
      BY DEF IInv, TypeOK
    <3>5. gpuCachingPointer <= CacheSize /\ GpuShare + cpuCachingPointer <= CacheSize
      BY <3>4, Shares
    <3>6. fresh[<<c, i>>] + BufferSize[c][i] <= gpuCachingPointer
            \/ fresh[<<c, i>>] + BufferSize[c][i] <= GpuShare + cpuCachingPointer
      BY <3>1, <3>3
    <3>7. fresh[<<c, i>>] + BufferSize[c][i] \in Int
      BY <3>2
    <3>8. QED
      BY <3>2, <3>4, <3>5, <3>6, <3>7, Shares
  <2>2. /\ DOMAIN start = 1 .. Len(BufferSize[c])
        /\ \A i \in 1 .. Len(BufferSize[c]) : start[i] = fresh[<<c, i>>]
    BY <1>1, BufferFacts
  <2>3. start \in Seq(0 .. CacheSize)
    <3>1. start = [i \in 1 .. Len(BufferSize[c]) |-> fresh[<<c, i>>]]
      BY <1>1, BufferFacts
    <3>2. start \in [1 .. Len(BufferSize[c]) -> 0 .. CacheSize]
      BY <2>1, <3>1
    <3> HIDE DEF start
    <3>3. QED
      BY <1>1, <3>2, BufferFacts, SequencesAreFunctions
  <2> HIDE DEF start
  <2>4. QED
    <3>1. header'[c] = [state |-> "loaded", start |-> start, ver |-> snapshot[TableOf[c]]]
      BY <1>2 DEF start
    <3>2. \A i \in DOMAIN start : start[i] + BufferSize[c][i] <= CacheSize
      BY <2>1, <2>2
    <3>3. header'[c] \in Headers
      BY <1>1, <2>3, <3>1 DEF Headers
    <3>4. header'[c].state = "loaded" /\ header'[c].start = start
      BY <3>1
    <3>5. QED
      BY <2>2, <3>2, <3>3, <3>4 DEF Leads
<1>5. ASSUME NEW b \in BuffersOf({c})
      PROVE  b \in DOMAIN fresh /\ header'[c].start[b[2]] = fresh[b]
  <2>1. b[1] = c /\ b[2] \in 1 .. Len(BufferSize[c]) /\ b = <<c, b[2]>>
    BY BufferFacts DEF BuffersOf
  <2>2. header'[c].start[b[2]] = fresh[<<c, b[2]>>]
    BY <1>1, <1>2, <2>1, BufferFacts
  <2>3. QED
    BY <1>3, <2>1, <2>2
<1>6. QED
  BY <1>1, <1>2, <1>4, <1>5 DEF Loaded

\* A load writes its own buffers and no byte of another column.
LEMMA LoadKeepsApart ==
    ASSUME IInv, LoadColumns
    PROVE  BelowPointers' /\ HeldApart' /\ CacheCoherent'
<1>1. /\ DOMAIN fresh' = {} /\ gpuCachingPointer' = gpuCachingPointer
      /\ cpuCachingPointer' = cpuCachingPointer
      /\ \A c \in Column \ missing : header'[c] = header[c]
  BY DEF LoadColumns
<1>2. ASSUME NEW b \in Held' PROVE b \in Held /\ Place(b)' = Place(b)
  <2>1. b \in Buffers /\ b[1] \in Column /\ Loaded(b[1])' /\ b \in BuffersOf({b[1]})
    BY <1>1, BufferFacts DEF Held, BuffersOf
  <2>2. CASE b[1] \in missing
    BY <1>1, <2>1, <2>2, LoadedHeader DEF Held, Place
  <2>3. CASE b[1] \notin missing
    <3>1. Loaded(b[1]) /\ header'[b[1]] = header[b[1]] /\ b \notin DOMAIN fresh
      BY <1>1, <2>1, <2>3, FreshIsNotLoaded DEF Loaded, IInv
    <3>2. QED
      BY <1>1, <2>1, <3>1 DEF Held, Place
  <2>4. QED
    BY <2>2, <2>3
<1>3. BelowPointers' /\ HeldApart'
  BY <1>1, <1>2 DEF IInv, BelowPointers, HeldApart
<1>4. ASSUME NEW c \in Column, Loaded(c)', NEW b \in BuffersOf({c}),
             NEW a \in Bytes(b, header'[c].start[b[2]])
      PROVE  mem'[a] = <<b, header'[c].ver>>
  <2>1. b \in Buffers /\ b[1] = c /\ b \in Held'
    BY <1>4 DEF BuffersOf, Held
  <2>2. b \in Held /\ a \in Bytes(b, Place(b))
    <3>1. Place(b)' = header'[c].start[b[2]]
      BY <1>1, <2>1 DEF Place
    <3>2. QED
      BY <1>2, <2>1, <3>1
  <2>3. a \in DOMAIN mem
    <3>1. /\ Place(b) \in 0 .. CacheSize /\ SizeOf(b) \in Nat
          /\ mem \in [0 .. CacheSize - 1 -> Contents]
      BY <2>1, <2>2, PlaceFacts, BufferFacts DEF IInv, TypeOK
    <3>2. Place(b) + SizeOf(b) <= CacheSize
      BY <2>2, <3>1, Shares DEF IInv, BelowPointers, TypeOK
    <3>3. QED
      BY <2>2, <3>1, <3>2, Shares DEF Bytes
  <2>4. \A d \in DOMAIN fresh : a \in Bytes(d, fresh[d]) => d = b
    <3>1. \A d \in DOMAIN fresh : d \in Held /\ Place(d) = fresh[d]
      BY DEF IInv, TypeOK, Held, Place
    <3>2. QED
      BY <2>2, <3>1, PlaceFacts
  <2>5. CASE c \in missing
    <3>1. b \in DOMAIN fresh /\ a \in Bytes(b, fresh[b])
      BY <2>5, <1>4, LoadedHeader
    <3>2. (CHOOSE d \in DOMAIN fresh : a \in Bytes(d, fresh[d])) = b
      BY <2>4, <3>1
    <3>3. mem'[a] = <<b, snapshot[TableOf[b[1]]]>>
      BY <2>3, <3>1, <3>2 DEF LoadColumns
    <3>4. QED
      BY <2>1, <2>5, <3>3, LoadedHeader
  <2>6. CASE c \notin missing
    <3>1. header'[c] = header[c] /\ Loaded(c) /\ b \notin DOMAIN fresh
      BY <1>1, <1>4, <2>1, <2>6, FreshIsNotLoaded DEF Loaded, IInv
    <3>2. ~ \E d \in DOMAIN fresh : a \in Bytes(d, fresh[d])
      BY <2>4, <3>1
    <3>3. mem'[a] = mem[a]
      BY <2>3, <3>2 DEF LoadColumns
    <3>4. QED
      BY <1>4, <3>1, <3>3 DEF IInv, CacheCoherent
  <2>7. QED
    BY <2>5, <2>6
<1>5. CacheCoherent'
  BY <1>4 DEF CacheCoherent, BuffersOf, Bytes, SizeOf, Buffers
<1>6. QED
  BY <1>3, <1>5

\* Every step, in or out of a load, leaves the owners apart and the loaded bytes alone.
LEMMA NextKeepsApart ==
    ASSUME IInv, [Next]_vars
    PROVE  BelowPointers' /\ HeldApart' /\ CacheCoherent'
<1> USE DEF cacheVars, loadVars
<1>0. phase # "allocate" => DOMAIN fresh = {}
  BY DEF IInv, LoadUnderWay
<1>1. ASSUME NEW q \in Queries, Submit(q) PROVE BelowPointers' /\ HeldApart' /\ CacheCoherent'
  BY <1>1, MemoryStays DEF Submit
<1>2. CASE AllCached \/ TakeViews \/ Finish \/ Return
  BY <1>2, MemoryStays DEF AllCached, TakeViews, Finish, Return
<1>3. CASE TooLarge
  BY <1>3, MemoryStays DEF TooLarge, Throw
<1>4. CASE Evict
  <2>1. phase = "check" /\ fresh' = fresh /\ mem' = mem
    BY <1>4 DEF Evict, Register
  <2>2. \A c \in Column : ~ Loaded(c)'
    BY <1>4, HeaderKinds DEF Evict, Loaded
  <2>3. QED
    BY <1>0, <2>1, <2>2, RegisterKeepsApart
<1>5. CASE Extend
  <2>1. /\ phase = "check" /\ fresh' = fresh /\ mem' = mem
        /\ gpuCachingPointer' = gpuCachingPointer /\ cpuCachingPointer' = cpuCachingPointer
    BY <1>5 DEF Extend, Register
  <2>2. \A c \in Column : Loaded(c)' => Loaded(c) /\ header'[c] = header[c]
    BY <1>5, HeaderKinds DEF Extend, Loaded
  <2>3. QED
    BY <1>0, <2>1, <2>2, RegisterKeepsApart
<1>6. ASSUME NEW b \in Buffers, AllocateOnGpu(b)
      PROVE  BelowPointers' /\ HeldApart' /\ CacheCoherent'
  <2>1. gpuCachingPointer \in Int
    BY DEF IInv, TypeOK
  <2>2. QED
    BY <1>6, <2>1, AllocateKeepsApart DEF AllocateOnGpu
<1>7. ASSUME NEW b \in Buffers, AllocateOnCpu(b)
      PROVE  BelowPointers' /\ HeldApart' /\ CacheCoherent'
  <2>1. GpuShare + cpuCachingPointer \in Int
    BY Shares DEF IInv, TypeOK
  <2>2. QED
    BY <1>7, <2>1, AllocateKeepsApart DEF AllocateOnCpu
<1>8. ASSUME NEW b \in Buffers, OutOfCachingMemory(b)
      PROVE  BelowPointers' /\ HeldApart' /\ CacheCoherent'
  BY <1>8, MemoryStays DEF OutOfCachingMemory, AbandonLoad, Throw
<1>9. CASE OutOfCpuMemory
  BY <1>9, MemoryStays DEF OutOfCpuMemory, AbandonLoad, Throw
<1>10. CASE LoadColumns
  BY <1>10, LoadKeepsApart
<1>11. ASSUME NEW t \in Table, UpdateTable(t)
       PROVE  BelowPointers' /\ HeldApart' /\ CacheCoherent'
  BY <1>11, MemoryStays DEF UpdateTable
<1>12. CASE UNCHANGED vars
  BY <1>12, MemoryStays DEF vars
<1>13. QED
  BY <1>1, <1>2, <1>3, <1>4, <1>5, <1>6, <1>7, <1>8, <1>9, <1>10, <1>11, <1>12
     DEF Next, Scan

-----------------------------------------------------------------------------
(***************************************************************************)
(* Which columns a load registers, and which it leaves behind.             *)
(***************************************************************************)
LEMMA NextKeepsLoads ==
    ASSUME IInv, [Next]_vars
    PROVE  ScanUnderWay' /\ LoadUnderWay' /\ HolesExplained'
<1> USE DEF cacheVars, loadVars, queryVars
<1> SUFFICES ASSUME ScanUnderWay, LoadUnderWay, HolesExplained
             PROVE  ScanUnderWay' /\ LoadUnderWay' /\ HolesExplained'
  BY DEF IInv
<1> USE DEF LoadUnderWay, HolesExplained
<1>1. ASSUME NEW q \in Queries, Submit(q) PROVE ScanUnderWay' /\ LoadUnderWay' /\ HolesExplained'
  <2>1. 1 \in 1 .. Len(q)
    BY TableCacheAssumption
  <2>2. QED
    BY <1>1, <2>1 DEF Submit, ScanUnderWay
<1>2. CASE AllCached \/ Finish \/ Return
  BY <1>2 DEF AllCached, Finish, Return, ScanUnderWay
<1>3. CASE TooLarge
  <2>1. /\ phase = "check" /\ phase' = "answered" /\ missing' = {} /\ DOMAIN fresh' = {}
        /\ header' = header /\ failedLoad' = failedLoad
    BY <1>3 DEF TooLarge, Throw
  <2>2. QED
    BY <2>1 DEF ScanUnderWay
<1>4. CASE Evict
  <2>1. ScanCols \subseteq Column
    BY <1>4, ScanFacts DEF Evict, ScanUnderWay
  <2>2. /\ phase = "check" /\ phase' = "allocate" /\ missing' = ScanCols /\ fresh' = fresh
        /\ query' = query /\ at' = at
        /\ header' = [c \in Column |-> IF c \in ScanCols THEN EmptyHeader ELSE NoHeader]
    BY <1>4 DEF Evict, Register
  <2>3. QED
    BY <2>1, <2>2, HeaderKinds DEF ScanUnderWay
<1>5. CASE Extend
  <2>1. Missing \subseteq Column
    BY <1>5, ScanFacts DEF Extend, ScanUnderWay
  <2>2. /\ phase = "check" /\ phase' = "allocate" /\ missing' = Missing /\ fresh' = fresh
        /\ query' = query /\ at' = at /\ failedLoad' = failedLoad
        /\ header' = [c \in Column |-> IF c \in Missing THEN EmptyHeader ELSE header[c]]
    BY <1>5 DEF Extend, Register
  <2>3. QED
    BY <2>1, <2>2 DEF ScanUnderWay
<1>6. ASSUME NEW b \in Buffers, NEW p, IsNextBuffer(b), Allocated(b, p)
      PROVE  ScanUnderWay' /\ LoadUnderWay' /\ HolesExplained'
  <2>1. /\ b[1] \in missing /\ missing' = missing /\ DOMAIN fresh' = DOMAIN fresh \cup {b}
        /\ header' = header /\ failedLoad' = failedLoad
        /\ query' = query /\ at' = at /\ phase' = phase
    BY <1>6 DEF IsNextBuffer, Unallocated, BuffersOf, Allocated
  <2>2. QED
    BY <2>1 DEF ScanUnderWay
<1>7. CASE \E b \in Buffers : AllocateOnGpu(b) \/ AllocateOnCpu(b)
  BY <1>6, <1>7 DEF AllocateOnGpu, AllocateOnCpu
<1>8. CASE (\E b \in Buffers : OutOfCachingMemory(b)) \/ OutOfCpuMemory
  <2>1. /\ phase' = "answered" /\ missing' = {} /\ DOMAIN fresh' = {}
        /\ header' = header /\ failedLoad'
    BY <1>8 DEF OutOfCachingMemory, OutOfCpuMemory, AbandonLoad, Throw
  <2>2. QED
    BY <2>1 DEF ScanUnderWay
<1>9. CASE LoadColumns
  <2>1. /\ phase = "allocate" /\ phase' = "view" /\ missing' = {} /\ DOMAIN fresh' = {}
        /\ query' = query /\ at' = at /\ failedLoad' = failedLoad
        /\ \A c \in Column \ missing : header'[c] = header[c]
    BY <1>9 DEF LoadColumns
  <2>2. \A c \in missing : header'[c] # EmptyHeader
    BY <1>9, LoadedHeader, HeaderKinds DEF Loaded
  <2>3. QED
    BY <2>1, <2>2 DEF ScanUnderWay
<1>10. CASE TakeViews
  <2>1. /\ phase = "view" /\ at' = at + 1 /\ phase' = (IF at = Len(query) THEN "finish" ELSE "check")
        /\ query' = query /\ missing' = missing /\ fresh' = fresh /\ header' = header
        /\ failedLoad' = failedLoad
    BY <1>10 DEF TakeViews
  <2>2. query \in Queries /\ at \in 1 .. Len(query) /\ Len(query) \in Nat
    BY <2>1, TableCacheAssumption DEF ScanUnderWay
  <2>3. ScanUnderWay'
    BY <2>1, <2>2 DEF ScanUnderWay
  <2>4. QED
    BY <2>1, <2>3
<1>11. CASE \E t \in Table : UpdateTable(t)
  BY <1>11 DEF UpdateTable, ScanUnderWay
<1>12. CASE UNCHANGED vars
  BY <1>12 DEF vars, ScanUnderWay
<1>13. QED
  BY <1>1, <1>2, <1>3, <1>4, <1>5, <1>7, <1>8, <1>9, <1>10, <1>11, <1>12 DEF Next, Scan

-----------------------------------------------------------------------------
(***************************************************************************)
(* Types, and where the headers lead.                                      *)
(***************************************************************************)
\* Bytes of a buffer that ends within a region.
LEMMA InRegion ==
    ASSUME NEW size \in Nat, NEW from \in 0 .. size, NEW n \in Nat, from + n <= size,
           NEW a \in from .. from + n - 1
    PROVE  a \in 0 .. size - 1
  OBVIOUS

\* What the operators read behind a view: bytes of the caching region only.
LEMMA ReadIsTyped ==
    ASSUME IInv, NEW v \in views
    PROVE  Read(v) \in Seen
<1>1. v.col \in Column /\ v.header \in Headers /\ Leads(v.col, v.header)
  BY DEF IInv, TypeOK, HeadersLead
<1>2. ASSUME NEW i \in DOMAIN v.header.start, NEW a \in Bytes(<<v.col, i>>, v.header.start[i])
      PROVE  mem[a] \in Contents
  <2>1. v.header.state = "loaded"
    BY <1>1, <1>2 DEF Leads
  <2>2. /\ v.header.start \in Seq(0 .. CacheSize) /\ i \in 1 .. Len(BufferSize[v.col])
        /\ v.header.start[i] + BufferSize[v.col][i] <= CacheSize
    BY <1>1, <1>2, <2>1 DEF Leads, Headers
  <2>3. v.header.start[i] \in 0 .. CacheSize
    BY <1>2, <2>2, SequencesAreFunctions
  <2>4. SizeOf(<<v.col, i>>) = BufferSize[v.col][i] /\ SizeOf(<<v.col, i>>) \in Nat
    BY <1>1, <2>2, BufferFacts
  <2>5. a \in v.header.start[i] .. v.header.start[i] + BufferSize[v.col][i] - 1
    BY <1>2, <2>4 DEF Bytes
  <2>6. BufferSize[v.col][i] \in Nat
    BY <2>4
  <2>7. a \in 0 .. CacheSize - 1
    BY <2>2, <2>3, <2>5, <2>6, InRegion, Shares
  <2>8. QED
    BY <2>7 DEF IInv, TypeOK
<1>3. ASSUME NEW x \in Read(v).bytes PROVE x \in Contents
  <2>1. Read(v).bytes =
          UNION {{mem[a] : a \in Bytes(<<v.col, i>>, v.header.start[i])} : i \in DOMAIN v.header.start}
    BY DEF Read
  <2>2. PICK i \in DOMAIN v.header.start : x \in {mem[a] : a \in Bytes(<<v.col, i>>, v.header.start[i])}
    BY <1>3, <2>1
  <2>3. QED
    BY <1>2, <2>2
<1>4. QED
  BY <1>1, <1>3 DEF Read, Seen, Headers

LEMMA AllocatedIsTyped ==
    ASSUME TypeOK, NEW b \in Buffers, NEW p \in 0 .. CacheSize, Allocated(b, p),
           gpuCachingPointer' \in 0 .. GpuShare, cpuCachingPointer' \in 0 .. CpuShare
    PROVE  TypeOK'
<1>1. DOMAIN fresh' \subseteq Buffers /\ \A d \in DOMAIN fresh' : fresh'[d] \in 0 .. CacheSize
  BY DEF Allocated, TypeOK
<1>2. QED
  BY <1>1 DEF Allocated, TypeOK, queryVars

LEMMA NextTyped ==
    ASSUME IInv, [Next]_vars
    PROVE  TypeOK'
<1> USE DEF cacheVars, loadVars, queryVars
<1>1. TypeOK /\ ScanUnderWay /\ HeadersLead
  BY DEF IInv
<1>2. ASSUME NEW q \in Queries, Submit(q) PROVE TypeOK'
  BY <1>1, <1>2 DEF Submit, TypeOK
<1>3. CASE AllCached
  BY <1>1, <1>3 DEF AllCached, TypeOK
<1>4. ASSUME Throw, gpuCachingPointer' = gpuCachingPointer,
             cpuCachingPointer' = cpuCachingPointer, header' = header, mem' = mem,
             failedLoad' \in BOOLEAN
      PROVE  TypeOK'
  <2>1. DOMAIN fresh' = {}
    BY <1>4 DEF Throw
  <2>2. QED
    BY <1>1, <1>4, <2>1 DEF Throw, TypeOK, ByDuckDB
<1>5. CASE TooLarge
  BY <1>1, <1>4, <1>5 DEF TooLarge, TypeOK
<1>6. CASE (\E b \in Buffers : OutOfCachingMemory(b)) \/ OutOfCpuMemory
  BY <1>4, <1>6 DEF OutOfCachingMemory, OutOfCpuMemory, AbandonLoad
<1>7. CASE Evict
  <2>1. ScanCols \subseteq Column
    BY <1>1, <1>7, ScanFacts DEF Evict, ScanUnderWay
  <2>2. header' \in [Column -> Headers]
    BY <1>7, HeaderKinds DEF Evict, Leads
  <2>3. lostViews' \in BOOLEAN /\ failedLoad' \in BOOLEAN
    <3>1. lostViews' = (lostViews \/ views # {}) /\ failedLoad' = FALSE
      BY <1>7 DEF Evict
    <3>2. QED
      BY <3>1, Zenon
  <2>4. gpuCachingPointer' \in 0 .. GpuShare /\ cpuCachingPointer' \in 0 .. CpuShare
    BY <1>7, Shares DEF Evict
  <2>5. QED
    BY <1>1, <1>7, <2>1, <2>2, <2>3, <2>4 DEF Evict, Register, TypeOK
<1>8. CASE Extend
  <2>1. Missing \subseteq Column
    BY <1>1, <1>8, ScanFacts DEF Extend, ScanUnderWay
  <2>2. header' \in [Column -> Headers]
    BY <1>1, <1>8, HeaderKinds DEF Extend, Leads, TypeOK
  <2>3. QED
    BY <1>1, <1>8, <2>1, <2>2 DEF Extend, Register, TypeOK
<1>9. ASSUME NEW b \in Buffers, AllocateOnGpu(b) PROVE TypeOK'
  <2>1. SizeOf(b) \in Nat /\ Padded(SizeOf(b)) \in Nat
    BY BufferFacts, PaddedGrows
  <2>2. /\ gpuCachingPointer \in 0 .. CacheSize /\ gpuCachingPointer' \in 0 .. GpuShare
        /\ cpuCachingPointer' \in 0 .. CpuShare
    BY <1>1, <1>9, <2>1, Shares DEF AllocateOnGpu, TypeOK
  <2>3. QED
    BY <1>1, <1>9, <2>2, AllocatedIsTyped DEF AllocateOnGpu
<1>10. ASSUME NEW b \in Buffers, AllocateOnCpu(b) PROVE TypeOK'
  <2>1. SizeOf(b) \in Nat /\ Padded(SizeOf(b)) \in Nat
    BY BufferFacts, PaddedGrows
  <2>2. /\ GpuShare + cpuCachingPointer \in 0 .. CacheSize /\ gpuCachingPointer' \in 0 .. GpuShare
        /\ cpuCachingPointer' \in 0 .. CpuShare
    BY <1>1, <1>10, <2>1, Shares DEF AllocateOnCpu, TypeOK
  <2>3. QED
    BY <1>1, <1>10, <2>2, AllocatedIsTyped DEF AllocateOnCpu
<1>11. CASE LoadColumns
  <2>1. header' \in [Column -> Headers]
    <3>1. header' = [c \in Column |-> header'[c]]
      BY <1>11 DEF LoadColumns
    <3>2. \A c \in Column : header'[c] \in Headers
      <4>1. ASSUME NEW c \in missing PROVE header'[c] \in Headers
        BY <1>11, <4>1, LoadedHeader DEF Leads
      <4>2. ASSUME NEW c \in Column \ missing PROVE header'[c] \in Headers
        BY <1>1, <1>11 DEF LoadColumns, TypeOK
      <4>3. QED
        BY <4>1, <4>2
    <3>3. QED
      BY <3>1, <3>2
  <2>2. mem' \in [0 .. CacheSize - 1 -> Contents]
    <3>1. \A b \in DOMAIN fresh : <<b, snapshot[TableOf[b[1]]]>> \in Contents
      BY <1>1, BufferFacts, TableCacheAssumption DEF TypeOK, Contents
    <3>2. ASSUME NEW a \in 0 .. CacheSize - 1 PROVE mem'[a] \in Contents
      <4>1. CASE \E b \in DOMAIN fresh : a \in Bytes(b, fresh[b])
        BY <1>1, <1>11, <3>1, <4>1 DEF LoadColumns, TypeOK
      <4>2. CASE ~ \E b \in DOMAIN fresh : a \in Bytes(b, fresh[b])
        BY <1>1, <1>11, <4>2 DEF LoadColumns, TypeOK
      <4>3. QED
        BY <4>1, <4>2
    <3>3. mem' = [a \in 0 .. CacheSize - 1 |-> mem'[a]]
      BY <1>1, <1>11 DEF LoadColumns, TypeOK
    <3>4. QED
      BY <3>2, <3>3
  <2>3. DOMAIN fresh' = {}
    BY <1>11 DEF LoadColumns
  <2>4. QED
    BY <1>1, <1>11, <2>1, <2>2, <2>3 DEF LoadColumns, TypeOK
<1>12. CASE TakeViews
  <2>1. ScanCols \subseteq Column
    BY <1>1, <1>12, ScanFacts DEF TakeViews, ScanUnderWay
  <2>2. views' \subseteq [col : Column, header : Headers]
    BY <1>1, <1>12, <2>1 DEF TakeViews, TypeOK
  <2>3. phase' \in {"finish", "check"} /\ at' \in Nat
    BY <1>1, <1>12 DEF TakeViews, TypeOK
  <2>4. QED
    BY <1>1, <1>12, <2>2, <2>3 DEF TakeViews, TypeOK
<1>13. CASE Finish
  <2>1. answer'.by = "gpu" /\ answer'.cols \subseteq Seen
    BY <1>13, ReadIsTyped DEF Finish
  <2>2. QED
    BY <1>1, <1>13, <2>1 DEF Finish, TypeOK
<1>14. CASE Return
  BY <1>1, <1>14 DEF Return, TypeOK, NoAnswer
<1>15. ASSUME NEW t \in Table, UpdateTable(t) PROVE TypeOK'
  BY <1>1, <1>15 DEF UpdateTable, TypeOK
<1>16. CASE UNCHANGED vars
  BY <1>1, <1>16 DEF vars, TypeOK
<1>17. QED
  BY <1>2, <1>3, <1>5, <1>6, <1>7, <1>8, <1>9, <1>10, <1>11, <1>12, <1>13, <1>14, <1>15, <1>16
     DEF Next, Scan

LEMMA NextHeadersLead ==
    ASSUME IInv, [Next]_vars
    PROVE  HeadersLead'
<1> USE DEF cacheVars, loadVars, queryVars
<1>1. /\ \A c \in Column : Leads(c, header[c])
      /\ \A v \in views : Leads(v.col, v.header)
      /\ ScanUnderWay
  BY DEF IInv, HeadersLead
<1>2. CASE LoadColumns
  BY <1>1, <1>2, LoadedHeader DEF LoadColumns, HeadersLead
<1>3. CASE TakeViews
  <2>1. ScanCols \subseteq Column /\ header' = header
    BY <1>1, <1>3, ScanFacts DEF TakeViews, ScanUnderWay
  <2>2. \A v \in views' : Leads(v.col, v.header)
    BY <1>1, <1>3, <2>1 DEF TakeViews
  <2>3. QED
    BY <1>1, <2>1, <2>2 DEF HeadersLead
<1>4. CASE Evict
  BY <1>1, <1>4, HeaderKinds DEF Evict, Register, HeadersLead
<1>5. CASE Extend
  BY <1>1, <1>5, HeaderKinds DEF Extend, Register, HeadersLead
<1>6. CASE (\E q \in Queries : Submit(q)) \/ Return
  BY <1>1, <1>6 DEF Submit, Return, HeadersLead
<1>7. CASE AllCached \/ TooLarge \/ OutOfCpuMemory \/ Finish
  BY <1>1, <1>7 DEF AllCached, TooLarge, OutOfCpuMemory, AbandonLoad, Throw, Finish, HeadersLead
<1>8. CASE \E b \in Buffers : AllocateOnGpu(b) \/ AllocateOnCpu(b) \/ OutOfCachingMemory(b)
  BY <1>1, <1>8 DEF AllocateOnGpu, AllocateOnCpu, Allocated, OutOfCachingMemory,
                    AbandonLoad, Throw, HeadersLead
<1>9. CASE (\E t \in Table : UpdateTable(t)) \/ UNCHANGED vars
  BY <1>1, <1>9 DEF UpdateTable, vars, HeadersLead
<1>10. QED
  BY <1>2, <1>3, <1>4, <1>5, <1>6, <1>7, <1>8, <1>9 DEF Next, Scan

-----------------------------------------------------------------------------
(***************************************************************************)
(* What the client gets.                                                   *)
(***************************************************************************)
\* Behind a view that is still a header of the cache lie the bytes the load put there.
LEMMA ViewShowsLoad ==
    ASSUME IInv, NEW v \in views, v.header.state = "loaded", header[v.col] = v.header
    PROVE  Read(v).bytes = BytesOf(v.col, v.header.ver)
<1> DEFINE c == v.col
           start == v.header.start
<1>1. c \in Column /\ Loaded(c) /\ v.header \in Headers /\ Leads(c, v.header)
  BY DEF IInv, TypeOK, HeadersLead, Loaded
<1>2. DOMAIN start = 1 .. Len(BufferSize[c]) /\ start \in Seq(0 .. CacheSize)
  BY <1>1 DEF Leads, Headers
<1>3. \A i \in DOMAIN start : start[i] \in 0 .. CacheSize
  BY <1>2, SequencesAreFunctions
<1>4. \A i \in DOMAIN start : <<c, i>> \in BuffersOf({c}) /\ SizeOf(<<c, i>>) \in Nat
  BY <1>1, <1>2, BufferFacts DEF BuffersOf
<1>5. \A i \in DOMAIN start : \A a \in Bytes(<<c, i>>, start[i]) :
         mem[a] = <<<<c, i>>, v.header.ver>>
  BY <1>1, <1>4 DEF IInv, CacheCoherent
<1>6. Read(v).bytes = UNION {{mem[a] : a \in Bytes(<<c, i>>, start[i])} : i \in DOMAIN start}
  BY DEF Read
<1>7. ASSUME NEW x \in Read(v).bytes PROVE x \in BytesOf(c, v.header.ver)
  <2>1. PICK i \in DOMAIN start : \E a \in Bytes(<<c, i>>, start[i]) : x = mem[a]
    BY <1>6, <1>7
  <2>2. PICK a \in Bytes(<<c, i>>, start[i]) : x = mem[a]
    BY <2>1
  <2>3. SizeOf(<<c, i>>) > 0
    BY <1>3, <1>4, <2>2, Shares DEF Bytes
  <2>4. QED
    BY <1>4, <1>5, <2>2, <2>3 DEF BytesOf
<1>8. ASSUME NEW x \in BytesOf(c, v.header.ver) PROVE x \in Read(v).bytes
  <2>1. PICK b \in BuffersOf({c}) : SizeOf(b) > 0 /\ x = <<b, v.header.ver>>
    BY DEF BytesOf
  <2>2. b = <<c, b[2]>> /\ b[2] \in DOMAIN start
    BY <1>2, <2>1, BufferFacts DEF BuffersOf
  <2>3. start[b[2]] \in Bytes(<<c, b[2]>>, start[b[2]])
    BY <1>3, <1>4, <2>1, <2>2, Shares DEF Bytes
  <2>4. mem[start[b[2]]] = x
    BY <1>5, <2>1, <2>2, <2>3
  <2>5. QED
    BY <1>6, <2>2, <2>3, <2>4
<1>9. QED
  BY <1>7, <1>8

LEMMA NextViewsCurrent ==
    ASSUME IInv, [Next]_vars
    PROVE  ViewsCurrent'
<1> USE DEF cacheVars, loadVars, queryVars
<1>1. ViewsCurrent /\ ScanUnderWay /\ LoadUnderWay /\ views \subseteq [col : Column, header : Headers]
  BY DEF IInv, TypeOK
<1>2. ASSUME views' = views, lostViews' = lostViews,
             \A c \in Column : Loaded(c) => header'[c] = header[c]
      PROVE  ViewsCurrent'
  BY <1>1, <1>2 DEF ViewsCurrent, Loaded
<1>3. CASE LoadColumns
  <2>1. \A c \in Column : Loaded(c) => header'[c] = header[c]
    BY <1>1, <1>3, HeaderKinds DEF LoadColumns, LoadUnderWay, Loaded
  <2>2. QED
    BY <1>2, <1>3, <2>1 DEF LoadColumns
<1>4. CASE TakeViews
  <2>1. header' = header /\ lostViews' = lostViews
    BY <1>4 DEF TakeViews
  <2>2. \A v \in views' : v \in views \/ header[v.col] = v.header
    BY <1>4 DEF TakeViews
  <2>3. QED
    BY <1>1, <2>1, <2>2 DEF ViewsCurrent
<1>5. CASE Evict
  BY <1>5 DEF Evict, Register, ViewsCurrent
<1>6. CASE Extend
  <2>1. \A c \in Column : Loaded(c) => header'[c] = header[c]
    BY <1>6, HeaderKinds DEF Extend, Missing, Registered, Loaded
  <2>2. QED
    BY <1>2, <1>6, <2>1 DEF Extend, Register
<1>7. CASE (\E q \in Queries : Submit(q)) \/ Return
  BY <1>7 DEF Submit, Return, ViewsCurrent
<1>8. CASE AllCached \/ TooLarge \/ OutOfCpuMemory \/ Finish
  BY <1>2, <1>8 DEF AllCached, TooLarge, OutOfCpuMemory, AbandonLoad, Throw, Finish
<1>9. CASE \E b \in Buffers : AllocateOnGpu(b) \/ AllocateOnCpu(b) \/ OutOfCachingMemory(b)
  BY <1>2, <1>9 DEF AllocateOnGpu, AllocateOnCpu, Allocated, OutOfCachingMemory,
                    AbandonLoad, Throw
<1>10. CASE (\E t \in Table : UpdateTable(t)) \/ UNCHANGED vars
  BY <1>2, <1>10 DEF UpdateTable, vars
<1>11. QED
  BY <1>3, <1>4, <1>5, <1>6, <1>7, <1>8, <1>9, <1>10 DEF Next, Scan

LEMMA NextAnswers ==
    ASSUME IInv, [Next]_vars
    PROVE  NoAnswerYet' /\ GpuAnswerIsWhatWasLoaded'
<1> USE DEF cacheVars, loadVars, queryVars
<1>1. NoAnswerYet /\ GpuAnswerIsWhatWasLoaded /\ NoAnswer.by = "nobody" /\ ByDuckDB.by = "duckdb"
  BY DEF IInv, NoAnswer, ByDuckDB
<1>2. ASSUME answer' = answer, phase # "answered" PROVE NoAnswerYet' /\ GpuAnswerIsWhatWasLoaded'
  BY <1>1, <1>2 DEF NoAnswerYet, GpuAnswerIsWhatWasLoaded
<1>3. ASSUME Throw PROVE NoAnswerYet' /\ GpuAnswerIsWhatWasLoaded'
  BY <1>1, <1>3 DEF Throw, NoAnswerYet, GpuAnswerIsWhatWasLoaded
<1>4. CASE Finish
  <2>1. /\ answer' = [by |-> "gpu", cols |-> {Read(v) : v \in views}]
        /\ phase' = "answered" /\ lostViews' = lostViews
    BY <1>4 DEF Finish
  <2>2. ASSUME ~ lostViews, NEW v \in views, Read(v).state = "loaded"
        PROVE  Read(v).bytes = BytesOf(Read(v).col, Read(v).ver)
    <3>1. v.header.state = "loaded" /\ Read(v).col = v.col /\ Read(v).ver = v.header.ver
      BY <2>2 DEF Read
    <3>2. header[v.col] = v.header
      BY <2>2, <3>1 DEF IInv, ViewsCurrent
    <3>3. QED
      BY <3>1, <3>2, ViewShowsLoad
  <2>3. QED
    BY <2>1, <2>2 DEF NoAnswerYet, GpuAnswerIsWhatWasLoaded, BytesOf, BuffersOf, Buffers, SizeOf
<1>5. CASE Return
  BY <1>1, <1>5 DEF Return, NoAnswerYet, GpuAnswerIsWhatWasLoaded
<1>6. CASE (\E q \in Queries : Submit(q)) \/ AllCached \/ Evict \/ Extend \/ LoadColumns \/ TakeViews
  BY <1>2, <1>6 DEF Submit, AllCached, Evict, Extend, Register, LoadColumns, TakeViews
<1>7. CASE \E b \in Buffers : AllocateOnGpu(b) \/ AllocateOnCpu(b)
  BY <1>2, <1>7 DEF AllocateOnGpu, AllocateOnCpu, Allocated
<1>8. CASE TooLarge \/ OutOfCpuMemory \/ \E b \in Buffers : OutOfCachingMemory(b)
  BY <1>3, <1>8 DEF TooLarge, OutOfCpuMemory, OutOfCachingMemory, AbandonLoad
<1>9. CASE (\E t \in Table : UpdateTable(t)) \/ UNCHANGED vars
  BY <1>1, <1>9 DEF UpdateTable, vars, NoAnswerYet, GpuAnswerIsWhatWasLoaded
<1>10. QED
  BY <1>4, <1>5, <1>6, <1>7, <1>8, <1>9 DEF Next, Scan

-----------------------------------------------------------------------------
LEMMA InvAlways == Spec => []IInv
<1>1. IInv /\ [Next]_vars => IInv'
  BY NextTyped, NextHeadersLead, NextKeepsLoads, NextKeepsApart, NextViewsCurrent, NextAnswers
     DEF IInv
<1>2. QED
  BY <1>1, InitInv, PTL DEF Spec

\* The variables of the cache keep their types; in particular both caching pointers
\* stay inside their shares and no read of a view leaves the caching region.
THEOREM TypeCorrect == Spec => []TypeOK
<1>1. IInv => TypeOK
  BY DEF IInv
<1>2. QED
  BY <1>1, InvAlways, PTL

\* However scans load, evict and fail (ScanDataDuckDB, ResetCache, customCudaMalloc), a
\* header that GetData may use points at bytes of its own column, all of one version.
THEOREM CacheStaysCoherent == Spec => []CacheCoherent
<1>1. IInv => CacheCoherent
  BY DEF IInv
<1>2. QED
  BY <1>1, InvAlways, PTL

\* A query that does not evict its own earlier scans reads, at its end, exactly what the
\* load put into the cache behind the pointers GetData handed out.
THEOREM AnswersShowWhatWasLoaded == Spec => []GpuAnswerIsWhatWasLoaded
<1>1. IInv => GpuAnswerIsWhatWasLoaded
  BY DEF IInv
<1>2. QED
  BY <1>1, InvAlways, PTL

\* A registered column without data is only ever left by a load that threw between
\* createTableAndColumnInGPU and the headers.
THEOREM OnlyFailuresLeaveHoles == Spec => []HolesComeFromFailures
<1>1. IInv => HolesComeFromFailures
  BY DEF IInv, HolesExplained, LoadUnderWay, HolesComeFromFailures
<1>2. QED
  BY <1>1, InvAlways, PTL
=============================================================================
