------------------------ MODULE HashJoinAnswerProofs ------------------------
(* The output of HashJoin is the join, for any number of rows, any keys, any   *)
(* stride and any order of the threads, in the cases the code is ready for.    *)
(*                                                                             *)
(* The argument: once the build has ended, the hits of a probe row are the     *)
(* slots of its partners (Hit, Partner), each once, because a walk that comes  *)
(* back to a slot before an empty one never ends (HitsAreApart).  Probe        *)
(* threads write to places nobody else reserved, so the output is one-to-one   *)
(* with what the finished threads answer; the marks tell which build rows a    *)
(* right join still has to add.                                                *)
EXTENDS HashJoinProofs, WellFoundedInduction

-----------------------------------------------------------------------------
(* Numbers *)

\* A set of numbers has a least one.
LEMMA LeastNumber ==
    ASSUME NEW T \in SUBSET Nat, T # {}
    PROVE  \E x \in T : \A y \in T : x <= y
<1> DEFINE R == {ss \in Nat \X Nat : ss[1] < ss[2]}
<1>1. IsWellFoundedOn(R, Nat)
  BY NatLessThanWellFounded DEF OpToRel
<1>2. \E x \in T : \A y \in T : <<y, x>> \notin R
  <2> HIDE DEF R
  <2> QED
    BY <1>1, WFMin
<1>3. PICK x \in T : \A y \in T : <<y, x>> \notin R
  BY <1>2
<1>4. ASSUME NEW y \in T PROVE x <= y
  <2>1. <<y, x>> \notin R /\ <<y, x>> \in Nat \X Nat
    BY <1>3
  <2>2. ~ (y < x)
    BY <2>1
  <2> QED
    BY <2>2
<1> QED
  BY <1>4

\* There is one way to divide.
LEMMA SameDivision ==
    ASSUME NEW n \in Nat \ {0}, NEW a \in Int, NEW b \in Int,
           NEW r \in 0 .. n - 1, NEW q \in 0 .. n - 1, n * a + r = n * b + q
    PROVE  r = q
<1>1. CASE a = b
  BY <1>1
<1>2. CASE a >= b + 1
  <2>1. n * (a - b) >= n
    BY <1>2, SMT
  <2> QED
    BY <2>1, SMT
<1>3. CASE b >= a + 1
  <2>1. n * (b - a) >= n
    BY <1>3, SMT
  <2> QED
    BY <2>1, SMT
<1> QED
  BY <1>1, <1>2, <1>3

\* Equal remainders stay equal when the same is added.
LEMMA ShiftedRemainder ==
    ASSUME NEW n \in Nat \ {0}, NEW x \in Int, NEW y \in Int, NEW z \in Int, x % n = y % n
    PROVE  (x + z) % n = (y + z) % n
<1> DEFINE a == ((y + z) \div n) + (x \div n) - (y \div n)
           b == (x + z) \div n
           r == (y + z) % n
           q == (x + z) % n
<1>1. /\ x = n * (x \div n) + (x % n) /\ y = n * (y \div n) + (y % n)
      /\ x + z = n * ((x + z) \div n) + ((x + z) % n)
      /\ y + z = n * ((y + z) \div n) + ((y + z) % n)
      /\ (x + z) % n \in 0 .. n - 1 /\ (y + z) % n \in 0 .. n - 1
      /\ x \div n \in Int /\ y \div n \in Int
      /\ (x + z) \div n \in Int /\ (y + z) \div n \in Int
  BY SMT
<1>2. n * (((y + z) \div n) + (x \div n) - (y \div n)) + ((y + z) % n)
        = n * ((x + z) \div n) + ((x + z) % n)
  BY <1>1, SMT
<1>3. a \in Int /\ b \in Int
  BY <1>1
<1>4. r \in 0 .. n - 1 /\ q \in 0 .. n - 1 /\ n * a + r = n * b + q
  BY <1>1, <1>2
<1> HIDE DEF a, b, r, q
<1>5. r = q
  BY <1>3, <1>4, SameDivision
<1> QED
  BY <1>5 DEF r, q

\* Counting the smaller elements numbers a finite set from 0 on.
Rank(F, i) == Cardinality({j \in F : j < i})

LEMMA RankFacts ==
    ASSUME NEW F \in SUBSET Int, IsFiniteSet(F)
    PROVE  /\ Cardinality(F) \in Nat
           /\ \A i \in F : Rank(F, i) \in 0 .. Cardinality(F) - 1
           /\ \A i, j \in F : Rank(F, i) = Rank(F, j) => i = j
           /\ \A k \in 0 .. Cardinality(F) - 1 : \E i \in F : Rank(F, i) = k
<1> DEFINE Below(i) == {j \in F : j < i}
<1>1. Cardinality(F) \in Nat
  BY FS_CardinalityType
<1>2. ASSUME NEW i \in F PROVE IsFiniteSet(Below(i)) /\ Cardinality(Below(i)) \in 0 .. Cardinality(F) - 1
  <2>1. Below(i) \in SUBSET F /\ Below(i) # F
    OBVIOUS
  <2>2. /\ IsFiniteSet(Below(i)) /\ Cardinality(Below(i)) <= Cardinality(F)
        /\ Cardinality(F) # Cardinality(Below(i))
    <3> HIDE DEF Below
    <3> QED
      BY <2>1, FS_Subset
  <2>3. Cardinality(Below(i)) \in Nat
    <3> HIDE DEF Below
    <3> QED
      BY <2>2, FS_CardinalityType
  <2> HIDE DEF Below
  <2> QED
    BY <1>1, <2>2, <2>3
<1>3. ASSUME NEW i \in F, NEW j \in F, i < j PROVE Cardinality(Below(i)) # Cardinality(Below(j))
  <2>1. Below(i) \in SUBSET Below(j) /\ Below(i) # Below(j)
    <3>1. i \in Below(j) /\ i \notin Below(i)
      BY <1>3
    <3>2. \A x \in Below(i) : x \in Below(j)
      BY <1>3
    <3> QED
      BY <3>1, <3>2
  <2>2. IsFiniteSet(Below(j))
    BY <1>2
  <2> HIDE DEF Below
  <2> QED
    BY <2>1, <2>2, FS_Subset
<1>4. \A i, j \in F : Cardinality(Below(i)) = Cardinality(Below(j)) => i = j
  <2> SUFFICES ASSUME NEW i \in F, NEW j \in F, Cardinality(Below(i)) = Cardinality(Below(j)), i # j
               PROVE  FALSE
    OBVIOUS
  <2>1. i < j \/ j < i
    OBVIOUS
  <2> QED
    BY <2>1, <1>3
<1>5. \A k \in 0 .. Cardinality(F) - 1 : \E i \in F : Cardinality(Below(i)) = k
  <2> DEFINE n == Cardinality(F)
             places == 0 .. n - 1
             rank == [i \in F |-> Cardinality(Below(i))]
  <2>1. rank \in [F -> places] /\ \A i, j \in F : rank[i] = rank[j] => i = j
    BY <1>2, <1>4
  <2>2. rank \in Injection(F, places)
    <3> HIDE DEF rank, places
    <3> QED
      BY <2>1 DEF Injection, IsInjective
  <2>3. IsFiniteSet(places) /\ Cardinality(places) = n
    BY <1>1, FS_Interval
  <2>4. rank \in Surjection(F, places)
    <3> HIDE DEF rank, places
    <3> QED
      BY <2>2, <2>3, FS_Injection DEF n
  <2>5. \A k \in places : \E i \in F : rank[i] = k
    <3> HIDE DEF rank, places
    <3> QED
      BY <2>4 DEF Surjection
  <2> QED
    BY <2>5
<1> QED
  BY <1>1, <1>2, <1>4, <1>5 DEF Rank

-----------------------------------------------------------------------------
(* What a probe finds once the build has ended *)

RightJoins == {"RIGHT", "RIGHT_SEMI", "RIGHT_ANTI"}
Probed == pc \in {"probe", "scan", "done"}
ProbeRow(p) == Probe(p)
FoundBy(p) == Found(ProbeRow(p))
RowAt(p, i) == ht[Slot(ProbeRow(p), i)].row
Partners(p) == {b \in BuildRows : Matches(p, b)}

\* Every row is placed, if it has a slot.
BuildEnded ==
    Probed => Taken /\ (~ Unhashed => \A b \in BuildRows : build[b] = "placed")

\* A slot that is not as it was initialised was claimed by a thread.
SlotsOwned ==
    ~ SentinelKey => \A s \in Slots :
        ht[s].keys[1] # Empty \/ ht[s].row # Empty \/ ht[s].mark # Empty
            => \E b \in BuildRows : Claimed(b) /\ At(b) = s

Settled == IInv /\ BuildEnded /\ SlotsOwned /\ Probed /\ Ready

LEMMA ProbeRowFacts ==
    ASSUME Settled
    PROVE  /\ input \in Inputs /\ Taken /\ 1 \in EqualKeys /\ EqualKeys \subseteq Keys
           /\ 1 \in Keys /\ HtLen \in Nat /\ input.stride \in Nat
           /\ \A p \in ProbeRows : ProbeRow(p).keys \in [Keys -> Int] /\ input.probe[p].valid
           /\ \A b \in BuildRows :
                 /\ Built(b).keys \in [Keys -> Int] /\ input.build[b].valid
                 /\ HtLen \in Nat \ {0} /\ at[b] \in 0 .. HtLen - 1 /\ At(b) \in Slots
<1>1. input \in Inputs /\ Taken /\ at \in [BuildRows -> 0 .. HtLen - 1]
  BY DEF Settled, IInv, Typed, TypeOK, BuildEnded
<1>2. 1 \in Keys /\ 1 \in EqualKeys /\ EqualKeys \subseteq Keys
  BY <1>1, InputFacts DEF EqualKeys, Taken, Comparable
<1>3. HtLen \in Nat /\ input.stride \in Nat /\ (BuildRows # {} => HtLen \in Nat \ {0})
  BY <1>1, InputFacts
<1>4. \A p \in ProbeRows : ProbeRow(p).keys \in [Keys -> Int] /\ input.probe[p].valid
  BY <1>1, RowsAreWords DEF Settled, Ready, NullKey, ProbeRows, ProbeRow
<1>5. \A b \in BuildRows : Built(b).keys \in [Keys -> Int] /\ input.build[b].valid
  BY <1>1, RowsAreWords DEF Settled, Ready, NullKey, BuildRows
<1>6. \A b \in BuildRows : at[b] \in 0 .. HtLen - 1 /\ At(b) \in Slots
  BY <1>1, <1>3, WalkInTable DEF At
<1> QED
  BY <1>1, <1>2, <1>3, <1>4, <1>5, <1>6

\* The words a kernel reads are the values of the rows, and compare as they do.
LEMMA WordsAreValues ==
    ASSUME Settled
    PROVE  /\ \A p \in ProbeRows, n \in Keys : ProbeRow(p).keys[n] = input.probe[p].keys[n]
           /\ \A b \in BuildRows, n \in Keys : Built(b).keys[n] = input.build[b].keys[n]
           /\ \A p \in ProbeRows, b \in BuildRows, n \in Keys :
                 Same(n, input.probe[p].keys[n], input.build[b].keys[n])
                   <=> ProbeRow(p).keys[n] = Built(b).keys[n]
<1>1. ~ MisreadKey /\ ~ SignedZero
  BY DEF Settled, Ready
<1>2. \A p \in ProbeRows, n \in Keys : ProbeRow(p).keys[n] = input.probe[p].keys[n]
  BY <1>1 DEF MisreadKey, ProbeRow, Probe, ProbeRows
<1>3. \A b \in BuildRows, n \in Keys : Built(b).keys[n] = input.build[b].keys[n]
  BY <1>1 DEF MisreadKey, Built, BuildRows
<1>4. \A p \in ProbeRows, b \in BuildRows, n \in Keys :
         Same(n, input.probe[p].keys[n], input.build[b].keys[n])
           <=> input.probe[p].keys[n] = input.build[b].keys[n]
  BY <1>1 DEF SignedZero, Same
<1> QED
  BY <1>2, <1>3, <1>4

LEMMA MatchesByWords ==
    ASSUME Settled, NEW p \in ProbeRows, NEW b \in BuildRows
    PROVE  Matches(p, b) <=>
             \A n \in Keys : IF input.modes[n] = "=" THEN ProbeRow(p).keys[n] = Built(b).keys[n]
                             ELSE ProbeRow(p).keys[n] # Built(b).keys[n]
  BY ProbeRowFacts, WordsAreValues DEF Matches

\* A join that is ready is not one whose kernels return.
LEMMA ReadyIsHashed ==
    ASSUME input \in Inputs, Ready
    PROVE  ~ ProbeReturns
<1> SUFFICES ASSUME ProbeReturns PROVE FALSE
  OBVIOUS
<1>1. HtLen > 0 /\ ~ Hashed
  BY DEF ProbeReturns, Launched
<1>2. Len(input.build) # 0
  BY <1>1 DEF HtLen
<1>3. BuildRows # {}
  <2>1. Len(input.build) \in Nat /\ BuildRows = 1 .. Len(input.build)
    BY InputFacts, LenProperties
  <2>2. 1 \in 1 .. Len(input.build)
    BY <1>2, <2>1
  <2> QED
    BY <2>1, <2>2
<1> QED
  BY <1>1, <1>3 DEF Ready, Unhashed

LEMMA ProbeInTable ==
    ASSUME Settled, NEW p \in ProbeRows, NEW i \in 0 .. HtLen - 1
    PROVE  Slot(ProbeRow(p), i) \in Slots
<1>1. input \in Inputs /\ HtLen \in Nat
  BY ProbeRowFacts
<1>2. HtLen # 0
  BY <1>1
<1>3. Len(input.build) # 0
  BY <1>2 DEF HtLen
<1>4. input.build \in Seq(Rows)
  BY <1>1, InputFacts
<1>5. Len(input.build) \in Nat /\ BuildRows = 1 .. Len(input.build)
  BY <1>1, <1>4, InputFacts, LenProperties
<1>6. 1 \in BuildRows
  BY <1>3, <1>5
<1> QED
  BY <1>6, ProbeRowFacts, SlotInTable

\* Whoever owns a slot has put its words and its number there.
LEMMA OwnerFacts ==
    ASSUME Settled, NEW b \in BuildRows
    PROVE  /\ ht[At(b)].row = b /\ ht[At(b)].keys[1] # Empty
           /\ \A n \in Keys : ht[At(b)].keys[n] = Built(b).keys[n]
           /\ \A c \in BuildRows : At(c) = At(b) => c = b
<1>1. build[b] = "placed" /\ \A c \in BuildRows : Claimed(c)
  BY DEF Settled, BuildEnded, Claimed, Ready
<1>2. ~ SentinelKey
  BY DEF Settled, Ready
<1> QED
  BY <1>1, <1>2 DEF Settled, IInv, ClaimsApart, ClaimsHold, KeysHold, RowsHold, SentinelKey

\* A hit is the slot of a partner.
LEMMA Hit ==
    ASSUME Settled, NEW p \in ProbeRows, NEW i \in Hits(ProbeRow(p))
    PROVE  \E b \in Partners(p) : At(b) = Slot(ProbeRow(p), i) /\ RowAt(p, i) = b
<1> DEFINE s == Slot(ProbeRow(p), i)
<1>1. i \in 0 .. HtLen - 1 /\ ht[s].keys[1] # Empty /\ Fits(ProbeRow(p), s)
  <2>1. i \in 0 .. HtLen - 1 /\ Fits(ProbeRow(p), s) /\ \A j \in 0 .. i : ~ Ends(ProbeRow(p), j)
    BY DEF Hits, Reach
  <2>2. i \in 0 .. i
    BY <2>1
  <2> QED
    BY <2>1, <2>2 DEF Ends
<1>2. s \in Slots
  BY <1>1, ProbeInTable
<1>3. PICK b \in BuildRows : At(b) = s
  BY <1>1, <1>2, ProbeRowFacts DEF Settled, SlotsOwned, Ready
<1>4. /\ ht[s].row = b
      /\ \A n \in Keys : ht[s].keys[n] = Built(b).keys[n]
  BY <1>3, OwnerFacts
<1>5. Matches(p, b)
  BY <1>1, <1>4, MatchesByWords DEF Fits
<1> QED
  BY <1>3, <1>4, <1>5 DEF Partners, RowAt

\* Rows that match walk the same way, and a partner is not behind an empty slot.
LEMMA Partner ==
    ASSUME Settled, NEW p \in ProbeRows, NEW b \in Partners(p)
    PROVE  at[b] \in Hits(ProbeRow(p)) /\ Slot(ProbeRow(p), at[b]) = At(b)
<1> DEFINE l == ProbeRow(p)
           r == Built(b)
<1>1. b \in BuildRows /\ Matches(p, b)
  BY DEF Partners
<1>2. \A n \in EqualKeys : l.keys[n] = r.keys[n]
  BY <1>1, MatchesByWords DEF EqualKeys
<1>3. Hash(l) = Hash(r)
  BY <1>2, ProbeRowFacts DEF Hash
<1>4. \A i : Slot(l, i) = Slot(r, i)
  BY <1>3 DEF Slot
<1>5. at[b] \in 0 .. HtLen - 1 /\ Slot(l, at[b]) = At(b)
  BY <1>1, <1>4, ProbeRowFacts DEF At
<1>6. ASSUME NEW j \in 0 .. at[b] PROVE ~ Ends(l, j)
  <2>1. CASE j = at[b]
    BY <1>1, <1>5, <2>1, OwnerFacts DEF Ends
  <2>2. CASE j # at[b]
    <3>1. j \in 0 .. at[b] - 1
      BY <1>5, <2>2
    <3>2. ~ Ends(r, j)
      BY <1>1, <3>1 DEF Settled, Ready, IInv, PathsFull
    <3> QED
      BY <1>4, <3>2 DEF Ends
  <2> QED
    BY <2>1, <2>2
<1>7. Fits(l, At(b))
  BY <1>1, OwnerFacts, MatchesByWords DEF Fits
<1> QED
  BY <1>5, <1>6, <1>7 DEF Hits, Reach

\* A walk that comes back to a slot before it finds an empty one goes round for ever.
LEMMA ComesBack ==
    ASSUME Settled, NEW p \in ProbeRows, NEW i \in Nat, NEW j \in Nat, NEW e \in Nat,
           i < j, j < e, e < HtLen, Slot(ProbeRow(p), i) = Slot(ProbeRow(p), j)
    PROVE  Slot(ProbeRow(p), e - (j - i)) = Slot(ProbeRow(p), e)
<1> DEFINE n == HtLen
           h == Hash(ProbeRow(p))
           t == input.stride
<1>1. n \in Nat \ {0} /\ t \in Nat
  BY ProbeRowFacts
<1>2. h \in Int
  <2>1. ProbeRow(p).keys \in [Keys -> Int] /\ 1 \in Keys /\ EqualKeys \subseteq Keys
    BY ProbeRowFacts
  <2>2. \A k \in Int : Unsigned(k) \in Int
    BY ProbeRowFacts, InputFacts DEF Unsigned
  <2>3. Unsigned(ProbeRow(p).keys[1]) \in Int /\ (2 \in EqualKeys => Unsigned(ProbeRow(p).keys[2]) \in Int)
    BY <2>1, <2>2
  <2> DEFINE sum == IF 2 \in EqualKeys
                    THEN 3 * Unsigned(ProbeRow(p).keys[1]) + Unsigned(ProbeRow(p).keys[2])
                    ELSE Unsigned(ProbeRow(p).keys[1])
  <2>4. sum \in Int
    BY <2>3
  <2>5. h = sum % n
    BY DEF Hash
  <2> HIDE DEF sum, n, h
  <2> QED
    BY <1>1, <2>4, <2>5, Remainder
<1> DEFINE x == h + t * i
           y == h + t * j
           z == t * (e - j)
<1>3. x % n = y % n
  BY DEF Slot
<1> HIDE DEF n, h, t
<1>4. x \in Int /\ y \in Int /\ z \in Int
  BY <1>1, <1>2
<1>5. (x + z) % n = (y + z) % n
  <2> HIDE DEF x, y, z
  <2> QED
    BY <1>1, <1>3, <1>4, ShiftedRemainder
<1>6. x + z = h + t * (e - (j - i)) /\ y + z = h + t * e
  BY <1>1, <1>2
<1>7. (h + t * (e - (j - i))) % n = (h + t * e) % n
  BY <1>5, <1>6
<1> QED
  BY <1>7 DEF Slot, n, h, t

LEMMA HitsAreApart ==
    ASSUME Settled, NEW p \in ProbeRows, Reach(ProbeRow(p)) # 0 .. HtLen - 1,
           NEW i \in Reach(ProbeRow(p)), NEW j \in Reach(ProbeRow(p)), i < j
    PROVE  Slot(ProbeRow(p), i) # Slot(ProbeRow(p), j)
<1> SUFFICES ASSUME Slot(ProbeRow(p), i) = Slot(ProbeRow(p), j) PROVE FALSE
  OBVIOUS
<1> DEFINE Stop == {e \in 0 .. HtLen - 1 : Ends(ProbeRow(p), e)}
<1>1. HtLen \in Nat /\ i \in 0 .. HtLen - 1 /\ j \in 0 .. HtLen - 1
  BY ProbeRowFacts DEF Reach
<1>2. Stop \in SUBSET Nat /\ Stop # {}
  <2>1. PICK k \in 0 .. HtLen - 1 : k \notin Reach(ProbeRow(p))
    BY DEF Reach
  <2>2. PICK e \in 0 .. k : Ends(ProbeRow(p), e)
    BY <2>1 DEF Reach
  <2> QED
    BY <1>1, <2>2
<1>3. PICK e \in Stop : \A f \in Stop : e <= f
  <2> HIDE DEF Stop
  <2> QED
    BY <1>2, LeastNumber
<1>4. e \in Nat /\ e < HtLen /\ Ends(ProbeRow(p), e)
  BY <1>1, <1>3
<1>5. j < e
  <2>1. \A f \in 0 .. j : ~ Ends(ProbeRow(p), f)
    BY DEF Reach
  <2> QED
    BY <1>1, <1>4, <2>1
<1>6. Ends(ProbeRow(p), e - (j - i))
  BY <1>1, <1>4, <1>5, ComesBack DEF Ends
<1>7. e - (j - i) \in Stop
  BY <1>1, <1>4, <1>5, <1>6
<1> QED
  BY <1>1, <1>3, <1>4, <1>7

LEMMA FoundAreNumbers ==
    ASSUME Settled, NEW p \in ProbeRows
    PROVE  /\ FoundBy(p) \in SUBSET Hits(ProbeRow(p)) /\ Hits(ProbeRow(p)) \in SUBSET Nat
           /\ FoundBy(p) \in SUBSET Int /\ \A i \in FoundBy(p) : i \in 0 .. HtLen - 1
           /\ IsFiniteSet(FoundBy(p)) /\ Cardinality(FoundBy(p)) \in Nat
<1>1. HtLen \in Nat
  BY ProbeRowFacts
<1>2. FoundBy(p) \in SUBSET Hits(ProbeRow(p)) /\ Hits(ProbeRow(p)) \in SUBSET (0 .. HtLen - 1)
  BY DEF FoundBy, Found, Hits, Reach
<1>3. IsFiniteSet(0 .. HtLen - 1)
  BY <1>1, FS_Interval
<1>4. IsFiniteSet(FoundBy(p)) /\ Cardinality(FoundBy(p)) \in Nat
  BY <1>2, <1>3, FS_Subset, FS_CardinalityType
<1> QED
  BY <1>1, <1>2, <1>4

\* What a row finds are partners of its.
LEMMA FoundArePartners ==
    ASSUME Settled, NEW p \in ProbeRows, NEW i \in FoundBy(p)
    PROVE  RowAt(p, i) \in Partners(p) /\ At(RowAt(p, i)) = Slot(ProbeRow(p), i)
  BY FoundAreNumbers, Hit

\* A row finds something if it has a partner.
LEMMA FoundIfPartnered ==
    ASSUME Settled, NEW p \in ProbeRows
    PROVE  FoundBy(p) # {} <=> Partners(p) # {}
<1>1. ASSUME FoundBy(p) # {} PROVE Partners(p) # {}
  BY <1>1, FoundArePartners
<1>2. ASSUME NEW b \in Partners(p) PROVE FoundBy(p) # {}
  <2>1. Hits(ProbeRow(p)) # {} /\ Hits(ProbeRow(p)) \in SUBSET Nat
    BY <1>2, Partner, FoundAreNumbers
  <2>2. PICK x \in Hits(ProbeRow(p)) : \A y \in Hits(ProbeRow(p)) : x <= y
    BY <2>1, LeastNumber
  <2> QED
    BY <2>2 DEF FoundBy, Found
<1> QED
  BY <1>1, <1>2

\* Two partners of a row that agree with it on a unique column are one.
LEMMA UniquePartner ==
    ASSUME Settled, NEW p \in ProbeRows, NEW b \in Partners(p), NEW c \in Partners(p),
           UniqueBuildKeys, ~ UniqueInequality, ~ UniqueRepeats
    PROVE  b = c
<1>1. PICK n \in input.unique : TRUE
  BY DEF UniqueBuildKeys
<1>2. n \in Keys /\ input.modes[n] = "="
  <2>1. n \in Keys
    BY <1>1, ProbeRowFacts, HashJoinAssumption DEF HashJoinAssumption, Keys
  <2>2. \A m \in Keys : input.modes[m] \in {"=", "#"}
    BY ProbeRowFacts DEF Taken, Comparable
  <2> QED
    BY <1>1, <2>1, <2>2 DEF UniqueInequality
<1>3. b \in BuildRows /\ c \in BuildRows /\ Matches(p, b) /\ Matches(p, c)
  BY DEF Partners
<1>4. Built(b).keys[n] = Built(c).keys[n]
  BY <1>2, <1>3, MatchesByWords
<1>5. Same(n, input.build[b].keys[n], input.build[c].keys[n])
  BY <1>2, <1>3, <1>4, WordsAreValues DEF Same
<1> QED
  BY <1>1, <1>3, <1>5 DEF UniqueRepeats

\* A right join finds every partner of a row.
LEMMA PartnersAreFound ==
    ASSUME Settled, input.join \in RightJoins, NEW p \in ProbeRows, NEW b \in Partners(p)
    PROVE  \E i \in FoundBy(p) : RowAt(p, i) = b /\ Slot(ProbeRow(p), i) = At(b)
<1>1. CASE SingleMatch
  <2>1. UniqueBuildKeys /\ ~ UniqueInequality /\ ~ UniqueRepeats
    BY <1>1 DEF SingleMatch, RightJoins, Settled, Ready, MissesMatches
  <2>2. PICK i \in FoundBy(p) : TRUE
    BY FoundIfPartnered
  <2>3. RowAt(p, i) \in Partners(p) /\ At(RowAt(p, i)) = Slot(ProbeRow(p), i)
    BY FoundArePartners
  <2>4. RowAt(p, i) = b
    BY <2>1, <2>3, UniquePartner
  <2> QED
    BY <2>3, <2>4
<1>2. CASE ~ SingleMatch
  <2>1. at[b] \in FoundBy(p) /\ Slot(ProbeRow(p), at[b]) = At(b)
    BY <1>2, Partner DEF FoundBy, Found
  <2>2. ht[At(b)].row = b
    BY OwnerFacts DEF Partners
  <2> QED
    BY <2>1, <2>2 DEF RowAt
<1> QED
  BY <1>1, <1>2

\* A row finds a partner once.
LEMMA FoundOnce ==
    ASSUME Settled, NEW p \in ProbeRows, Stops(ProbeRow(p)), NEW i \in FoundBy(p), NEW j \in FoundBy(p),
           RowAt(p, i) = RowAt(p, j)
    PROVE  i = j
<1>1. i \in Nat /\ j \in Nat
  BY FoundAreNumbers
<1>2. CASE SingleMatch
  <2>1. i <= j /\ j <= i
    BY <1>2 DEF FoundBy, Found
  <2> QED
    BY <1>1, <2>1
<1>3. CASE ~ SingleMatch
  <2>1. Reach(ProbeRow(p)) # 0 .. HtLen - 1
    BY <1>3 DEF Stops
  <2>2. i \in Reach(ProbeRow(p)) /\ j \in Reach(ProbeRow(p))
    BY DEF FoundBy, Found, Hits
  <2>3. Slot(ProbeRow(p), i) = Slot(ProbeRow(p), j)
    BY FoundArePartners
  <2>4. ~ (i < j) /\ ~ (j < i)
    BY <2>1, <2>2, <2>3, HitsAreApart
  <2> QED
    BY <1>1, <2>4
<1> QED
  BY <1>2, <1>3

\* A kernel that stops at the first match finds one.
LEMMA FoundOne ==
    ASSUME Settled, NEW p \in ProbeRows, SingleMatch, NEW i \in FoundBy(p)
    PROVE  Cardinality(FoundBy(p)) = 1
<1>1. \A j \in FoundBy(p) : j = i
  <2>1. \A j \in FoundBy(p) : i <= j /\ j <= i /\ i \in Nat /\ j \in Nat
    BY FoundAreNumbers DEF FoundBy, Found
  <2> QED
    BY <2>1
<1>2. FoundBy(p) = {i}
  BY <1>1
<1> QED
  BY <1>2, FS_Singleton

-----------------------------------------------------------------------------
(* The output as it grows *)

\* Until the kernels of the build have ended nothing is probed.
ProbesWait ==
    pc = "build" => /\ \A s \in Slots : ht[s].mark = Empty
                    /\ \A p \in ProbeRows : probe[p] = "probe"
                    /\ DOMAIN out = {} /\ total = 0

\* The slot of a build row is marked when a probe that has ended matches it.
MarksRight ==
    Probed /\ Ready /\ input.join \in RightJoins =>
        \A b \in BuildRows : ht[At(b)].mark # Empty
                               <=> \E p \in ProbeRows : probe[p] = "done" /\ Matches(p, b)

\* What the probe of a row adds to the output.
Answer(p) ==
    CASE input.join = "SEMI" -> {r \in {<<p, 0>>} : Partners(p) # {}}
      [] input.join = "MARK" -> {<<p, IF Partners(p) # {} THEN 1 ELSE 0>>}
      [] input.join = "RIGHT" -> {<<p, b>> : b \in Partners(p)}
      [] OTHER -> {}

\* The places a thread has reserved.
Positions(p) == place[p] .. place[p] + Cardinality(FoundBy(p)) - 1

OutFaithful == \A k \in DOMAIN out : \E p \in ProbeRows : probe[p] = "done" /\ out[k] \in Answer(p)
OutComplete == \A p \in ProbeRows : probe[p] = "done" =>
                   \A r \in Answer(p) : \E k \in DOMAIN out : out[k] = r
OutOnce == \A j, k \in DOMAIN out : out[j] = out[k] => j = k

\* A row of a MARK join has the place of its number, the others the places counted.
OutPlaces ==
    IF input.join = "MARK" THEN DOMAIN out \subseteq {p \in ProbeRows : probe[p] = "done"}
    ELSE DOMAIN out \subseteq 0 .. total - 1

\* What is reserved is free, and reserved for one thread.
Reserved ==
    \A p \in ProbeRows : probe[p] = "write" =>
        /\ Stops(ProbeRow(p)) /\ Reserves
        /\ Positions(p) \subseteq 0 .. total - 1 /\ Positions(p) \cap DOMAIN out = {}
        /\ \A q \in ProbeRows : q # p /\ probe[q] = "write" => Positions(p) \cap Positions(q) = {}

OutIsRight == OutFaithful /\ OutComplete /\ OutOnce /\ OutPlaces /\ Reserved
OutRight == pc \in {"probe", "scan"} /\ Ready => OutIsRight

\* The table is scanned when every probe has ended, or none had a row to find.
ScanReady ==
    pc = "scan" /\ Ready
        => /\ input.join \in RightJoins
           /\ (\A p \in ProbeRows : probe[p] = "done") \/ BuildRows = {}

AInv == /\ IInv /\ BuildEnded /\ SlotsOwned /\ ProbesWait /\ MarksRight /\ OutRight /\ ScanReady
        /\ AnswerIsJoin

-----------------------------------------------------------------------------
(* What steps leave alone *)

LEMMA SameMeaning ==
    ASSUME input' = input
    PROVE  /\ \A p, b : Matches(p, b)' = Matches(p, b)
           /\ \A p : ProbeRow(p)' = ProbeRow(p) /\ Partners(p)' = Partners(p) /\ Answer(p)' = Answer(p)
           /\ Ready' = Ready /\ SentinelKey' = SentinelKey /\ SingleMatch' = SingleMatch
           /\ Launched' = Launched /\ Expected' = Expected /\ Reserves' = Reserves
<1>1. /\ BuildRows' = BuildRows /\ ProbeRows' = ProbeRows /\ Keys' = Keys /\ HtLen' = HtLen
      /\ \A rows, t, n : Word(rows, t, n)' = Word(rows, t, n)
      /\ \A t : Built(t)' = Built(t) /\ Probe(t)' = Probe(t) /\ Key(t)' = Key(t)
      /\ Hashed' = Hashed
  BY SameJoin
<1>10. \A n, x, y : Same(n, x, y)' = Same(n, x, y)
  BY DEF Same, Zeros, Wrap
<1>2. \A p, b : Matches(p, b)' = Matches(p, b)
  BY <1>1, <1>10 DEF Matches
<1>3. \A p : ProbeRow(p)' = ProbeRow(p)
  BY <1>1 DEF ProbeRow
<1>4. \A p : Partners(p)' = Partners(p)
  BY <1>1, <1>2 DEF Partners
<1>5. \A p : Answer(p)' = Answer(p)
  BY <1>4 DEF Answer
<1>6. SentinelKey' = SentinelKey
  BY <1>1 DEF SentinelKey, Empty
<1>7. SingleMatch' = SingleMatch /\ Launched' = Launched /\ Reserves' = Reserves
  BY <1>1 DEF SingleMatch, UniqueBuildKeys, Launched, Reserves
<1>8. Ready' = Ready
  <2>1. NullKey' = NullKey /\ MissesMatches' = MissesMatches
    BY <1>1, <1>10 DEF NullKey, MissesMatches, UniqueInequality, UniqueRepeats, BuildRows
  <2>2. Unhashed' = Unhashed /\ MisreadKey' = MisreadKey /\ SignedZero' = SignedZero
    BY <1>1, <1>10 DEF Unhashed, MisreadKey, SignedZero
  <2> QED
    BY <1>6, <2>1, <2>2 DEF Ready
<1>9. Expected' = Expected
  BY <1>1, <1>2 DEF Expected, Partnered
<1> QED
  BY <1>2, <1>3, <1>4, <1>5, <1>6, <1>7, <1>8, <1>9

\* What a row finds depends on the keys in the table, which the probes leave alone.
LEMMA SameFound ==
    ASSUME Settled, input' = input, at' = at,
           \A s \in Slots : ht'[s].keys = ht[s].keys /\ ht'[s].row = ht[s].row
    PROVE  /\ \A b \in BuildRows : At(b)' = At(b)
           /\ \A p \in ProbeRows : FoundBy(p)' = FoundBy(p) /\ Stops(ProbeRow(p))' = Stops(ProbeRow(p))
<1>1. /\ Slots' = Slots /\ Keys' = Keys /\ HtLen' = HtLen /\ BuildRows' = BuildRows
      /\ \A row, i : Slot(row, i)' = Slot(row, i)
      /\ \A t : Built(t)' = Built(t)
  BY SameJoin
<1>2. \A p : ProbeRow(p)' = ProbeRow(p)
  BY SameMeaning
<1>3. SingleMatch' = SingleMatch
  BY SameMeaning
<1>4. \A b \in BuildRows : At(b)' = At(b)
  BY <1>1 DEF At
<1>5. ASSUME NEW p \in ProbeRows
      PROVE  FoundBy(p)' = FoundBy(p) /\ Stops(ProbeRow(p))' = Stops(ProbeRow(p))
  <2> DEFINE row == ProbeRow(p)
  <2>1. row' = row
    BY <1>2
  <2>2. \A i \in 0 .. HtLen - 1 : Slot(row, i) \in Slots
    BY ProbeInTable
  <2>3. HtLen \in Nat
    BY ProbeRowFacts
  <2> HIDE DEF row
  <2>4. \A i \in 0 .. HtLen - 1 : Ends(row, i)' = Ends(row, i)
    BY <1>1, <2>1, <2>2 DEF Ends, Empty
  <2>5. \A i \in 0 .. HtLen - 1 : Fits(row, Slot(row, i))' = Fits(row, Slot(row, i))
    BY <1>1, <2>1, <2>2 DEF Fits
  <2>6. \A i \in 0 .. HtLen - 1 : \A j \in 0 .. i : j \in 0 .. HtLen - 1
    BY <2>3
  <2>7. Reach(row)' = Reach(row)
    BY <1>1, <2>1, <2>4, <2>6 DEF Reach
  <2>8. Hits(row)' = Hits(row)
    <3>1. \A i \in Reach(row) : i \in 0 .. HtLen - 1
      BY DEF Reach
    <3> QED
      BY <2>5, <2>7, <3>1 DEF Hits
  <2>9. Found(row)' = Found(row)
    BY <1>3, <2>8 DEF Found
  <2>10. Stops(row)' = Stops(row)
    BY <1>1, <1>3, <2>7, <2>8 DEF Stops
  <2> QED
    BY <2>9, <2>10 DEF FoundBy, row
<1> QED
  BY <1>4, <1>5

\* The steps of the build, by what they may do outside a slot of their own.
LEMMA BuildSteps ==
    ASSUME NEW t \in BuildRows, Claim(t) \/ FillKeys(t) \/ FillRow(t)
    PROVE  Building /\ UNCHANGED <<input, probe, place, total, out, pc>>
  BY DEF Claim, FillKeys, FillRow, Placing

\* Only the build writes keys and rows, while pc is "build".
LEMMA OtherSteps ==
    ASSUME Typed, [Next]_vars, ~ \E t \in BuildRows : Claim(t) \/ FillKeys(t) \/ FillRow(t)
    PROVE  /\ input' = input /\ UNCHANGED <<build, at>>
           /\ \A s \in Slots : ht'[s].keys = ht[s].keys /\ ht'[s].row = ht[s].row
<1>1. ASSUME NEW p \in ProbeRows, ProbeRightSemiAnti(p) \/ Write(p)
      PROVE  /\ input' = input /\ UNCHANGED <<build, at>>
             /\ ht' = ht \/ ht' = Marked(ProbeRow(p), p)
  BY <1>1 DEF ProbeRightSemiAnti, Write, ProbeRow
<1>2. ASSUME NEW p \in ProbeRows, ProbeRightSemiAnti(p) \/ Write(p)
      PROVE  \A s \in Slots : ht'[s].keys = ht[s].keys /\ ht'[s].row = ht[s].row
  BY <1>1, <1>2, MarkedIsTyped
<1>3. ASSUME NEW p \in ProbeRows, ProbeMark(p) \/ Count(p)
      PROVE  UNCHANGED <<input, build, at, ht>>
  BY <1>3 DEF ProbeMark, Count
<1>4. ASSUME RefuseJoin \/ EndBuild \/ ProbeReturns \/ EndProbe \/ Scan \/ UNCHANGED vars
      PROVE  UNCHANGED <<input, build, at, ht>>
  BY <1>4 DEF RefuseJoin, EndBuild, ProbeReturns, EndProbe, Scan, vars
<1> QED
  BY <1>1, <1>2, <1>3, <1>4 DEF Next

LEMMA NextBuildEnded ==
    ASSUME IInv, BuildEnded, [Next]_vars
    PROVE  BuildEnded'
<1>1. input' = input
  BY StepsKeepTheJoin
<1>2. BuildRows' = BuildRows
  BY <1>1, SameJoin
<1>6. Taken' = Taken /\ Unhashed' = Unhashed
  BY <1>1, SameJoin DEF Unhashed
<1>3. CASE \E t \in BuildRows : Claim(t) \/ FillKeys(t) \/ FillRow(t)
  BY <1>3, BuildSteps DEF Building, BuildEnded, Probed
<1>4. CASE EndBuild
  BY <1>2, <1>4, <1>6 DEF EndBuild, Building, BuildEnded, Unhashed
<1>5. CASE ~ EndBuild /\ ~ \E t \in BuildRows : Claim(t) \/ FillKeys(t) \/ FillRow(t)
  <2>1. build' = build
    BY <1>5, OtherSteps DEF IInv
  <2>2. Probed' => Probed
    <3>1. RefuseJoin => ~ Probed'
      BY DEF RefuseJoin, Probed
    <3>2. ProbeReturns \/ EndProbe \/ Scan \/ UNCHANGED vars => (Probed' => Probed)
      BY DEF ProbeReturns, EndProbe, Scan, vars, Probed
    <3>3. \A p \in ProbeRows : ProbeMark(p) \/ ProbeRightSemiAnti(p) \/ Count(p) \/ Write(p)
             => pc' = pc
      BY DEF ProbeMark, ProbeRightSemiAnti, Count, Write
    <3> QED
      BY <1>5, <3>1, <3>2, <3>3 DEF Next, Probed
  <2> QED
    BY <1>2, <1>6, <2>1, <2>2 DEF BuildEnded
<1> QED
  BY <1>3, <1>4, <1>5

\* A probe marks slots that somebody owns.
LEMMA MarkedAreOwned ==
    ASSUME Typed, NEW p \in ProbeRows, NEW s \in Slots
    PROVE  Marked(ProbeRow(p), p)[s] = ht[s] \/ ht[s].keys[1] # Empty
<1>1. ASSUME NEW i \in Found(ProbeRow(p)), Slot(ProbeRow(p), i) = s PROVE ht[s].keys[1] # Empty
  <2>1. i \in 0 .. HtLen - 1 /\ \A j \in 0 .. i : ~ Ends(ProbeRow(p), j)
    BY DEF Found, Hits, Reach
  <2>2. i \in 0 .. i
    BY <2>1
  <2> QED
    BY <1>1, <2>1, <2>2 DEF Ends
<1> QED
  BY <1>1 DEF Marked

LEMMA NextSlotsOwned ==
    ASSUME IInv, SlotsOwned, [Next]_vars
    PROVE  SlotsOwned'
<1> SUFFICES ASSUME ~ SentinelKey, NEW s \in Slots,
                    ht'[s].keys[1] # Empty \/ ht'[s].row # Empty \/ ht'[s].mark # Empty
             PROVE  \E b \in BuildRows : Claimed(b)' /\ At(b)' = s
  <2>1. input' = input
    BY StepsKeepTheJoin
  <2>2. BuildRows' = BuildRows /\ Slots' = Slots /\ SentinelKey' = SentinelKey
    BY <2>1, SameJoin, SameMeaning
  <2> QED
    BY <2>1, <2>2 DEF SlotsOwned, Empty
<1> DEFINE Touched(e) == e.keys[1] # Empty \/ e.row # Empty \/ e.mark # Empty
<1>1. /\ ht \in [Slots -> Entries] /\ build \in [BuildRows -> {"claim", "keys", "row", "placed"}]
      /\ at \in [BuildRows -> 0 .. HtLen - 1] /\ 1 \in Keys /\ Typed
  BY InputFacts DEF IInv, Typed, TypeOK, Entries
<1>2. Touched(ht[s]) => \E b \in BuildRows : Claimed(b) /\ At(b) = s
  BY DEF SlotsOwned
<1>3. input' = input /\ (\A row, i : Slot(row, i)' = Slot(row, i)) /\ \A t : Built(t)' = Built(t)
  BY StepsKeepTheJoin, SameJoin
<1>4. ASSUME NEW t \in BuildRows, Claim(t) \/ FillKeys(t) \/ FillRow(t)
      PROVE  \E b \in BuildRows : Claimed(b)' /\ At(b)' = s
  <2>1. \A b \in BuildRows : Claimed(b) => Claimed(b)' /\ At(b)' = At(b)
    <3>1. CASE Claim(t)
      <4>1. ~ Claimed(t)
        BY <3>1 DEF Claim, Claimed
      <4>2. \A b \in BuildRows : b # t => build'[b] = build[b] /\ at'[b] = at[b]
        BY <3>1, <1>1 DEF Claim
      <4> QED
        BY <4>1, <4>2, <1>3 DEF Claimed, At
    <3>2. CASE FillKeys(t)
      BY <3>2, <1>1, <1>3 DEF FillKeys, Claimed, At
    <3>3. CASE FillRow(t)
      BY <3>3, <1>1, <1>3 DEF FillRow, Claimed, At
    <3> QED
      BY <1>4, <3>1, <3>2, <3>3
  <2>2. CASE ht'[s] = ht[s]
    BY <2>1, <2>2, <1>2
  <2>3. CASE ht'[s] # ht[s]
    <3>1. At(t) = s /\ Claimed(t)' /\ at' = at
      <4>1. CASE Claim(t)
        <5>1. /\ ht' = [ht EXCEPT ![At(t)].keys[1] = Key(t)]
              /\ build' = [build EXCEPT ![t] = "keys"] /\ at' = at
          BY <2>3, <4>1 DEF Claim
        <5>2. At(t) = s
          BY <5>1, <1>1, <2>3
        <5>3. build'[t] = "keys"
          BY <5>1, <1>1
        <5> QED
          BY <5>1, <5>2, <5>3 DEF Claimed
      <4>2. CASE FillKeys(t)
        BY <4>2, <1>1, <2>3 DEF FillKeys, Claimed
      <4>3. CASE FillRow(t)
        BY <4>3, <1>1, <2>3 DEF FillRow, Claimed
      <4> QED
        BY <1>4, <4>1, <4>2, <4>3
    <3>2. At(t)' = s
      BY <3>1, <1>3 DEF At
    <3> QED
      BY <3>1, <3>2
  <2> QED
    BY <2>2, <2>3
<1>5. ASSUME ~ \E t \in BuildRows : Claim(t) \/ FillKeys(t) \/ FillRow(t)
      PROVE  \E b \in BuildRows : Claimed(b)' /\ At(b)' = s
  <2>1. UNCHANGED <<build, at>>
    BY <1>1, <1>5, OtherSteps
  <2>2. \A b \in BuildRows : (Claimed(b)' <=> Claimed(b)) /\ At(b)' = At(b)
    BY <1>3, <2>1 DEF Claimed, At
  <2>3. ht'[s] = ht[s] \/ ht[s].keys[1] # Empty
    <3>1. ASSUME NEW p \in ProbeRows, ProbeRightSemiAnti(p) \/ Write(p)
          PROVE  ht' = ht \/ ht' = Marked(ProbeRow(p), p)
      BY <3>1 DEF ProbeRightSemiAnti, Write, ProbeRow
    <3>2. ASSUME NEW p \in ProbeRows, ProbeMark(p) \/ Count(p) PROVE ht' = ht
      BY <3>2 DEF ProbeMark, Count
    <3>3. ASSUME RefuseJoin \/ EndBuild \/ ProbeReturns \/ EndProbe \/ Scan \/ UNCHANGED vars PROVE ht' = ht
      BY <3>3 DEF RefuseJoin, EndBuild, ProbeReturns, EndProbe, Scan, vars
    <3> QED
      BY <1>1, <1>5, <3>1, <3>2, <3>3, MarkedAreOwned DEF Next
  <2>4. Touched(ht[s])
    BY <2>3
  <2> QED
    BY <1>2, <2>2, <2>4
<1> QED
  BY <1>4, <1>5

LEMMA NextProbesWait ==
    ASSUME IInv, ProbesWait, [Next]_vars
    PROVE  ProbesWait'
<1> SUFFICES ASSUME pc' = "build"
             PROVE  /\ \A s \in Slots : ht'[s].mark = Empty
                    /\ \A p \in ProbeRows : probe'[p] = "probe"
                    /\ DOMAIN out' = {} /\ total' = 0
  <2>1. Slots' = Slots /\ ProbeRows' = ProbeRows
    BY StepsKeepTheJoin, SameJoin
  <2> QED
    BY <2>1 DEF ProbesWait, Empty
<1>1. ht \in [Slots -> Entries] /\ Typed
  BY DEF IInv, Typed, TypeOK, Entries
<1>2. CASE \E t \in BuildRows : Claim(t) \/ FillKeys(t) \/ FillRow(t)
  <2>1. PICK t \in BuildRows : Claim(t) \/ FillKeys(t) \/ FillRow(t)
    BY <1>2
  <2>2. pc = "build" /\ UNCHANGED <<probe, out, total>>
    BY <2>1, BuildSteps DEF Building
  <2>3. \A s \in Slots : ht'[s].mark = ht[s].mark
    <3>1. CASE Claim(t)
      BY <3>1, <1>1 DEF Claim, Entries
    <3>2. CASE FillKeys(t)
      BY <3>2, <1>1 DEF FillKeys, Entries
    <3>3. CASE FillRow(t)
      BY <3>3, <1>1 DEF FillRow, Entries
    <3> QED
      BY <2>1, <3>1, <3>2, <3>3
  <2> QED
    BY <2>2, <2>3 DEF ProbesWait
<1>3. CASE UNCHANGED vars
  BY <1>3 DEF vars, ProbesWait
<1>4. CASE RefuseJoin \/ EndBuild \/ ProbeReturns \/ EndProbe \/ Scan
  BY <1>4 DEF RefuseJoin, EndBuild, ProbeReturns, EndProbe, Scan
<1>5. CASE \E p \in ProbeRows : ProbeMark(p) \/ ProbeRightSemiAnti(p) \/ Count(p) \/ Write(p)
  BY <1>5 DEF ProbeMark, ProbeRightSemiAnti, Count, Write, Probing
<1> QED
  BY <1>2, <1>3, <1>4, <1>5 DEF Next

-----------------------------------------------------------------------------
(* Marks *)

\* The slots a row of a right join marks are those of its partners.
LEMMA MarksPartners ==
    ASSUME Settled, input.join \in RightJoins, NEW p \in ProbeRows, NEW b \in BuildRows
    PROVE  Marked(ProbeRow(p), p)[At(b)].mark # Empty <=> ht[At(b)].mark # Empty \/ Matches(p, b)
<1>1. p # Empty /\ At(b) \in Slots
  BY ProbeRowFacts, InputFacts DEF Empty
<1>2. ht[At(b)] \in Entries
  BY <1>1 DEF Settled, IInv, Typed, TypeOK, Entries
<1>3. (\E i \in FoundBy(p) : Slot(ProbeRow(p), i) = At(b)) <=> Matches(p, b)
  <2>1. ASSUME NEW i \in FoundBy(p), Slot(ProbeRow(p), i) = At(b) PROVE Matches(p, b)
    <3>1. RowAt(p, i) \in Partners(p) /\ At(RowAt(p, i)) = At(b)
      BY <2>1, FoundArePartners
    <3>2. RowAt(p, i) = b
      BY <3>1, OwnerFacts DEF Partners
    <3> QED
      BY <3>1, <3>2 DEF Partners
  <2>2. ASSUME Matches(p, b) PROVE \E i \in FoundBy(p) : Slot(ProbeRow(p), i) = At(b)
    BY <2>2, PartnersAreFound DEF Partners
  <2> QED
    BY <2>1, <2>2
<1>4. Marked(ProbeRow(p), p)[At(b)] = IF \E i \in FoundBy(p) : Slot(ProbeRow(p), i) = At(b)
                                       THEN [ht[At(b)] EXCEPT !.mark = p] ELSE ht[At(b)]
  BY <1>1 DEF Marked, FoundBy
<1>5. [ht[At(b)] EXCEPT !.mark = p].mark = p
  BY <1>2 DEF Entries
<1> QED
  BY <1>1, <1>3, <1>4, <1>5

LEMMA NextMarksRight ==
    ASSUME IInv, BuildEnded, SlotsOwned, ProbesWait, MarksRight, [Next]_vars
    PROVE  MarksRight'
<1>1. input' = input /\ Typed
  BY StepsKeepTheJoin DEF IInv
<1>2. /\ BuildRows' = BuildRows /\ ProbeRows' = ProbeRows /\ Ready' = Ready
      /\ \A p, b : Matches(p, b)' = Matches(p, b)
      /\ \A row, i : Slot(row, i)' = Slot(row, i)
      /\ \A t : Built(t)' = Built(t)
  BY <1>1, SameJoin, SameMeaning
<1> SUFFICES ASSUME Probed', Ready, input.join \in RightJoins, NEW b \in BuildRows
             PROVE  ht'[At(b)'].mark # Empty <=> \E p \in ProbeRows : probe'[p] = "done" /\ Matches(p, b)
  BY <1>1, <1>2 DEF MarksRight, RightJoins, Empty
<1>3. CASE \E t \in BuildRows : Claim(t) \/ FillKeys(t) \/ FillRow(t)
  BY <1>3, BuildSteps DEF Building, Probed
<1>4. CASE RefuseJoin \/ ProbeReturns
  BY <1>1, <1>4, ReadyIsHashed DEF RefuseJoin, Probed, Typed
<1>5. CASE EndBuild
  <2>1. pc = "build" /\ UNCHANGED <<ht, at, probe>>
    BY <1>5 DEF EndBuild, Building
  <2>2. At(b)' = At(b)
    BY <1>1, <1>2, <2>1 DEF At
  <2>3. At(b) \in Slots
    <3>1. at[b] \in Int
      BY <1>1, InputFacts DEF Typed, TypeOK
    <3> QED
      BY <1>1, <3>1, WalkInTable DEF At, Typed
  <2> QED
    BY <2>1, <2>2, <2>3 DEF ProbesWait
<1>6. CASE EndProbe \/ Scan \/ UNCHANGED vars \/ \E p \in ProbeRows : ProbeMark(p) \/ Count(p)
  <2>1. ht' = ht /\ at' = at
    BY <1>6 DEF EndProbe, Scan, vars, ProbeMark, Count
  <2>2. Probed
    BY <1>6 DEF EndProbe, Scan, vars, Probed, ProbeMark, Count, Probing
  <2>3. At(b)' = At(b)
    BY <1>1, <1>2, <2>1 DEF At
  <2>4. \A p \in ProbeRows : probe'[p] = "done" <=> probe[p] = "done"
    <3>1. CASE EndProbe \/ Scan \/ UNCHANGED vars
      BY <3>1 DEF EndProbe, Scan, vars
    <3>2. ASSUME NEW p \in ProbeRows, ProbeMark(p) PROVE FALSE
      BY <3>2 DEF ProbeMark, RightJoins
    <3>3. ASSUME NEW p \in ProbeRows, Count(p)
          PROVE  \A q \in ProbeRows : probe'[q] = "done" <=> probe[q] = "done"
      BY <3>3, <1>1 DEF Count, Typed, TypeOK
    <3> QED
      BY <1>6, <3>1, <3>2, <3>3
  <2> QED
    BY <2>1, <2>2, <2>3, <2>4 DEF MarksRight
<1>7. CASE \E p \in ProbeRows : ProbeRightSemiAnti(p) \/ Write(p)
  <2>1. PICK p \in ProbeRows : ProbeRightSemiAnti(p) \/ Write(p)
    BY <1>7
  <2>2. /\ ht' = Marked(ProbeRow(p), p) /\ at' = at /\ Probed
        /\ probe' = [probe EXCEPT ![p] = "done"]
    BY <2>1 DEF ProbeRightSemiAnti, Write, ProbeRow, Probed, Probing, Reserves, RightJoins
  <2>3. Settled
    BY <2>2 DEF Settled
  <2>4. At(b)' = At(b)
    BY <1>1, <1>2, <2>2 DEF At
  <2>5. ht'[At(b)].mark # Empty <=> ht[At(b)].mark # Empty \/ Matches(p, b)
    BY <2>2, <2>3, MarksPartners
  <2>6. \A q \in ProbeRows : probe'[q] = "done" <=> probe[q] = "done" \/ q = p
    BY <2>2, <1>1 DEF Typed, TypeOK
  <2> QED
    BY <2>2, <2>4, <2>5, <2>6 DEF MarksRight
<1> QED
  BY <1>3, <1>4, <1>5, <1>6, <1>7 DEF Next

LEMMA NextScanReady ==
    ASSUME IInv, BuildEnded, ScanReady, [Next]_vars
    PROVE  ScanReady'
<1> SUFFICES ASSUME pc' = "scan", Ready
             PROVE  /\ input.join \in RightJoins
                    /\ (\A p \in ProbeRows : probe'[p] = "done") \/ BuildRows = {}
  <2>1. input' = input
    BY StepsKeepTheJoin
  <2>2. BuildRows' = BuildRows /\ ProbeRows' = ProbeRows /\ Ready' = Ready
    BY <2>1, SameJoin, SameMeaning
  <2> QED
    BY <2>1, <2>2 DEF ScanReady, RightJoins
<1>1. CASE EndProbe
  <2>1. /\ input.join \notin {"SEMI", "MARK"} /\ probe' = probe /\ pc = "probe"
        /\ Launched => \A p \in ProbeRows : probe[p] = "done"
    BY <1>1 DEF EndProbe
  <2>2. input.join \in RightJoins
    BY <2>1 DEF BuildEnded, Probed, Taken, Supported, RightJoins
  <2>3. Launched \/ ProbeRows = {} \/ BuildRows = {}
    <3>1. HtLen \in Nat /\ (BuildRows # {} => HtLen \in Nat \ {0})
      BY InputFacts DEF IInv, Typed
    <3> QED
      BY <3>1 DEF Launched
  <2> QED
    BY <2>1, <2>2, <2>3
<1>2. CASE UNCHANGED vars
  BY <1>2 DEF vars, ScanReady
<1>3. CASE RefuseJoin \/ EndBuild \/ ProbeReturns \/ Scan
  BY <1>3, ReadyIsHashed DEF RefuseJoin, EndBuild, Scan, IInv, Typed
<1>4. CASE \E t \in BuildRows : Claim(t) \/ FillKeys(t) \/ FillRow(t)
  BY <1>4, BuildSteps DEF Building
<1>5. CASE \E p \in ProbeRows : ProbeMark(p) \/ ProbeRightSemiAnti(p) \/ Count(p) \/ Write(p)
  BY <1>5 DEF ProbeMark, ProbeRightSemiAnti, Count, Write, Probing
<1> QED
  BY <1>1, <1>2, <1>3, <1>4, <1>5 DEF Next

-----------------------------------------------------------------------------
(* The output *)

\* The answers of two rows have nothing in common.
LEMMA AnswersApart ==
    ASSUME NEW p, NEW q, NEW r \in Answer(p), r \in Answer(q)
    PROVE  p = q
  BY DEF Answer

\* What a thread writes to a place it has reserved.
Written(p, k) ==
    <<p, IF input.join = "SEMI" THEN 0
         ELSE RowAt(p, CHOOSE i \in FoundBy(p) : Rank(FoundBy(p), i) = k - place[p])>>

\* A thread writes the answer of its row, one place for each part of it.
LEMMA WritesTheAnswer ==
    ASSUME Settled, NEW p \in ProbeRows, Reserves, Stops(ProbeRow(p))
    PROVE  /\ \A k \in Positions(p) : Written(p, k) \in Answer(p)
           /\ \A r \in Answer(p) : \E k \in Positions(p) : Written(p, k) = r
           /\ \A j, k \in Positions(p) : Written(p, j) = Written(p, k) => j = k
<1> DEFINE F == FoundBy(p)
           n == Cardinality(F)
<1>1. place[p] \in Nat /\ n \in Nat /\ F \in SUBSET Int /\ IsFiniteSet(F)
  BY FoundAreNumbers DEF Settled, IInv, Typed, TypeOK
<1>2. CASE input.join = "SEMI"
  <2>1. Answer(p) = {r \in {<<p, 0>>} : Partners(p) # {}} /\ \A k : Written(p, k) = <<p, 0>>
    BY <1>2 DEF Answer, Written
  <2>2. F # {} <=> Partners(p) # {}
    BY FoundIfPartnered
  <2>3. CASE F = {}
    <3>1. n = 0
      BY <2>3, FS_EmptySet
    <3>2. Positions(p) = {}
      BY <1>1, <3>1 DEF Positions
    <3> QED
      BY <2>1, <2>2, <2>3, <3>2
  <2>4. CASE F # {}
    <3>1. n = 1
      BY <1>2, <2>4, FoundOne DEF SingleMatch
    <3>2. Positions(p) = {place[p]}
      BY <1>1, <3>1 DEF Positions
    <3> QED
      BY <2>1, <2>2, <2>4, <3>2
  <2> QED
    BY <2>3, <2>4
<1>3. CASE input.join = "RIGHT"
  <2> DEFINE pick(k) == CHOOSE i \in F : Rank(F, i) = k - place[p]
  <2>1. Answer(p) = {<<p, b>> : b \in Partners(p)} /\ \A k : Written(p, k) = <<p, RowAt(p, pick(k))>>
    BY <1>3 DEF Answer, Written
  <2>2. /\ \A i \in F : Rank(F, i) \in 0 .. n - 1
        /\ \A i, j \in F : Rank(F, i) = Rank(F, j) => i = j
        /\ \A k \in 0 .. n - 1 : \E i \in F : Rank(F, i) = k
    BY <1>1, RankFacts
  <2>3. \A k \in Positions(p) : pick(k) \in F /\ Rank(F, pick(k)) = k - place[p]
    <3> SUFFICES ASSUME NEW k \in Positions(p) PROVE pick(k) \in F /\ Rank(F, pick(k)) = k - place[p]
      OBVIOUS
    <3>1. k - place[p] \in 0 .. n - 1
      BY <1>1 DEF Positions
    <3> QED
      BY <2>2, <3>1
  <2>4. \A i \in F : place[p] + Rank(F, i) \in Positions(p) /\ pick(place[p] + Rank(F, i)) = i
    <3> SUFFICES ASSUME NEW i \in F
                 PROVE  place[p] + Rank(F, i) \in Positions(p) /\ pick(place[p] + Rank(F, i)) = i
      OBVIOUS
    <3>1. Rank(F, i) \in 0 .. n - 1
      BY <2>2
    <3>2. place[p] + Rank(F, i) \in Positions(p) /\ (place[p] + Rank(F, i)) - place[p] = Rank(F, i)
      BY <1>1, <3>1 DEF Positions
    <3> QED
      BY <2>2, <2>3, <3>2
  <2> HIDE DEF F, pick
  <2>5. \A k \in Positions(p) : Written(p, k) \in Answer(p)
    BY <2>1, <2>3, FoundArePartners DEF F
  <2>6. \A b \in Partners(p) : \E k \in Positions(p) : Written(p, k) = <<p, b>>
    BY <1>3, <2>1, <2>4, PartnersAreFound DEF F, RightJoins
  <2>7. \A j, k \in Positions(p) : Written(p, j) = Written(p, k) => j = k
    <3> SUFFICES ASSUME NEW j \in Positions(p), NEW k \in Positions(p), Written(p, j) = Written(p, k)
                 PROVE  j = k
      OBVIOUS
    <3>1. RowAt(p, pick(j)) = RowAt(p, pick(k))
      BY <2>1
    <3>2. pick(j) = pick(k)
      BY <2>3, <3>1, FoundOnce DEF F
    <3>3. j - place[p] = k - place[p]
      BY <2>3, <3>2
    <3> QED
      BY <1>1, <3>3 DEF Positions
  <2> QED
    BY <2>1, <2>5, <2>6, <2>7
<1> QED
  BY <1>2, <1>3 DEF Reserves

\* What the invariant of the output says after a step of the probe, in terms of what
\* the step leaves alone.
Unmoved == /\ \A p \in ProbeRows : FoundBy(p)' = FoundBy(p)
           /\ \A p \in ProbeRows : Stops(ProbeRow(p))' = Stops(ProbeRow(p))
           /\ \A p : Answer(p)' = Answer(p)
           /\ ProbeRows' = ProbeRows /\ Reserves' = Reserves /\ input' = input

LEMMA ProbesMoveNothing ==
    ASSUME Settled, pc = "probe", [Next]_vars
    PROVE  Unmoved
<1>1. input' = input
  BY StepsKeepTheJoin
<1>2. ~ \E t \in BuildRows : Claim(t) \/ FillKeys(t) \/ FillRow(t)
  BY BuildSteps DEF Building
<1>3. at' = at /\ \A s \in Slots : ht'[s].keys = ht[s].keys /\ ht'[s].row = ht[s].row
  BY <1>2, OtherSteps DEF Settled, IInv
<1> QED
  BY <1>1, <1>3, SameFound, SameJoin, SameMeaning DEF Unmoved

LEMMA MarkKeepsOut ==
    ASSUME Settled, Unmoved, OutIsRight, NEW p \in ProbeRows, ProbeMark(p)
    PROVE  OutIsRight'
<1> DEFINE mark == <<p, IF Partners(p) # {} THEN 1 ELSE 0>>
<1>1. /\ out' = [i \in DOMAIN out \cup {p} |-> IF i = p THEN mark ELSE out[i]]
      /\ probe' = [probe EXCEPT ![p] = "done"] /\ probe[p] = "probe" /\ input.join = "MARK"
      /\ UNCHANGED <<place, total>>
  BY FoundIfPartnered DEF ProbeMark, ProbeRow, FoundBy
<1>2. probe \in [ProbeRows -> {"probe", "write", "done"}]
  BY DEF Settled, IInv, Typed, TypeOK
<1>3. \A q \in ProbeRows : (probe'[q] = "done" <=> probe[q] = "done" \/ q = p) /\ probe'[q] # "write"
  <2>1. \A q \in ProbeRows : probe[q] # "write"
    BY <1>1 DEF OutIsRight, Reserved, Reserves
  <2> QED
    BY <1>1, <1>2, <2>1
<1>4. DOMAIN out \subseteq {q \in ProbeRows : probe[q] = "done"} /\ p \notin DOMAIN out
  BY <1>1 DEF OutIsRight, OutPlaces
<1>5. Answer(p) = {mark} /\ mark \in Answer(p)
  BY <1>1 DEF Answer
<1>6. DOMAIN out' = DOMAIN out \cup {p} /\ out'[p] = mark /\ \A i \in DOMAIN out : out'[i] = out[i]
  BY <1>1, <1>4
<1> HIDE DEF mark
<1>7. OutFaithful'
  BY <1>3, <1>5, <1>6 DEF OutIsRight, OutFaithful, Unmoved
<1>8. OutComplete'
  <2> SUFFICES ASSUME NEW q \in ProbeRows, probe'[q] = "done", NEW r \in Answer(q)
               PROVE  \E k \in DOMAIN out' : out'[k] = r
    BY DEF OutComplete, Unmoved
  <2>1. CASE q = p
    BY <2>1, <1>5, <1>6
  <2>2. CASE q # p
    BY <2>2, <1>3, <1>6 DEF OutIsRight, OutComplete
  <2> QED
    BY <2>1, <2>2
<1>9. OutOnce'
  <2>1. ASSUME NEW j \in DOMAIN out PROVE out[j] # mark
    <3>1. PICK q \in ProbeRows : probe[q] = "done" /\ out[j] \in Answer(q)
      BY DEF OutIsRight, OutFaithful
    <3>2. q # p
      BY <1>1, <3>1
    <3> QED
      BY <1>5, <3>1, <3>2, AnswersApart
  <2> QED
    BY <1>6, <2>1 DEF OutIsRight, OutOnce
<1>10. OutPlaces'
  BY <1>1, <1>3, <1>4, <1>6 DEF OutPlaces, Unmoved
<1>11. Reserved'
  BY <1>3 DEF Reserved, Unmoved
<1> QED
  BY <1>7, <1>8, <1>9, <1>10, <1>11 DEF OutIsRight

LEMMA SemiAntiKeepsOut ==
    ASSUME Settled, Unmoved, OutIsRight, NEW p \in ProbeRows, ProbeRightSemiAnti(p)
    PROVE  OutIsRight'
<1>1. /\ probe' = [probe EXCEPT ![p] = "done"] /\ input.join \in {"RIGHT_SEMI", "RIGHT_ANTI"}
      /\ UNCHANGED <<out, place, total>>
  BY DEF ProbeRightSemiAnti
<1>2. probe \in [ProbeRows -> {"probe", "write", "done"}]
  BY DEF Settled, IInv, Typed, TypeOK
<1>3. \A q : Answer(q) = {}
  BY <1>1 DEF Answer
<1>4. \A q \in ProbeRows : probe'[q] # "write"
  <2>1. \A q \in ProbeRows : probe[q] # "write"
    BY <1>1 DEF OutIsRight, Reserved, Reserves
  <2> QED
    BY <1>1, <1>2, <2>1
<1>5. OutFaithful' /\ OutComplete' /\ OutOnce'
  BY <1>1, <1>3 DEF OutIsRight, OutFaithful, OutComplete, OutOnce, Unmoved
<1>6. OutPlaces'
  BY <1>1 DEF OutIsRight, OutPlaces, Unmoved
<1>7. Reserved'
  BY <1>4 DEF Reserved, Unmoved
<1> QED
  BY <1>5, <1>6, <1>7 DEF OutIsRight

LEMMA CountKeepsOut ==
    ASSUME Settled, Unmoved, OutIsRight, NEW p \in ProbeRows, Count(p)
    PROVE  OutIsRight'
<1> DEFINE n == Cardinality(FoundBy(p))
<1>1. /\ place' = [place EXCEPT ![p] = total] /\ total' = total + n
      /\ probe' = [probe EXCEPT ![p] = "write"] /\ probe[p] = "probe" /\ out' = out
      /\ Reserves /\ Stops(ProbeRow(p))
  BY DEF Count, ProbeRow, FoundBy
<1>2. /\ probe \in [ProbeRows -> {"probe", "write", "done"}]
      /\ place \in [ProbeRows -> Nat] /\ total \in Nat
  BY DEF Settled, IInv, Typed, TypeOK
<1>3. n \in Nat
  BY FoundAreNumbers
<1>4. \A q \in ProbeRows : probe'[q] = "done" <=> probe[q] = "done"
  BY <1>1, <1>2
<1>5. OutFaithful' /\ OutComplete' /\ OutOnce'
  BY <1>1, <1>4 DEF OutIsRight, OutFaithful, OutComplete, OutOnce, Unmoved
<1> HIDE DEF n
<1>6. DOMAIN out \subseteq 0 .. total - 1 /\ OutPlaces'
  <2>1. DOMAIN out \subseteq 0 .. total - 1
    BY <1>1 DEF OutIsRight, OutPlaces, Reserves
  <2>2. 0 .. total - 1 \subseteq 0 .. total' - 1
    BY <1>1, <1>2, <1>3
  <2> QED
    BY <1>1, <2>1, <2>2 DEF OutPlaces, Unmoved, Reserves
<1>7. Positions(p)' = total .. total + n - 1
  BY <1>1, <1>2 DEF Positions, Unmoved, n
<1>8. \A q \in ProbeRows : q # p => Positions(q)' = Positions(q) /\ probe'[q] = probe[q]
  BY <1>1, <1>2 DEF Positions, Unmoved
<1>9. Reserved'
  <2> SUFFICES ASSUME NEW q \in ProbeRows, probe'[q] = "write"
               PROVE  /\ Stops(ProbeRow(q)) /\ Reserves
                      /\ Positions(q)' \subseteq 0 .. total' - 1 /\ Positions(q)' \cap DOMAIN out' = {}
                      /\ \A u \in ProbeRows : u # q /\ probe'[u] = "write"
                             => Positions(q)' \cap Positions(u)' = {}
    BY DEF Reserved, Unmoved
  <2>1. \A u \in ProbeRows : u # p /\ probe'[u] = "write" =>
            /\ Positions(u)' \subseteq 0 .. total - 1 /\ Positions(u)' \cap DOMAIN out = {}
            /\ Positions(u)' \cap Positions(p)' = {} /\ Stops(ProbeRow(u))
    <3> SUFFICES ASSUME NEW u \in ProbeRows, u # p, probe'[u] = "write"
                 PROVE  /\ Positions(u)' \subseteq 0 .. total - 1 /\ Positions(u)' \cap DOMAIN out = {}
                        /\ Positions(u)' \cap Positions(p)' = {} /\ Stops(ProbeRow(u))
      OBVIOUS
    <3>1. Positions(u)' = Positions(u) /\ probe[u] = "write"
      BY <1>8
    <3>2. /\ Positions(u) \subseteq 0 .. total - 1 /\ Positions(u) \cap DOMAIN out = {}
          /\ Stops(ProbeRow(u))
      BY <3>1 DEF OutIsRight, Reserved
    <3>3. (0 .. total - 1) \cap (total .. total + n - 1) = {}
      BY <1>2, <1>3
    <3> QED
      BY <1>7, <3>1, <3>2, <3>3
  <2>2. CASE q = p
    <3>1. Positions(p)' \subseteq 0 .. total' - 1 /\ Positions(p)' \cap DOMAIN out = {}
      BY <1>1, <1>2, <1>3, <1>6, <1>7
    <3> QED
      BY <1>1, <2>1, <2>2, <3>1
  <2>3. CASE q # p
    <3>1. 0 .. total - 1 \subseteq 0 .. total' - 1
      BY <1>1, <1>2, <1>3
    <3>2. ASSUME NEW u \in ProbeRows, u # q, probe'[u] = "write"
          PROVE  Positions(q)' \cap Positions(u)' = {}
      <4>1. CASE u = p
        BY <2>1, <2>3, <4>1
      <4>2. CASE u # p
        BY <1>8, <2>3, <3>2, <4>2 DEF OutIsRight, Reserved
      <4> QED
        BY <4>1, <4>2
    <3> QED
      BY <1>1, <2>1, <2>3, <3>1, <3>2
  <2> QED
    BY <2>2, <2>3
<1> QED
  BY <1>5, <1>6, <1>9 DEF OutIsRight

LEMMA WriteKeepsOut ==
    ASSUME Settled, Unmoved, OutIsRight, NEW p \in ProbeRows, Write(p)
    PROVE  OutIsRight'
<1>1. /\ out' = [k \in DOMAIN out \cup Positions(p) |-> IF k \in Positions(p) THEN Written(p, k) ELSE out[k]]
      /\ probe' = [probe EXCEPT ![p] = "done"] /\ probe[p] = "write"
      /\ UNCHANGED <<place, total>> /\ Reserves
  BY DEF Write, ProbeRow, FoundBy, Positions, Written, Rank, RowAt
<1>2. probe \in [ProbeRows -> {"probe", "write", "done"}]
  BY DEF Settled, IInv, Typed, TypeOK
<1>3. /\ Stops(ProbeRow(p)) /\ Positions(p) \subseteq 0 .. total - 1 /\ Positions(p) \cap DOMAIN out = {}
      /\ \A q \in ProbeRows : q # p /\ probe[q] = "write" => Positions(p) \cap Positions(q) = {}
  BY <1>1 DEF OutIsRight, Reserved
<1>4. /\ \A k \in Positions(p) : Written(p, k) \in Answer(p)
      /\ \A r \in Answer(p) : \E k \in Positions(p) : Written(p, k) = r
      /\ \A j, k \in Positions(p) : Written(p, j) = Written(p, k) => j = k
  BY <1>1, <1>3, WritesTheAnswer
<1>5. /\ DOMAIN out' = DOMAIN out \cup Positions(p)
      /\ \A k \in Positions(p) : out'[k] = Written(p, k)
      /\ \A k \in DOMAIN out : out'[k] = out[k]
  BY <1>1, <1>3
<1>6. \A q \in ProbeRows : (probe'[q] = "done" <=> probe[q] = "done" \/ q = p)
  BY <1>1, <1>2
<1>7. OutFaithful'
  BY <1>4, <1>5, <1>6 DEF OutIsRight, OutFaithful, Unmoved
<1>8. OutComplete'
  <2> SUFFICES ASSUME NEW q \in ProbeRows, probe'[q] = "done", NEW r \in Answer(q)
               PROVE  \E k \in DOMAIN out' : out'[k] = r
    BY DEF OutComplete, Unmoved
  <2>1. CASE q = p
    BY <2>1, <1>4, <1>5
  <2>2. CASE q # p
    BY <2>2, <1>5, <1>6 DEF OutIsRight, OutComplete
  <2> QED
    BY <2>1, <2>2
<1>9. OutOnce'
  <2>1. ASSUME NEW j \in DOMAIN out, NEW k \in Positions(p) PROVE out[j] # Written(p, k)
    <3>1. PICK q \in ProbeRows : probe[q] = "done" /\ out[j] \in Answer(q)
      BY DEF OutIsRight, OutFaithful
    <3>2. q # p
      BY <1>1, <3>1
    <3> QED
      BY <1>4, <3>1, <3>2, AnswersApart
  <2>2. \A j, k \in DOMAIN out : out[j] = out[k] => j = k
    BY DEF OutIsRight, OutOnce
  <2> QED
    BY <1>4, <1>5, <2>1, <2>2 DEF OutOnce
<1>10. OutPlaces'
  BY <1>1, <1>3, <1>5 DEF OutIsRight, OutPlaces, Unmoved, Reserves
<1>11. \A q \in ProbeRows : Positions(q)' = Positions(q)
  BY <1>1 DEF Positions, Unmoved
<1>12. \A q \in ProbeRows : probe'[q] = "write" => probe[q] = "write" /\ q # p
  BY <1>1, <1>2
<1>13. Reserved'
  <2> SUFFICES ASSUME NEW q \in ProbeRows, probe'[q] = "write"
               PROVE  /\ Stops(ProbeRow(q)) /\ Reserves
                      /\ Positions(q) \subseteq 0 .. total - 1 /\ Positions(q) \cap DOMAIN out' = {}
                      /\ \A u \in ProbeRows : u # q /\ probe'[u] = "write"
                             => Positions(q) \cap Positions(u) = {}
    BY <1>1, <1>11 DEF Reserved, Unmoved
  <2>1. probe[q] = "write" /\ q # p
    BY <1>12
  <2>2. /\ Stops(ProbeRow(q)) /\ Positions(q) \subseteq 0 .. total - 1 /\ Positions(q) \cap DOMAIN out = {}
        /\ \A u \in ProbeRows : u # q /\ probe[u] = "write" => Positions(q) \cap Positions(u) = {}
    BY <2>1 DEF OutIsRight, Reserved
  <2>3. Positions(q) \cap DOMAIN out' = {}
    BY <1>3, <1>5, <2>1, <2>2
  <2> QED
    BY <1>1, <1>12, <2>2, <2>3
<1> QED
  BY <1>7, <1>8, <1>9, <1>10, <1>13 DEF OutIsRight

LEMMA NextOutRight ==
    ASSUME IInv, BuildEnded, SlotsOwned, ProbesWait, OutRight, [Next]_vars
    PROVE  OutRight'
<1>1. input' = input
  BY StepsKeepTheJoin
<1>2. ProbeRows' = ProbeRows /\ Ready' = Ready /\ \A p : Answer(p)' = Answer(p)
  BY <1>1, SameJoin, SameMeaning
<1> SUFFICES ASSUME pc' \in {"probe", "scan"}, Ready
             PROVE  OutIsRight'
  BY <1>2 DEF OutRight
<1>3. CASE EndBuild
  <2>1. pc = "build" /\ UNCHANGED <<ht, at, probe, out, total>>
    BY <1>3 DEF EndBuild, Building
  <2>2. DOMAIN out' = {} /\ \A p \in ProbeRows : probe'[p] = "probe"
    BY <2>1 DEF ProbesWait
  <2> QED
    BY <1>2, <2>2 DEF OutIsRight, OutFaithful, OutComplete, OutOnce, OutPlaces, Reserved
<1>4. CASE \E p \in ProbeRows : ProbeMark(p) \/ ProbeRightSemiAnti(p) \/ Count(p) \/ Write(p)
  <2>1. pc = "probe"
    BY <1>4 DEF ProbeMark, ProbeRightSemiAnti, Count, Write, Probing
  <2>2. Settled /\ OutIsRight
    BY <2>1 DEF Settled, Probed, OutRight
  <2>3. Unmoved
    BY <2>1, <2>2, ProbesMoveNothing
  <2> QED
    BY <1>4, <2>2, <2>3, MarkKeepsOut, SemiAntiKeepsOut, CountKeepsOut, WriteKeepsOut
<1>5. CASE EndProbe
  <2>1. /\ pc = "probe" /\ pc' = "scan" /\ input.join # "MARK"
        /\ UNCHANGED <<ht, build, at, probe, place, total>>
    BY <1>5 DEF EndProbe
  <2>2. out' = out
    BY <1>5, <2>1 DEF EndProbe
  <2>3. Settled /\ OutIsRight
    BY <2>1 DEF Settled, Probed, OutRight
  <2>4. Unmoved
    BY <2>1, <2>3, ProbesMoveNothing
  <2>5. \A p \in ProbeRows : Positions(p)' = Positions(p)
    BY <2>1, <2>4 DEF Positions, Unmoved
  <2>6. OutFaithful' /\ OutComplete' /\ OutOnce' /\ OutPlaces'
    BY <2>1, <2>2, <2>3, <2>4 DEF OutIsRight, OutFaithful, OutComplete, OutOnce, OutPlaces, Unmoved
  <2>7. Reserved'
    BY <2>1, <2>2, <2>3, <2>4, <2>5 DEF OutIsRight, Reserved, Unmoved
  <2> QED
    BY <2>6, <2>7 DEF OutIsRight
<1>6. CASE UNCHANGED vars
  <2>1. UNCHANGED <<input, ht, build, at, probe, place, total, out, pc>>
    BY <1>6 DEF vars
  <2>2. OutIsRight
    BY <2>1 DEF OutRight
  <2>3. Settled
    BY <2>1 DEF Settled, Probed
  <2>4. /\ \A p \in ProbeRows : FoundBy(p)' = FoundBy(p) /\ Stops(ProbeRow(p))' = Stops(ProbeRow(p))
        /\ Reserves' = Reserves
    BY <2>1, <2>3, SameFound, SameMeaning
  <2>5. \A p \in ProbeRows : Positions(p)' = Positions(p)
    BY <2>1, <2>4 DEF Positions
  <2>6. OutFaithful' /\ OutComplete' /\ OutOnce' /\ OutPlaces'
    BY <1>2, <2>1, <2>2 DEF OutIsRight, OutFaithful, OutComplete, OutOnce, OutPlaces
  <2>7. Reserved'
    BY <1>2, <2>1, <2>2, <2>4, <2>5 DEF OutIsRight, Reserved
  <2> QED
    BY <2>6, <2>7 DEF OutIsRight
<1>7. CASE RefuseJoin \/ ProbeReturns \/ Scan
  BY <1>7, ReadyIsHashed DEF RefuseJoin, Scan, IInv, Typed
<1>8. CASE \E t \in BuildRows : Claim(t) \/ FillKeys(t) \/ FillRow(t)
  BY <1>8, BuildSteps DEF Building
<1> QED
  BY <1>3, <1>4, <1>5, <1>6, <1>7, <1>8 DEF Next

-----------------------------------------------------------------------------
(* The answer *)

\* An output without repetitions has as many places as it has rows.
LEMMA OneToOne ==
    ASSUME NEW D, IsFiniteSet(D), NEW f, \A j, k \in D : f[j] = f[k] => j = k
    PROVE  Cardinality({f[k] : k \in D}) = Cardinality(D)
<1> DEFINE g == [k \in D |-> f[k]]
           R == {f[k] : k \in D}
<1>1. g \in [D -> R] /\ (\A k \in D : g[k] = f[k]) /\ (\A r \in R : \E k \in D : g[k] = r)
  OBVIOUS
<1>2. \A j, k \in D : g[j] = g[k] => j = k
  BY <1>1
<1>3. g \in Bijection(D, R)
  <2> HIDE DEF g, R
  <2> QED
    BY <1>1, <1>2 DEF Bijection, Injection, Surjection, IsInjective
<1>4. Cardinality(R) = Cardinality(D)
  <2> HIDE DEF g, R
  <2>1. ExistsBijection(D, R)
    BY <1>3 DEF ExistsBijection
  <2> QED
    BY <2>1, FS_Bijection
<1> QED
  BY <1>4

LEMMA ProbeRowsAreFinite ==
    ASSUME Settled
    PROVE  IsFiniteSet(ProbeRows)
<1> DEFINE n == Len(input.probe)
<1>1. ProbeRows = 1 .. n
  BY ProbeRowFacts, InputFacts
<1>2. n \in Nat
  BY ProbeRowFacts, HashJoinAssumption, LenProperties DEF HashJoinAssumption
<1> HIDE DEF n
<1> QED
  BY <1>1, <1>2, FS_Interval

LEMMA PlacesAreFinite ==
    ASSUME Settled, OutIsRight
    PROVE  IsFiniteSet(DOMAIN out)
<1>1. IsFiniteSet(ProbeRows)
  BY ProbeRowsAreFinite
<1>2. IsFiniteSet(0 .. total - 1)
  <2>1. total \in Nat
    BY DEF Settled, IInv, Typed, TypeOK
  <2> QED
    BY <2>1, FS_Interval
<1>3. DOMAIN out \subseteq ProbeRows \/ DOMAIN out \subseteq 0 .. total - 1
  BY DEF OutIsRight, OutPlaces
<1> QED
  BY <1>1, <1>2, <1>3, FS_Subset

\* Nothing is launched when one of the sides is empty.
LEMMA NothingLaunched ==
    ASSUME Settled, ~ Launched
    PROVE  ProbeRows = {} \/ BuildRows = {}
<1>1. HtLen \in Nat /\ (BuildRows # {} => HtLen \in Nat \ {0})
  BY ProbeRowFacts
<1> QED
  BY <1>1 DEF Launched

\* When the probes have ended, the output holds what they answer.
LEMMA OutIsTheAnswers ==
    ASSUME Settled, OutIsRight, (\A p \in ProbeRows : probe[p] = "done") \/ BuildRows = {},
           input.join = "MARK" => \A p \in ProbeRows : probe[p] = "done"
    PROVE  {out[k] : k \in DOMAIN out} = UNION {Answer(p) : p \in ProbeRows}
<1>1. ASSUME NEW k \in DOMAIN out PROVE \E p \in ProbeRows : out[k] \in Answer(p)
  BY DEF OutIsRight, OutFaithful
<1>2. ASSUME NEW p \in ProbeRows, NEW r \in Answer(p) PROVE \E k \in DOMAIN out : out[k] = r
  <2>1. CASE probe[p] = "done"
    BY <2>1 DEF OutIsRight, OutComplete
  <2>2. CASE BuildRows = {} /\ input.join # "MARK"
    <3>1. Partners(p) = {}
      BY <2>2 DEF Partners
    <3>2. Answer(p) = {}
      BY <2>2, <3>1 DEF Answer
    <3> QED
      BY <3>2
  <2> QED
    BY <2>1, <2>2
<1> QED
  BY <1>1, <1>2

\* A SEMI or MARK join ends with its probes.
LEMMA ProbesGiveTheJoin ==
    ASSUME Settled, pc = "probe", OutIsRight, EndProbe, input.join \in {"SEMI", "MARK"}
    PROVE  /\ {out'[k] : k \in DOMAIN out'} = Expected
           /\ Cardinality(DOMAIN out') = Cardinality(Expected)
<1>1. UNION {Answer(p) : p \in ProbeRows} = Expected
  <2>1. CASE input.join = "SEMI"
    <3>1. \A p \in ProbeRows : Answer(p) = {r \in {<<p, 0>>} : \E b \in BuildRows : Matches(p, b)}
      BY <2>1 DEF Answer, Partners
    <3>2. Expected = {<<p, 0>> : p \in {q \in ProbeRows : \E b \in BuildRows : Matches(q, b)}}
      BY <2>1 DEF Expected
    <3> QED
      BY <3>1, <3>2
  <2>2. CASE input.join = "MARK"
    <3>1. \A p \in ProbeRows : Answer(p) = {<<p, IF \E b \in BuildRows : Matches(p, b) THEN 1 ELSE 0>>}
      BY <2>2 DEF Answer, Partners
    <3>2. Expected = {<<p, IF \E b \in BuildRows : Matches(p, b) THEN 1 ELSE 0>> : p \in ProbeRows}
      BY <2>2 DEF Expected
    <3> QED
      BY <3>1, <3>2
  <2> QED
    BY <2>1, <2>2
<1>2. IsFiniteSet(DOMAIN out') /\ (\A j, k \in DOMAIN out' : out'[j] = out'[k] => j = k)
        /\ {out'[k] : k \in DOMAIN out'} = Expected
  <2>1. CASE ~ Launched /\ input.join = "MARK"
    <3>1. out' = [p \in ProbeRows |-> <<p, 0>>]
      BY <2>1 DEF EndProbe
    <3>2. ProbeRows = {} \/ BuildRows = {}
      BY <2>1, NothingLaunched
    <3>3. Expected = {<<p, IF \E b \in BuildRows : Matches(p, b) THEN 1 ELSE 0>> : p \in ProbeRows}
      BY <2>1 DEF Expected
    <3>4. Expected = {<<p, 0>> : p \in ProbeRows}
      BY <3>2, <3>3
    <3>5. IsFiniteSet(ProbeRows)
      BY ProbeRowsAreFinite
    <3> QED
      BY <3>1, <3>4, <3>5
  <2>2. CASE Launched \/ input.join # "MARK"
    <3>1. out' = out /\ (Launched => \A p \in ProbeRows : probe[p] = "done")
      BY <2>2 DEF EndProbe
    <3>2. (\A p \in ProbeRows : probe[p] = "done") \/ BuildRows = {}
      BY <3>1, NothingLaunched
    <3>3. {out[k] : k \in DOMAIN out} = Expected
      BY <1>1, <2>2, <3>1, <3>2, OutIsTheAnswers
    <3>4. IsFiniteSet(DOMAIN out)
      BY PlacesAreFinite
    <3> QED
      BY <3>1, <3>3, <3>4 DEF OutIsRight, OutOnce
  <2> QED
    BY <2>1, <2>2
<1>3. Cardinality({out'[k] : k \in DOMAIN out'}) = Cardinality(DOMAIN out')
  BY <1>2, OneToOne
<1> QED
  BY <1>2, <1>3

\* The build rows a right join adds behind the answers of its probes.
Wanted(b) == IF input.join = "RIGHT_SEMI" THEN Partnered(b) ELSE ~ Partnered(b)

\* The slots selected are those of the rows wanted.
LEMMA SelectedAreWanted ==
    ASSUME Settled, MarksRight, ScanReady, pc = "scan", NEW s \in Slots
    PROVE  Selected(s) <=> \E b \in BuildRows : At(b) = s /\ ht[s].row = b /\ Wanted(b)
<1>1. input.join \in RightJoins /\ Probed
  BY DEF ScanReady, Settled, Probed
<1>2. ASSUME NEW b \in BuildRows PROVE ht[At(b)].mark # Empty <=> Partnered(b)
  <2>1. \A p \in ProbeRows : probe[p] = "done"
    BY <1>2 DEF ScanReady, Settled
  <2> QED
    BY <1>1, <2>1 DEF MarksRight, Settled, Partnered
<1>3. ASSUME NEW b \in BuildRows PROVE ht[At(b)].row = b /\ b # Empty
  BY OwnerFacts, ProbeRowFacts, InputFacts DEF Empty
<1>4. ASSUME Selected(s) PROVE \E b \in BuildRows : At(b) = s
  BY <1>4, ProbeRowFacts DEF Selected, SlotsOwned, Settled, Ready
<1>5. ASSUME NEW b \in BuildRows, At(b) = s PROVE Selected(s) <=> Wanted(b)
  BY <1>2, <1>3, <1>5 DEF Selected, Wanted
<1> QED
  BY <1>3, <1>4, <1>5

\* A right join ends with the scan of its table.
LEMMA ScanGivesTheJoin ==
    ASSUME Settled, MarksRight, ScanReady, pc = "scan", OutIsRight, Scan
    PROVE  /\ {out'[k] : k \in DOMAIN out'} = Expected
           /\ Cardinality(DOMAIN out') = Cardinality(Expected)
<1> DEFINE rows == {s \in Slots : Selected(s)}
           behind(s) == total + Rank(rows, s)
           positions == {behind(s) : s \in rows}
           row(s) == ht[s].row
           at_(k) == CHOOSE s \in rows : behind(s) = k
<1>1. /\ input.join \in RightJoins
      /\ (\A p \in ProbeRows : probe[p] = "done") \/ BuildRows = {}
  BY DEF ScanReady, Settled
<1>2. out' = [k \in DOMAIN out \cup positions |-> IF k \in positions THEN <<0, row(at_(k))>> ELSE out[k]]
  BY DEF Scan, Rank
<1>3. rows \in SUBSET Int /\ IsFiniteSet(rows) /\ total \in Nat
  <2>1. HtLen \in Nat /\ total \in Nat
    BY ProbeRowFacts DEF Settled, IInv, Typed, TypeOK
  <2>2. IsFiniteSet(Slots) /\ Slots \subseteq Int
    BY <2>1, FS_Interval DEF Slots
  <2> QED
    BY <2>1, <2>2, FS_Subset
<1>4. /\ \A s \in rows : Rank(rows, s) \in Nat
      /\ \A s, r \in rows : Rank(rows, s) = Rank(rows, r) => s = r
  <2> HIDE DEF rows
  <2>1. /\ Cardinality(rows) \in Nat
        /\ \A s \in rows : Rank(rows, s) \in 0 .. Cardinality(rows) - 1
        /\ \A s, r \in rows : Rank(rows, s) = Rank(rows, r) => s = r
    BY <1>3, RankFacts
  <2> QED
    BY <2>1
<1>5. \A s \in rows : \E b \in BuildRows : At(b) = s /\ row(s) = b /\ Wanted(b)
  BY SelectedAreWanted
<1>6. \A b \in BuildRows : Wanted(b) => At(b) \in rows /\ row(At(b)) = b
  <2> SUFFICES ASSUME NEW b \in BuildRows, Wanted(b) PROVE At(b) \in rows /\ row(At(b)) = b
    OBVIOUS
  <2>1. At(b) \in Slots /\ row(At(b)) = b
    BY ProbeRowFacts, OwnerFacts
  <2> QED
    BY <2>1, SelectedAreWanted
<1>7. DOMAIN out \cap positions = {}
  <2>1. DOMAIN out \subseteq 0 .. total - 1
    BY <1>1 DEF OutIsRight, OutPlaces, RightJoins
  <2>2. \A s \in rows : behind(s) \in Int /\ behind(s) >= total
    BY <1>3, <1>4
  <2> HIDE DEF rows, behind
  <2>3. \A k \in positions : k \in Int /\ k >= total
    BY <2>2
  <2> QED
    BY <1>3, <2>1, <2>3
<1>8. \A s, r \in rows : behind(s) = behind(r) => s = r
  <2> SUFFICES ASSUME NEW s \in rows, NEW r \in rows, behind(s) = behind(r) PROVE s = r
    OBVIOUS
  <2>1. Rank(rows, s) \in Nat /\ Rank(rows, r) \in Nat
    BY <1>4
  <2>2. Rank(rows, s) = Rank(rows, r)
    BY <1>3, <2>1
  <2> QED
    BY <1>4, <2>2
<1> HIDE DEF rows, behind, row
<1>9. \A s \in rows : behind(s) \in positions /\ at_(behind(s)) = s
  BY <1>8
<1>10. \A k \in positions : at_(k) \in rows /\ behind(at_(k)) = k
  OBVIOUS
<1> HIDE DEF positions, at_
<1>11. /\ DOMAIN out' = DOMAIN out \cup positions
       /\ \A k \in positions : out'[k] = <<0, row(at_(k))>>
       /\ \A k \in DOMAIN out : out'[k] = out[k]
  BY <1>2, <1>7
<1> DEFINE added == {<<0, b>> : b \in {c \in BuildRows : Wanted(c)}}
           answers == UNION {Answer(p) : p \in ProbeRows}
<1>12. {out'[k] : k \in positions} = added
  <2>1. ASSUME NEW k \in positions PROVE \E b \in BuildRows : Wanted(b) /\ out'[k] = <<0, b>>
    BY <1>5, <1>10, <1>11
  <2>2. ASSUME NEW b \in BuildRows, Wanted(b) PROVE \E k \in positions : out'[k] = <<0, b>>
    <3>1. At(b) \in rows /\ row(At(b)) = b
      BY <1>6, <2>2
    <3> QED
      BY <3>1, <1>9, <1>11
  <2> QED
    BY <2>1, <2>2
<1>13. {out[k] : k \in DOMAIN out} = answers
  BY <1>1, OutIsTheAnswers DEF RightJoins
<1>14. {out'[k] : k \in DOMAIN out'} = answers \cup added
  <2> HIDE DEF answers, added
  <2>1. {out'[k] : k \in DOMAIN out} = {out[k] : k \in DOMAIN out}
    BY <1>11
  <2>2. {out'[k] : k \in DOMAIN out'} = {out'[k] : k \in DOMAIN out} \cup {out'[k] : k \in positions}
    BY <1>11
  <2> QED
    BY <1>12, <1>13, <2>1, <2>2
<1>15. answers \cup added = Expected
  <2>1. CASE input.join = "RIGHT"
    <3>1. \A p \in ProbeRows : Answer(p) = {<<p, b>> : b \in {c \in BuildRows : Matches(p, c)}}
      BY <2>1 DEF Answer, Partners
    <3>2. answers = {r \in ProbeRows \X BuildRows : Matches(r[1], r[2])}
      BY <3>1
    <3>3. Expected = {r \in ProbeRows \X BuildRows : Matches(r[1], r[2])}
                        \cup {<<0, b>> : b \in {c \in BuildRows : ~ Partnered(c)}}
      BY <2>1 DEF Expected
    <3>4. added = {<<0, b>> : b \in {c \in BuildRows : ~ Partnered(c)}}
      BY <2>1 DEF Wanted
    <3> HIDE DEF answers, added
    <3> QED
      BY <3>2, <3>3, <3>4
  <2>2. CASE input.join \in {"RIGHT_SEMI", "RIGHT_ANTI"}
    <3>1. answers = {}
      BY <2>2 DEF Answer
    <3>2. Expected = added
      BY <2>2 DEF Expected, Wanted
    <3> HIDE DEF answers, added
    <3> QED
      BY <3>1, <3>2
  <2> QED
    BY <1>1, <2>1, <2>2 DEF RightJoins
<1>16. \A j, k \in DOMAIN out' : out'[j] = out'[k] => j = k
  <2>1. ASSUME NEW j \in DOMAIN out, NEW k \in positions PROVE out'[j] # out'[k]
    <3>1. PICK p \in ProbeRows : out[j] \in Answer(p)
      BY DEF OutIsRight, OutFaithful
    <3>2. p # 0
      BY ProbeRowFacts, InputFacts
    <3>3. \E b : out[j] = <<p, b>>
      BY <1>1, <3>1 DEF Answer, RightJoins
    <3> QED
      BY <1>11, <3>2, <3>3
  <2>2. ASSUME NEW j \in positions, NEW k \in positions, out'[j] = out'[k] PROVE j = k
    <3>1. row(at_(j)) = row(at_(k))
      BY <1>11, <2>2
    <3>2. at_(j) = at_(k)
      BY <1>5, <1>10, <3>1
    <3> QED
      BY <1>10, <3>2
  <2>3. ASSUME NEW j \in DOMAIN out, NEW k \in DOMAIN out, out'[j] = out'[k] PROVE j = k
    BY <1>11, <2>3 DEF OutIsRight, OutOnce
  <2> QED
    BY <1>11, <2>1, <2>2, <2>3
<1>17. IsFiniteSet(DOMAIN out')
  <2> DEFINE places == [s \in rows |-> behind(s)]
  <2>1. places \in Surjection(rows, positions)
    BY DEF positions, Surjection
  <2>2. IsFiniteSet(positions)
    <3> HIDE DEF places
    <3> QED
      BY <1>3, <2>1, FS_Surjection
  <2> QED
    BY <1>11, <2>2, PlacesAreFinite, FS_Union
<1>18. Cardinality({out'[k] : k \in DOMAIN out'}) = Cardinality(DOMAIN out')
  BY <1>16, <1>17, OneToOne
<1> QED
  BY <1>14, <1>15, <1>18

LEMMA NextAnswerIsJoin ==
    ASSUME AInv, [Next]_vars
    PROVE  AnswerIsJoin'
<1>1. input' = input
  BY StepsKeepTheJoin
<1>2. Ready' = Ready /\ Expected' = Expected
  BY <1>1, SameMeaning
<1> SUFFICES ASSUME pc' = "done", Ready
             PROVE  /\ {out'[k] : k \in DOMAIN out'} = Expected
                    /\ Cardinality(DOMAIN out') = Cardinality(Expected)
  BY <1>2 DEF AnswerIsJoin
<1>3. CASE EndProbe
  <2>1. pc = "probe" /\ input.join \in {"SEMI", "MARK"}
    BY <1>3 DEF EndProbe
  <2>2. Settled /\ OutIsRight
    BY <2>1 DEF AInv, Settled, Probed, OutRight
  <2> QED
    BY <1>3, <2>1, <2>2, ProbesGiveTheJoin
<1>4. CASE Scan
  <2>1. pc = "scan"
    BY <1>4 DEF Scan
  <2>2. Settled /\ OutIsRight
    BY <2>1 DEF AInv, Settled, Probed, OutRight
  <2> QED
    BY <1>4, <2>1, <2>2, ScanGivesTheJoin DEF AInv
<1>5. CASE UNCHANGED vars
  BY <1>5 DEF vars, AInv, AnswerIsJoin
<1>6. CASE RefuseJoin \/ EndBuild \/ ProbeReturns
  BY <1>6, ReadyIsHashed DEF RefuseJoin, EndBuild, AInv, IInv, Typed
<1>7. CASE \E t \in BuildRows : Claim(t) \/ FillKeys(t) \/ FillRow(t)
  BY <1>7, BuildSteps DEF Building
<1>8. CASE \E p \in ProbeRows : ProbeMark(p) \/ ProbeRightSemiAnti(p) \/ Count(p) \/ Write(p)
  BY <1>8 DEF ProbeMark, ProbeRightSemiAnti, Count, Write, Probing
<1> QED
  BY <1>3, <1>4, <1>5, <1>6, <1>7, <1>8 DEF Next

LEMMA InitAnswers == Init => AInv
<1> SUFFICES ASSUME Init PROVE AInv
  OBVIOUS
<1>1. IInv /\ pc = "build"
  BY InitClaims DEF Init
<1>2. \A s \in Slots : ht[s] = NoEntry
  BY DEF Init
<1>3. SlotsOwned
  <2>1. NoEntry.keys[1] = Empty
    BY <1>1, InputFacts DEF NoEntry, IInv, Typed
  <2> QED
    BY <1>2, <2>1 DEF SlotsOwned, NoEntry
<1>4. ProbesWait
  BY <1>2 DEF Init, ProbesWait, NoEntry
<1> QED
  BY <1>1, <1>3, <1>4
     DEF AInv, BuildEnded, Probed, MarksRight, OutRight, ScanReady, AnswerIsJoin

LEMMA NextAnswers == AInv /\ [Next]_vars => AInv'
<1> SUFFICES ASSUME AInv, [Next]_vars PROVE AInv'
  OBVIOUS
<1>1. IInv'
  BY NextClaims DEF AInv
<1>2. BuildEnded' /\ SlotsOwned' /\ ProbesWait'
  BY NextBuildEnded, NextSlotsOwned, NextProbesWait DEF AInv
<1>3. MarksRight' /\ OutRight' /\ ScanReady'
  BY NextMarksRight, NextOutRight, NextScanReady DEF AInv
<1>4. AnswerIsJoin'
  BY NextAnswerIsJoin
<1> QED
  BY <1>1, <1>2, <1>3, <1>4 DEF AInv

\* The output of the kernels of GPUPhysicalHashJoin is the join, every row of it once
\* and nothing else, whatever the order in which the threads claim slots, reserve
\* places and mark, for any rows, any types of the keys, any stride and any length of
\* the table: unless a key is the word of an empty slot, a key is NULL, a right join
\* has a unique build column that repeats or is compared with !=, three equalities or
\* more find rows to place, a key of another width than the first reads as another
\* value, or 0.0 meets -0.0.
THEOREM AnswersAreTheJoin == Spec => []AnswerIsJoin
<1>1. AInv => AnswerIsJoin
  BY DEF AInv
<1> QED
  BY <1>1, InitAnswers, NextAnswers, PTL DEF Spec
=============================================================================
