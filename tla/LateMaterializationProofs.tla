--------------------- MODULE LateMaterializationProofs ---------------------
(***************************************************************************)
(* Proofs about LateMaterialization, for tables of any size, any filters,  *)
(* projections, limits, sorts and aggregates, and plans of any length.     *)
(*                                                                         *)
(* The argument: a block that can be freed belongs to the relation or to   *)
(* one of the stores, never to two of them (Mine), so that materialising  *)
(* a column or composing row ids frees nothing another store needs; and    *)
(* within the relation what is freed is not used again, or it is reread.   *)
(***************************************************************************)
EXTENDS LateMaterialization, SequenceTheorems, FiniteSetTheorems, WellFoundedInduction, TLAPS

-----------------------------------------------------------------------------
(* Types *)

Blocks == [state : {"kept", "live", "free", "inner"}, tag : Int, rows : Seq(Int)]
Cols   == [data : Nat, ids : Nat, len : Nat, count : Nat]
Wants  == [tag : Int, rows : Seq(Int)]
Gots   == [col : Cols, rows : Seq(Int), tag : Int]
Stores == [cols : Seq(Cols), want : Seq(Wants), key : Cols, keyRows : Seq(Int), once : BOOLEAN]
Movings(moved) == [from : Seq(Cols), at : Nat, moved : {moved}, out : Seq(Cols),
                   right : Seq(Cols), rightAt : Nat]

Typed ==
    /\ pool \in Seq(Blocks)
    /\ relation \in Seq(Cols) /\ wanted \in Seq(Wants)
    /\ pc \in {"source", "ready", "read", "compose", "done", "thrown"}
    /\ got \in Seq(Gots)
    /\ moving \in Movings(moving.moved)
    /\ \A m \in DOMAIN moving.moved : m \in Nat /\ moving.moved[m] \in Nat
    /\ cte \in Stores /\ built \in Stores /\ sorted \in Stores
    /\ dropped \in BOOLEAN

(***************************************************************************)
(* The operator in hand, and the columns of the relation it reads.         *)
(***************************************************************************)
All == DOMAIN relation
IsPart(refs) == ToSet(refs) \subseteq All

Tasked ==
    CASE task.kind = "filter"   -> task.hands = All /\ task.by \in Filters /\ IsPart(task.by.refs)
      [] task.kind = "project"  ->
            /\ task.by \in Projections /\ \A i \in DOMAIN task.by : IsPart(task.by[i].refs)
            /\ task.hands = {task.by[i].refs[1] : i \in {j \in DOMAIN task.by : task.by[j].pass}}
      [] task.kind = "limit"    -> task.hands = {} /\ task.by \in Limits
      [] task.kind = "probe"    -> task.hands = All /\ task.by \in All
      [] task.kind = "delim"    -> task.hands = All
      [] task.kind = "build"    -> /\ task.hands = All /\ task.by \in All
                                   /\ task.distinct \in Seq(Nat) /\ IsPart(task.distinct)
      [] task.kind = "distinct" -> task.hands = All
      [] task.kind = "sort"     -> /\ task.hands = {} /\ task.by \in Sorts
                                   /\ ToSet(task.by.cols) \cup {task.by.key} \subseteq All
      [] task.kind = "collect"  -> task.hands = {} /\ task.by \in Seq(Nat) /\ IsPart(task.by)
      [] OTHER -> FALSE

Reading ==
    /\ pc = "read" => /\ Tasked /\ DOMAIN got = All
                      /\ todo \in Seq(All) /\ task.hands \subseteq All
                      /\ \A i \in All : got[i].col.ids = Null /\ got[i].tag # Ids
    /\ pc = "done" => Tasked /\ task.kind = "collect"

\* The plan's columns are in the places of the relation's.
Paired ==
    /\ Len(cte.want) = Len(cte.cols) /\ Len(built.want) = Len(built.cols)
    /\ Len(sorted.want) = Len(sorted.cols)
    /\ pc \in {"ready", "read"} => Len(wanted) = Len(relation)
    /\ pc = "compose" => Len(wanted) = Len(moving.out) + Len(moving.from) + Len(moving.right)

\* The cached columns of the table.
BaseIn(p) == \A c \in 1 .. Columns : c \in DOMAIN p /\ p[c] = [state |-> "kept", tag |-> c, rows |-> [r \in 1 .. Rows |-> r]]

-----------------------------------------------------------------------------
(***************************************************************************)
(* Whose blocks are whose.  The columns that are still used are those of   *)
(* the relation and of the operator in hand, and those of the stores.      *)
(***************************************************************************)
InHand == ToSet(todo) \cup task.hands
Current ==
    CASE pc = "ready" -> ToSet(relation)
      [] pc = "read" /\ task.kind # "distinct" ->
            {relation[j] : j \in InHand} \cup {got[i].col : i \in DOMAIN got}
      [] pc = "compose" -> ToSet(moving.out) \cup ToSet(moving.right)
      [] OTHER -> {}
Composing == IF pc = "compose" THEN ToSet(moving.from) ELSE {}
Lent == ToSet(cte.cols)
Hashed == ToSet(built.cols) \cup {built.key}
Kept == ToSet(sorted.cols)

SoundData(p, c) == c.data # Null =>
    c.data \in DOMAIN p /\ p[c.data].state # "free" /\ p[c.data].tag # Ids
SoundIds(p, b) == b # Null =>
    b \in DOMAIN p /\ p[b].state \in {"live", "kept"} /\ p[b].tag = Ids
Sound(p, c) == SoundData(p, c) /\ SoundIds(p, c.ids)

\* A live block is in use by one of two columns at most.
Mine(p, c, d) == \A b \in {c.data, c.ids} \cap {d.data, d.ids} : b # Null => p[b].state # "live"
Settled(p, c) == \A b \in {c.data, c.ids} : b # Null => p[b].state # "live"

StoresIn(p, once, lent, hashed, kept) ==
    /\ \A c \in lent \cup hashed \cup kept : Sound(p, c)
    /\ \A c \in lent : \A d \in hashed : Mine(p, c, d)
    /\ \A c \in kept : Settled(p, c)
    /\ ~once => \A c \in lent : Settled(p, c)
StoresSound == StoresIn(pool, cte.once, Lent, Hashed, Kept)

UseIn(p, cols, more, stored) ==
    /\ \A c \in cols : Sound(p, c)
    /\ \A c \in cols \cup more : \A d \in stored : Mine(p, c, d)
CurrentSound == UseIn(pool, Current, Composing, Lent \cup Hashed)
DistinctIsStored == pc = "read" /\ task.kind = "distinct" => \A i \in All : relation[i] \in Hashed

\* Columns that share a live block are all late, or none is.
Alike(p, cols) ==
    \A c, d \in cols : c.data = d.data /\ c.data # Null /\ p[c.data].state = "live"
                       => (c.ids = Null <=> d.ids = Null)
SharedAlike == pc \in {"ready", "read"} => Alike(pool, Current)

\* The row ids being composed, new and old.
NewIds(p, b, stored) ==
    /\ b # Null /\ SoundIds(p, b)
    /\ p[b].state = "live" => \A d \in stored : b \notin {d.data, d.ids}
OldIds(p, b, mv) ==
    /\ SoundIds(p, b)
    /\ b # Null /\ p[b].state = "live" =>
          /\ b \notin {mv.at, mv.rightAt}
          /\ \A d \in ToSet(mv.out) : d.ids # b
          /\ \A m \in DOMAIN mv.moved : mv.moved[m] # b
ComposingIn(p, mv, stored) ==
    /\ NewIds(p, mv.at, stored)
    /\ mv.right # <<>> => NewIds(p, mv.rightAt, stored)
    /\ \A m \in DOMAIN mv.moved : NewIds(p, mv.moved[m], stored)
    /\ \A c \in ToSet(mv.from) :
           SoundData(p, c) /\ (c.ids \notin DOMAIN mv.moved => OldIds(p, c.ids, mv))
    /\ \A c \in ToSet(mv.right) : Settled(p, c)
    /\ \A c \in ToSet(mv.out) : c.ids # Null
ComposingSound == pc = "compose" => ComposingIn(pool, moving, Lent \cup Hashed)

Structure ==
    /\ Typed /\ Reading /\ Paired /\ BaseIn(pool)
    /\ StoresSound /\ CurrentSound /\ DistinctIsStored /\ SharedAlike /\ ComposingSound


-----------------------------------------------------------------------------
(* Sequences *)

\* A function on 1 .. n is a sequence.
LEMMA IsSeq ==
    ASSUME NEW s, NEW n \in Nat, DOMAIN s = 1 .. n, NEW T, s \in [1 .. n -> T]
    PROVE  s \in Seq(T) /\ Len(s) = n
  OBVIOUS

\* What a sequence of T is as a function.
LEMMA SeqFacts ==
    ASSUME NEW T, NEW s \in Seq(T)
    PROVE  /\ Len(s) \in Nat /\ DOMAIN s = 1 .. Len(s) /\ s \in [1 .. Len(s) -> T]
           /\ \A i \in DOMAIN s : s[i] \in T
           /\ s = <<>> <=> Len(s) = 0
           /\ \A x \in ToSet(s) : x \in T /\ \E i \in DOMAIN s : x = s[i]
           /\ \A i \in DOMAIN s : s[i] \in ToSet(s)
  BY DEF ToSet

\* A sequence whose items are in U is a sequence of U.
LEMMA WiderSeq ==
    ASSUME NEW T, NEW s \in Seq(T), NEW U, \A i \in 1 .. Len(s) : s[i] \in U
    PROVE  s \in Seq(U)
<1>1. Len(s) \in Nat /\ DOMAIN s = 1 .. Len(s) /\ s \in [1 .. Len(s) -> T]
  BY SeqFacts
<1>2. s \in [1 .. Len(s) -> U]
  BY <1>1
<1> QED
  BY <1>1, <1>2, IsSeq

\* Sequences with the same items are the same.
LEMMA SameSeq ==
    ASSUME NEW T, NEW s \in Seq(T), NEW U, NEW t \in Seq(U), Len(s) = Len(t),
           \A i \in 1 .. Len(s) : s[i] = t[i]
    PROVE  s = t
<1>1. DOMAIN s = 1 .. Len(s) /\ DOMAIN t = 1 .. Len(s) /\ s \in [1 .. Len(s) -> T] /\ t \in [1 .. Len(s) -> U]
  BY SeqFacts
<1> QED
  BY <1>1

\* A gather has a value for every row id.
LEMMA PickFacts ==
    ASSUME NEW s \in Seq(Int), NEW T, NEW ids \in Seq(T)
    PROVE  /\ Pick(s, ids) \in Seq(Int) /\ Len(Pick(s, ids)) = Len(ids)
           /\ \A i \in 1 .. Len(ids) : Pick(s, ids)[i] = IF ids[i] \in 1 .. Len(s) THEN s[ids[i]] ELSE 0
           /\ Pick(s, ids) = <<>> <=> ids = <<>>
<1>1. DOMAIN s = 1 .. Len(s) /\ DOMAIN ids = 1 .. Len(ids) /\ Len(ids) \in Nat /\ Len(s) \in Nat
      /\ \A i \in 1 .. Len(s) : s[i] \in Int
  BY SeqFacts
<1>2. Pick(s, ids) \in [1 .. Len(ids) -> Int] /\ DOMAIN Pick(s, ids) = 1 .. Len(ids)
  BY <1>1 DEF Pick
<1>3. Pick(s, ids) \in Seq(Int) /\ Len(Pick(s, ids)) = Len(ids)
  BY <1>1, <1>2, IsSeq
<1>4. \A i \in 1 .. Len(ids) : Pick(s, ids)[i] = IF ids[i] \in 1 .. Len(s) THEN s[ids[i]] ELSE 0
  BY <1>1 DEF Pick
<1> QED
  BY <1>3, <1>4, SeqFacts

\* Take is the first n items.
LEMMA TakeFacts ==
    ASSUME NEW T, NEW s \in Seq(T), NEW n \in Nat
    PROVE  /\ Take(s, n) \in Seq(T)
           /\ Len(Take(s, n)) = IF n < Len(s) THEN n ELSE Len(s)
           /\ \A i \in 1 .. Len(Take(s, n)) : Take(s, n)[i] = s[i]
           /\ Len(s) <= n => Take(s, n) = s
<1>1. Len(s) \in Nat /\ DOMAIN s = 1 .. Len(s) /\ \A i \in 1 .. Len(s) : s[i] \in T
  BY SeqFacts
<1> DEFINE m == IF n < Len(s) THEN n ELSE Len(s)
<1>2. m \in Nat /\ m <= Len(s) /\ Take(s, n) = SubSeq(s, 1, m)
  BY <1>1 DEF Take
<1>3. SubSeq(s, 1, m) \in Seq(T) /\ Len(SubSeq(s, 1, m)) = m /\ \A i \in 1 .. m : SubSeq(s, 1, m)[i] = s[i]
  <2> HIDE DEF m
  <2> QED
    BY <1>1, <1>2
<1>4. Len(s) <= n => Take(s, n) = s
  <2> SUFFICES ASSUME Len(s) <= n PROVE Take(s, n) = s
    OBVIOUS
  <2>1. m = Len(s)
    <3>1. ~ (n < Len(s))
      BY <1>1
    <3> QED
      BY <3>1
  <2> HIDE DEF m
  <2>2. Take(s, n) \in Seq(T) /\ Len(Take(s, n)) = Len(s) /\ \A i \in 1 .. Len(Take(s, n)) : Take(s, n)[i] = s[i]
    BY <1>2, <1>3, <2>1
  <2> QED
    BY <2>2, SameSeq
<1> QED
  BY <1>2, <1>3, <1>4

-----------------------------------------------------------------------------
(* The members of a set of numbers, in order *)

\* Listed names the members of a finite set in ascending order, each at its rank.
LEMMA ListedFacts ==
    ASSUME NEW K \in SUBSET Int, IsFiniteSet(K)
    PROVE  /\ Listed(K) \in Seq(K) /\ Len(Listed(K)) = Cardinality(K)
           /\ \A i \in K : /\ Cardinality({k \in K : k <= i}) \in 1 .. Cardinality(K)
                           /\ Listed(K)[Cardinality({k \in K : k <= i})] = i
<1> DEFINE below(i) == {j \in K : j < i}
           rank(i) == Cardinality(below(i))
           N == Cardinality(K)
<1>1. N \in Nat
  BY FS_CardinalityType
<1>2. \A i \in K : IsFiniteSet(below(i)) /\ rank(i) \in Nat
  <2> SUFFICES ASSUME NEW i \in K PROVE IsFiniteSet(below(i)) /\ rank(i) \in Nat
    OBVIOUS
  <2>1. below(i) \in SUBSET K
    OBVIOUS
  <2> HIDE DEF below
  <2> QED
    <3>1. IsFiniteSet(below(i))
      BY <2>1, FS_Subset
    <3> QED
      BY <3>1, FS_CardinalityType
<1>3. ASSUME NEW i \in K, NEW j \in K, i < j
      PROVE  rank(i) < rank(j)
  <2>0. i \in Int /\ j \in Int /\ \A k \in K : k \in Int
    OBVIOUS
  <2>1. below(i) \in SUBSET below(j) /\ i \in below(j) /\ i \notin below(i)
    <3>1. ASSUME NEW k \in K, k < i PROVE k < j
      <4>1. k \in Int
        BY <2>0
      <4> QED
        BY <1>3, <2>0, <3>1, <4>1
    <3>2. i \in below(j) /\ i \notin below(i)
      BY <1>3, <2>0
    <3> QED
      BY <3>1, <3>2
  <2>2. IsFiniteSet(below(j)) /\ rank(i) \in Nat /\ rank(j) \in Nat
    BY <1>2
  <2> HIDE DEF below
  <2>3. rank(i) <= rank(j) /\ rank(i) # rank(j)
    BY <2>1, <2>2, FS_Subset
  <2> QED
    BY <2>2, <2>3
<1>4. ASSUME NEW i \in K PROVE rank(i) \in 0 .. N - 1
  <2>1. below(i) \in SUBSET K /\ below(i) # K /\ rank(i) \in Nat
    BY <1>2, <1>4
  <2>2. rank(i) <= N /\ rank(i) # N
    <3> HIDE DEF below
    <3> QED
      BY <2>1, FS_Subset
  <2> HIDE DEF rank, N
  <2> QED
    BY <1>1, <2>1, <2>2
<1>5. \A i, j \in K : rank(i) = rank(j) => i = j
  <2> SUFFICES ASSUME NEW i \in K, NEW j \in K, rank(i) = rank(j) PROVE i = j
    OBVIOUS
  <2>1. i \in Int /\ j \in Int /\ rank(i) \in Nat /\ rank(j) \in Nat
    BY <1>2
  <2>2. ~ (rank(i) < rank(j)) /\ ~ (rank(j) < rank(i))
    BY <2>1
  <2>3. ~ (i < j) /\ ~ (j < i)
    BY <1>3, <2>2
  <2> QED
    BY <2>1, <2>3
<1>6. \A n \in 1 .. N : \E i \in K : rank(i) = n - 1
  <2> DEFINE R == {rank(i) : i \in K}
             f == [i \in K |-> rank(i)]
  <2>1. f \in Bijection(K, R)
    BY <1>5 DEF Bijection, Injection, Surjection, IsInjective
  <2>2. IsFiniteSet(R) /\ Cardinality(R) = N
    <3> HIDE DEF R, f
    <3> QED
      BY <2>1, FS_Bijection DEF ExistsBijection
  <2>3. R \subseteq 0 .. N - 1
    BY <1>4
  <2>4. IsFiniteSet(0 .. N - 1) /\ Cardinality(0 .. N - 1) = N
    <3> HIDE DEF N
    <3> QED
      BY <1>1, FS_Interval
  <2>5. R = 0 .. N - 1
    <3> HIDE DEF R, N
    <3> QED
      BY <2>2, <2>3, <2>4, FS_Subset
  <2>6. \A n \in 1 .. N : n - 1 \in R
    BY <1>1, <2>5
  <2> QED
    BY <2>6
<1> DEFINE at(n) == CHOOSE i \in K : rank(i) = n - 1
<1>7. Listed(K) = [n \in 1 .. N |-> at(n)]
  BY DEF Listed
<1>8. \A n \in 1 .. N : at(n) \in K /\ rank(at(n)) = n - 1
  <2> SUFFICES ASSUME NEW n \in 1 .. N PROVE at(n) \in K /\ rank(at(n)) = n - 1
    OBVIOUS
  <2> HIDE DEF rank, N
  <2> QED
    BY <1>6
<1>10. Listed(K) \in [1 .. N -> K] /\ \A n \in 1 .. N : Listed(K)[n] = at(n)
  <2> HIDE DEF at, N, rank
  <2> QED
    BY <1>7, <1>8
<1>9. ASSUME NEW i \in K
      PROVE  /\ Cardinality({k \in K : k <= i}) \in 1 .. N
             /\ Listed(K)[Cardinality({k \in K : k <= i})] = i
  <2>1. {k \in K : k <= i} = below(i) \cup {i} /\ i \notin below(i)
    <3>1. i \in Int /\ i \in K
      BY <1>9
    <3>2. ASSUME NEW k \in K PROVE k <= i <=> k < i \/ k = i
      <4>1. k \in Int
        OBVIOUS
      <4> QED
        BY <3>1, <4>1
    <3>3. ~ (i < i)
      BY <3>1
    <3> QED
      BY <3>1, <3>2, <3>3
  <2>2. Cardinality({k \in K : k <= i}) = rank(i) + 1
    <3> HIDE DEF below
    <3> QED
      BY <1>2, <2>1, FS_AddElement
  <2>3. rank(i) + 1 \in 1 .. N /\ rank(i) \in Int
    <3> HIDE DEF rank, N
    <3> QED
      BY <1>1, <1>4
  <2>4. Listed(K)[rank(i) + 1] \in K /\ rank(Listed(K)[rank(i) + 1]) = rank(i)
    <3>1. (rank(i) + 1) - 1 = rank(i)
      BY <2>3
    <3> HIDE DEF rank, N, at
    <3> QED
      BY <1>8, <1>10, <2>3, <3>1
  <2> QED
    BY <1>5, <2>2, <2>3, <2>4
<1> QED
  BY <1>1, <1>9, <1>10, IsSeq

-----------------------------------------------------------------------------
(* What the operators select and order *)

\* A filter selects positions of its column.
LEMMA PositionsFacts ==
    ASSUME NEW s \in Seq(Int), NEW keep
    PROVE  Positions(s, keep) \in Seq(1 .. Len(s)) /\ Positions(s, keep) \in Seq(Int)
<1> DEFINE K == {i \in DOMAIN s : s[i] \in keep}
<1>1. Len(s) \in Nat /\ DOMAIN s = 1 .. Len(s)
  BY SeqFacts
<1>2. K \in SUBSET (1 .. Len(s)) /\ IsFiniteSet(1 .. Len(s))
  BY <1>1, FS_Interval
<1>3. IsFiniteSet(K) /\ K \in SUBSET Int
  <2>1. K \in SUBSET Int
    BY <1>2
  <2> HIDE DEF K
  <2>2. IsFiniteSet(K)
    BY <1>2, FS_Subset
  <2> QED
    BY <2>1, <2>2
<1>4. Listed(K) \in Seq(K)
  <2> HIDE DEF K
  <2> QED
    BY <1>3, ListedFacts
<1>5. Listed(K) \in Seq(1 .. Len(s)) /\ Listed(K) \in Seq(Int)
  <2> HIDE DEF K
  <2> DEFINE l == Listed(K)
  <2>3. l \in Seq(K)
    BY <1>4
  <2> HIDE DEF l
  <2>4. \A i \in 1 .. Len(l) : l[i] \in K
    BY <2>3, SeqFacts
  <2>1. \A i \in 1 .. Len(l) : l[i] \in 1 .. Len(s) /\ l[i] \in Int
    BY <1>2, <1>3, <2>4
  <2>5. l \in Seq(1 .. Len(s)) /\ l \in Seq(Int)
    BY <2>1, <2>3, WiderSeq
  <2> QED
    BY <2>5 DEF l
<1> QED
  BY <1>5 DEF Positions

\* The two sides of a pair of a nested loop are positions.
LEMMA Quotient ==
    ASSUME NEW l \in Nat, NEW r \in Nat, NEW k \in 1 .. l * r
    PROVE  /\ (k - 1) \div r + 1 \in 1 .. l
           /\ ((k - 1) % r) + 1 \in 1 .. r
<1>1. r > 0
  <2>1. l * r = 0 \/ r # 0
    OBVIOUS
  <2> QED
    BY <2>1
<1> DEFINE q == (k - 1) \div r
           m == (k - 1) % r
<1>2. q \in Int /\ m \in 0 .. r - 1 /\ k - 1 = r * q + m
  BY <1>1
<1> HIDE DEF q, m
<1>3. q >= 0
  <2> SUFFICES ASSUME q <= -1 PROVE FALSE
    BY <1>2
  <2>1. r * (-1 - q) >= 0
    BY <1>1, <1>2
  <2>2. r * (-1 - q) = -r - r * q
    BY <1>2
  <2> QED
    BY <1>2, <2>1, <2>2
<1>4. q < l
  <2> SUFFICES ASSUME q >= l PROVE FALSE
    BY <1>2
  <2>1. r * (q - l) >= 0
    BY <1>1, <1>2
  <2>2. r * (q - l) = r * q - l * r
    BY <1>2
  <2>3. l * r \in Int /\ r * q \in Int
    BY <1>2
  <2> QED
    BY <1>2, <2>1, <2>2, <2>3
<1> QED
  BY <1>2, <1>3, <1>4 DEF q, m

\* The row ids a join selects are positions of its two keys.
LEMMA PairsFacts ==
    ASSUME NEW left \in Seq(Int), NEW right \in Seq(Int)
    PROVE  /\ Side(Pairs(left, right), 1) \in Seq(1 .. Len(left))
           /\ Side(Pairs(left, right), 2) \in Seq(1 .. Len(right))
           /\ Len(Side(Pairs(left, right), 1)) = Len(Side(Pairs(left, right), 2))
<1> DEFINE n == Len(left) * Len(right)
           all == Matches(left, right)
           K == {k \in DOMAIN all : left[all[k][1]] = right[all[k][2]]}
           hits == Listed(K)
           pairs == [k \in DOMAIN hits |-> all[hits[k]]]
<1>1. Len(left) \in Nat /\ Len(right) \in Nat /\ n \in Nat
  BY SeqFacts
<1>2. DOMAIN all = 1 .. n /\ \A k \in 1 .. n : all[k][1] \in 1 .. Len(left) /\ all[k][2] \in 1 .. Len(right)
  <2>1. DOMAIN all = 1 .. n /\ \A k \in 1 .. n : /\ all[k][1] = (k - 1) \div Len(right) + 1
                                                 /\ all[k][2] = ((k - 1) % Len(right)) + 1
    BY DEF Matches
  <2> QED
    BY <1>1, <2>1, Quotient
<1>3. K \in SUBSET (1 .. n)
  BY <1>2
<1>4. IsFiniteSet(K) /\ K \in SUBSET Int
  <2>1. IsFiniteSet(1 .. n)
    <3> HIDE DEF n
    <3> QED
      BY <1>1, FS_Interval
  <2>2. K \in SUBSET Int
    BY <1>1, <1>3
  <2> HIDE DEF K, n
  <2>3. IsFiniteSet(K)
    BY <1>3, <2>1, FS_Subset
  <2> QED
    BY <2>2, <2>3
<1>5. hits \in Seq(K)
  <2> HIDE DEF K
  <2> QED
    BY <1>4, ListedFacts
<1> DEFINE N == Len(hits)
<1>6. N \in Nat /\ DOMAIN hits = 1 .. N /\ \A k \in 1 .. N : hits[k] \in 1 .. n
  <2> HIDE DEF hits, K, n
  <2> QED
    BY <1>3, <1>5, SeqFacts
<1>7. Pairs(left, right) = pairs
  BY DEF Pairs
<1>8. DOMAIN pairs = 1 .. N /\ \A k \in 1 .. N : pairs[k] = all[hits[k]]
  <2> HIDE DEF hits, N, all
  <2> QED
    BY <1>6
<1> HIDE DEF pairs, hits, N, all, n
<1>9. \A k \in 1 .. N : pairs[k][1] \in 1 .. Len(left) /\ pairs[k][2] \in 1 .. Len(right)
  BY <1>2, <1>6, <1>8
<1>10. ASSUME NEW i \in {1, 2}
       PROVE  DOMAIN Side(pairs, i) = 1 .. N /\ \A k \in 1 .. N : Side(pairs, i)[k] = pairs[k][i]
  BY <1>8 DEF Side
<1>11. Side(pairs, 1) \in [1 .. N -> 1 .. Len(left)] /\ Side(pairs, 2) \in [1 .. N -> 1 .. Len(right)]
  <2>1. Side(pairs, 1) = [k \in 1 .. N |-> pairs[k][1]] /\ Side(pairs, 2) = [k \in 1 .. N |-> pairs[k][2]]
    BY <1>8 DEF Side
  <2> QED
    BY <1>9, <2>1
<1>12. DOMAIN Side(pairs, 1) = 1 .. N /\ DOMAIN Side(pairs, 2) = 1 .. N
  BY <1>10
<1>13. Side(pairs, 1) \in Seq(1 .. Len(left)) /\ Len(Side(pairs, 1)) = N
  BY <1>6, <1>11, <1>12, IsSeq
<1>14. Side(pairs, 2) \in Seq(1 .. Len(right)) /\ Len(Side(pairs, 2)) = N
  BY <1>6, <1>11, <1>12, IsSeq
<1> QED
  BY <1>7, <1>13, <1>14

\* Narrowing a relation gathers every column.
LEMMA NarrowFacts ==
    ASSUME NEW want \in Seq(Wants), NEW T, NEW ids \in Seq(T)
    PROVE  /\ Narrow(want, ids) \in Seq(Wants) /\ Len(Narrow(want, ids)) = Len(want)
           /\ \A i \in 1 .. Len(want) : /\ Narrow(want, ids)[i].tag = want[i].tag
                                        /\ Narrow(want, ids)[i].rows = Pick(want[i].rows, ids)
                                        /\ Len(Narrow(want, ids)[i].rows) = Len(ids)
<1>1. Len(want) \in Nat /\ DOMAIN want = 1 .. Len(want) /\ \A i \in 1 .. Len(want) : want[i] \in Wants
  BY SeqFacts
<1>2. \A i \in 1 .. Len(want) : /\ [want[i] EXCEPT !.rows = Pick(@, ids)] \in Wants
                                /\ [want[i] EXCEPT !.rows = Pick(@, ids)].tag = want[i].tag
                                /\ [want[i] EXCEPT !.rows = Pick(@, ids)].rows = Pick(want[i].rows, ids)
                                /\ Len(Pick(want[i].rows, ids)) = Len(ids)
  <2> TAKE i \in 1 .. Len(want)
  <2> DEFINE w == want[i]
             rows == Pick(w.rows, ids)
  <2>1. w \in Wants /\ w.rows \in Seq(Int)
    BY <1>1 DEF Wants
  <2>2. rows \in Seq(Int) /\ Len(rows) = Len(ids)
    <3> HIDE DEF w
    <3> QED
      BY <2>1, PickFacts
  <2>3. [w EXCEPT !.rows = Pick(@, ids)] = [w EXCEPT !.rows = rows]
    OBVIOUS
  <2> HIDE DEF rows, w
  <2>4. [w EXCEPT !.rows = rows] \in Wants /\ [w EXCEPT !.rows = rows].tag = w.tag /\ [w EXCEPT !.rows = rows].rows = rows
    BY <2>1, <2>2 DEF Wants
  <2> QED
    BY <2>2, <2>3, <2>4 DEF rows, w
<1>3. /\ DOMAIN Narrow(want, ids) = 1 .. Len(want)
      /\ \A i \in 1 .. Len(want) : Narrow(want, ids)[i] = [want[i] EXCEPT !.rows = Pick(@, ids)]
      /\ Narrow(want, ids) \in [1 .. Len(want) -> Wants]
  BY <1>1, <1>2 DEF Narrow
<1>4. Narrow(want, ids) \in Seq(Wants) /\ Len(Narrow(want, ids)) = Len(want)
  BY <1>1, <1>3, IsSeq
<1> QED
  BY <1>2, <1>3, <1>4

\* A slice of a sequence; from the start it is Take.
LEMMA PageFacts ==
    ASSUME NEW T, NEW s \in Seq(T), NEW n \in Nat, NEW offset \in Nat
    PROVE  /\ Page(s, n, offset) \in Seq(T) /\ Slice(s, n, offset) \in Seq(T)
           /\ Page(s, n, 0) = Take(s, n)
<1>1. Len(s) \in Nat
  BY SeqFacts
<1> DEFINE m == IF offset + n < Len(s) THEN offset + n ELSE Len(s)
<1>2. m \in Nat /\ m <= Len(s) /\ Page(s, n, offset) = SubSeq(s, offset + 1, m)
  BY <1>1 DEF Page
<1>3. Page(s, n, offset) \in Seq(T)
  <2> HIDE DEF m
  <2>1. \A i \in (offset + 1) .. m : s[i] \in T
    BY <1>1, <1>2, SeqFacts
  <2> QED
    BY <1>2, <2>1, SubSeqProperties
<1>4. Page(s, n, 0) = Take(s, n)
  BY <1>1 DEF Page, Take
<1> QED
  BY <1>3, <1>4 DEF Slice

Placed(key) == {Order(key)[i] : i \in DOMAIN key}
LEMMA OrderFacts ==
    ASSUME NEW key \in Seq(Int)
    PROVE  Order(key) \in Seq(Placed(key))
<1> DEFINE T == Placed(key)
           o == Order(key)
<1>1. Len(key) \in Nat /\ DOMAIN key = 1 .. Len(key)
  BY SeqFacts
<1>2. DOMAIN o = 1 .. Len(key) /\ \A i \in 1 .. Len(key) : o[i] \in T
  BY <1>1 DEF Order, Placed
<1>3. o \in [1 .. Len(key) -> T]
  <2> DEFINE at(n) == CHOOSE i \in DOMAIN key : Cardinality({j \in DOMAIN key : Before(key, j, i)}) = n - 1
  <2>1. o = [n \in 1 .. Len(key) |-> at(n)]
    BY <1>1 DEF Order
  <2> HIDE DEF at, T, o
  <2> QED
    BY <1>2, <2>1
<1> QED
  BY <1>1, <1>2, <1>3, IsSeq

\* A set of numbers has a least one.
LEMMA LeastNumber ==
    ASSUME NEW T \in SUBSET Nat, T # {}
    PROVE  \E x \in T : \A y \in T : x <= y
<1> DEFINE R == {ss \in Nat \X Nat : ss[1] < ss[2]}
<1>1. IsWellFoundedOn(R, Nat)
  BY NatLessThanWellFounded DEF OpToRel
<1>2. \E x \in T : \A y \in T : <<y, x>> \notin R
  <2> HIDE DEF R
  <2> QED
    BY <1>1, WFMin
<1>3. PICK x \in T : \A y \in T : <<y, x>> \notin R
  BY <1>2
<1>4. ASSUME NEW y \in T PROVE x <= y
  <2>1. <<y, x>> \notin R /\ <<y, x>> \in Nat \X Nat
    BY <1>3
  <2>2. ~ (y < x)
    BY <2>1
  <2> QED
    BY <2>2
<1> QED
  BY <1>4

\* Where the items of a concatenation are.
LEMMA ConcatFacts ==
    ASSUME NEW T, NEW a \in Seq(T), NEW b \in Seq(T)
    PROVE  /\ a \o b \in Seq(T) /\ Len(a \o b) = Len(a) + Len(b)
           /\ \A j \in 1 .. Len(a) : j \in DOMAIN (a \o b) /\ (a \o b)[j] = a[j]
           /\ \A j \in 1 .. Len(b) : Len(a) + j \in DOMAIN (a \o b) /\ (a \o b)[Len(a) + j] = b[j]
           /\ \A j \in DOMAIN a : j \in DOMAIN (a \o b) /\ (a \o b)[j] = a[j]
           /\ \A j \in DOMAIN b : Len(a) + j \in DOMAIN (a \o b) /\ (a \o b)[Len(a) + j] = b[j]
           /\ \A x \in ToSet(a) : x \in ToSet(a \o b)
           /\ \A j \in DOMAIN b : b[j] \in ToSet(a \o b)
<1>1. Len(a) \in Nat /\ Len(b) \in Nat /\ DOMAIN a = 1 .. Len(a) /\ DOMAIN b = 1 .. Len(b)
  BY SeqFacts
<1>2. a \o b \in Seq(T) /\ Len(a \o b) = Len(a) + Len(b)
  BY ConcatProperties
<1>3. DOMAIN (a \o b) = 1 .. Len(a) + Len(b)
  BY <1>2, SeqFacts
<1>4. \A i \in 1 .. Len(a) + Len(b) : (a \o b)[i] = IF i <= Len(a) THEN a[i] ELSE b[i - Len(a)]
  BY ConcatProperties
<1>5. \A j \in 1 .. Len(a) : j \in 1 .. Len(a) + Len(b) /\ j <= Len(a)
  BY <1>1
<1>6. \A j \in 1 .. Len(b) : /\ Len(a) + j \in 1 .. Len(a) + Len(b) /\ ~ (Len(a) + j <= Len(a))
                             /\ (Len(a) + j) - Len(a) = j
  BY <1>1
<1>7. /\ \A j \in 1 .. Len(a) : j \in DOMAIN (a \o b) /\ (a \o b)[j] = a[j]
      /\ \A j \in 1 .. Len(b) : Len(a) + j \in DOMAIN (a \o b) /\ (a \o b)[Len(a) + j] = b[j]
  BY <1>3, <1>4, <1>5, <1>6
<1>8. \A k \in DOMAIN (a \o b) : (a \o b)[k] \in ToSet(a \o b)
  BY <1>2, SeqFacts
<1>9. \A x \in ToSet(a) : \E i \in DOMAIN a : x = a[i]
  BY SeqFacts
<1> QED
  BY <1>1, <1>2, <1>7, <1>8, <1>9

\* FlattenSeq appends the sequences one after the other.
Flattens(f, seqs, n) ==
    f = [i \in 1 .. n |-> IF i = 1 THEN seqs[i] ELSE f[i - 1] \o seqs[i]]

\* FlattenSeq has the items of its sequences.
LEMMA FlattenFacts ==
    ASSUME NEW T, NEW L \in Nat, NEW seqs, DOMAIN seqs = 1 .. L, Len(seqs) = L,
           \A i \in 1 .. L : seqs[i] \in Seq(T), L = 0 => seqs \in Seq(T)
    PROVE  /\ FlattenSeq(seqs) \in Seq(T)
           /\ \A i \in 1 .. L : \A j \in DOMAIN seqs[i] : seqs[i][j] \in ToSet(FlattenSeq(seqs))
<1>1. CASE L = 0
  BY <1>1 DEF FlattenSeq
<1>2. CASE L # 0
  <2>1. \A n \in 1 .. L : \E f : Flattens(f, seqs, n)
    <3> DEFINE Bad == {n \in 1 .. L : ~ \E f : Flattens(f, seqs, n)}
    <3> SUFFICES ASSUME Bad # {} PROVE FALSE
      OBVIOUS
    <3>1. Bad \in SUBSET Nat
      OBVIOUS
    <3>2. PICK n \in Bad : \A m \in Bad : n <= m
      <4> HIDE DEF Bad
      <4> QED
        BY <3>1, LeastNumber
    <3>3. n \in 1 .. L /\ ~ \E f : Flattens(f, seqs, n)
      OBVIOUS
    <3>4. n # 1
      <4> SUFFICES ASSUME n = 1 PROVE FALSE
        OBVIOUS
      <4>1. Flattens([i \in 1 .. 1 |-> seqs[1]], seqs, 1)
        BY DEF Flattens
      <4> QED
        BY <3>3, <4>1
    <3>5. n - 1 \in 1 .. L /\ n - 1 \notin Bad
      <4>1. n - 1 \in 1 .. L /\ ~ (n <= n - 1)
        BY <3>3, <3>4
      <4> HIDE DEF Bad
      <4> QED
        BY <3>2, <4>1
    <3>6. PICK f : Flattens(f, seqs, n - 1)
      BY <3>5
    <3> DEFINE g == [i \in 1 .. n |-> IF i = n THEN f[n - 1] \o seqs[n] ELSE f[i]]
    <3>7. Flattens(g, seqs, n)
      <4>1. \A i \in 1 .. n : i # n => i \in 1 .. n - 1
        BY <3>3
      <4>2. \A i \in 1 .. n : i # 1 => i - 1 \in 1 .. n - 1 /\ i - 1 \in 1 .. n /\ i - 1 # n
        BY <3>3
      <4>3. \A i \in 1 .. n : g[i] = IF i = 1 THEN seqs[i] ELSE g[i - 1] \o seqs[i]
        <5> SUFFICES ASSUME NEW i \in 1 .. n PROVE g[i] = IF i = 1 THEN seqs[i] ELSE g[i - 1] \o seqs[i]
          OBVIOUS
        <5>1. i = n => i # 1
          BY <3>4
        <5>2. i # 1 => g[i - 1] = f[i - 1]
          BY <4>2
        <5>3. i # n => f[i] = IF i = 1 THEN seqs[i] ELSE f[i - 1] \o seqs[i]
          BY <3>6, <4>1 DEF Flattens
        <5> QED
          BY <5>1, <5>2, <5>3
      <4> QED
        BY <4>3 DEF Flattens
    <3> QED
      BY <3>3, <3>7
  <2> DEFINE flat == CHOOSE f : f = [i \in 1 .. Len(seqs) |-> IF i = 1 THEN seqs[i] ELSE f[i - 1] \o seqs[i]]
  <2>2. FlattenSeq(seqs) = flat[L]
    BY <1>2 DEF FlattenSeq
  <2>3. Flattens(flat, seqs, L)
    <3>1. PICK f : Flattens(f, seqs, L)
      BY <1>2, <2>1
    <3> QED
      BY <3>1 DEF Flattens
  <2> HIDE DEF flat
  <2> DEFINE Good(n) == /\ flat[n] \in Seq(T)
                        /\ \A i \in 1 .. n : \A j \in DOMAIN seqs[i] : seqs[i][j] \in ToSet(flat[n])
  <2>4. \A n \in 1 .. L : Good(n)
    <3> DEFINE Bad == {n \in 1 .. L : ~ Good(n)}
    <3> SUFFICES ASSUME Bad # {} PROVE FALSE
      OBVIOUS
    <3>1. Bad \in SUBSET Nat
      OBVIOUS
    <3>2. PICK n \in Bad : \A m \in Bad : n <= m
      <4> HIDE DEF Bad
      <4> QED
        BY <3>1, LeastNumber
    <3>3. n \in 1 .. L /\ ~ Good(n)
      OBVIOUS
    <3>4. CASE n = 1
      <4>1. flat[1] = seqs[1] /\ seqs[1] \in Seq(T)
        BY <1>2, <2>3 DEF Flattens
      <4>2. \A i \in 1 .. 1 : i = 1
        OBVIOUS
      <4> QED
        BY <3>3, <3>4, <4>1, <4>2, SeqFacts
    <3>5. CASE n # 1
      <4>1. n - 1 \in 1 .. L /\ ~ (n <= n - 1)
        BY <3>3, <3>5
      <4>2. n - 1 \notin Bad
        <5> HIDE DEF Bad
        <5> QED
          BY <3>2, <4>1
      <4>3. Good(n - 1)
        BY <4>1, <4>2
      <4> DEFINE a == flat[n - 1]
                 b == seqs[n]
      <4>4. flat[n] = a \o b /\ a \in Seq(T) /\ b \in Seq(T)
        BY <2>3, <3>3, <3>5, <4>3 DEF Flattens
      <4>5. \A i \in 1 .. n : i = n \/ i \in 1 .. n - 1
        BY <3>3
      <4>6. /\ a \o b \in Seq(T)
            /\ \A x \in ToSet(a) : x \in ToSet(a \o b)
            /\ \A j \in DOMAIN b : b[j] \in ToSet(a \o b)
        <5> HIDE DEF a, b
        <5> QED
          BY <4>4, ConcatFacts
      <4> QED
        BY <3>3, <4>3, <4>4, <4>5, <4>6
    <3> QED
      BY <3>4, <3>5
  <2> QED
    BY <1>2, <2>2, <2>4
<1> QED
  BY <1>1, <1>2

-----------------------------------------------------------------------------
(* The pool *)

\* What is not free keeps its contents; a live block may be locked.
Grows(p, q) ==
    /\ p \in Seq(Blocks) /\ q \in Seq(Blocks) /\ Len(p) <= Len(q)
    /\ \A b \in DOMAIN p : p[b].state # "free" =>
          /\ q[b].tag = p[b].tag /\ q[b].rows = p[b].rows
          /\ q[b].state = p[b].state \/ (p[b].state = "live" /\ q[b].state = "kept")

\* A pool that grew has the blocks it had.
LEMMA GrowsFacts ==
    ASSUME NEW p, NEW q, Grows(p, q)
    PROVE  /\ p \in Seq(Blocks) /\ q \in Seq(Blocks) /\ Len(p) \in Nat /\ Len(q) \in Nat
           /\ DOMAIN p = 1 .. Len(p) /\ DOMAIN q = 1 .. Len(q) /\ Len(p) <= Len(q)
           /\ \A b \in DOMAIN p : b \in DOMAIN q
  BY SeqFacts DEF Grows

\* Growing is reflexive.
LEMMA GrowsSelf ==
    ASSUME NEW p \in Seq(Blocks)
    PROVE  Grows(p, p)
<1>1. Len(p) \in Nat
  BY SeqFacts
<1> QED
  BY <1>1 DEF Grows

\* Growing is transitive.
LEMMA GrowsOn ==
    ASSUME NEW p, NEW q, NEW r, Grows(p, q), Grows(q, r)
    PROVE  Grows(p, r)
<1>1. \A b \in DOMAIN p : b \in DOMAIN q
  BY GrowsFacts
<1>2. Len(p) <= Len(r)
  <2>1. Len(p) <= Len(q) /\ Len(q) <= Len(r) /\ Len(p) \in Nat /\ Len(q) \in Nat /\ Len(r) \in Nat
    BY GrowsFacts
  <2> QED
    BY <2>1
<1>3. ASSUME NEW b \in DOMAIN p, p[b].state # "free"
      PROVE  /\ r[b].tag = p[b].tag /\ r[b].rows = p[b].rows
             /\ r[b].state = p[b].state \/ (p[b].state = "live" /\ r[b].state = "kept")
  <2>1. /\ q[b].tag = p[b].tag /\ q[b].rows = p[b].rows
        /\ q[b].state = p[b].state \/ (p[b].state = "live" /\ q[b].state = "kept")
    BY <1>3 DEF Grows
  <2>2. b \in DOMAIN q /\ q[b].state # "free"
    BY <1>1, <1>3, <2>1
  <2>3. /\ r[b].tag = q[b].tag /\ r[b].rows = q[b].rows
        /\ r[b].state = q[b].state \/ (q[b].state = "live" /\ r[b].state = "kept")
    BY <2>2 DEF Grows
  <2> QED
    BY <2>1, <2>3
<1> QED
  BY <1>2, <1>3 DEF Grows

\* customCudaMalloc: an address that was free, or a new one.
LEMMA PutFacts ==
    ASSUME NEW p \in Seq(Blocks), NEW a \in Places(p), NEW state, NEW tag, NEW rows,
           [state |-> state, tag |-> tag, rows |-> rows] \in Blocks
    PROVE  LET q == Put(p, a, state, tag, rows)
           IN  /\ q \in Seq(Blocks) /\ Grows(p, q)
               /\ a \in DOMAIN q /\ a \in Nat /\ a # Null
               /\ q[a].state = state /\ q[a].tag = tag /\ q[a].rows = rows
               /\ a \in DOMAIN p => p[a].state = "free"
               /\ \A b \in DOMAIN p : b # a => q[b] = p[b]
<1> DEFINE k == [state |-> state, tag |-> tag, rows |-> rows]
           q == Put(p, a, state, tag, rows)
<1>1. Len(p) \in Nat /\ DOMAIN p = 1 .. Len(p) /\ \A b \in DOMAIN p : p[b] \in Blocks
  BY SeqFacts
<1>2. k \in Blocks /\ k.state = state /\ k.tag = tag /\ k.rows = rows
  OBVIOUS
<1>3. a \in Nat /\ a # Null /\ a \in 1 .. Len(p) + 1 /\ (a \in DOMAIN p => p[a].state = "free")
      /\ (a > Len(p) => a = Len(p) + 1) /\ (~ (a > Len(p)) => a \in DOMAIN p)
  BY <1>1 DEF Places, Null
<1> HIDE DEF k
<1>4. CASE a > Len(p)
  <2>1. q = Append(p, k)
    BY <1>4 DEF Put, k
  <2> HIDE DEF q
  <2>2. q \in Seq(Blocks) /\ Len(q) = Len(p) + 1 /\ \A b \in 1 .. Len(p) : q[b] = p[b]
    BY <1>2, <2>1, AppendProperties
  <2>3. q[Len(p) + 1] = k
    BY <1>2, <2>1, AppendProperties
  <2>4. DOMAIN q = 1 .. Len(p) + 1
    BY <2>2, SeqFacts
  <2>5. Grows(p, q)
    BY <1>1, <2>2 DEF Grows
  <2>6. q[a].state = state /\ q[a].tag = tag /\ q[a].rows = rows /\ a \in DOMAIN q
    BY <1>2, <1>3, <1>4, <2>3, <2>4
  <2> QED
    BY <1>1, <1>3, <2>2, <2>5, <2>6 DEF q
<1>5. CASE ~ (a > Len(p))
  <2>1. q = [p EXCEPT ![a] = k]
    BY <1>5 DEF Put, k
  <2> HIDE DEF q
  <2>2. DOMAIN q = 1 .. Len(p) /\ q[a] = k /\ (\A b \in DOMAIN p : b # a => q[b] = p[b])
    BY <1>1, <1>3, <1>5, <2>1
  <2>3. q \in [1 .. Len(p) -> Blocks]
    BY <1>1, <1>2, <2>1
  <2>4. q \in Seq(Blocks) /\ Len(q) = Len(p)
    BY <1>1, <2>2, <2>3, IsSeq
  <2>5. Grows(p, q)
    <3>1. Len(p) <= Len(q)
      BY <1>1, <2>4
    <3>2. \A b \in DOMAIN p : p[b].state # "free" => q[b] = p[b]
      BY <1>3, <1>5, <2>2
    <3> QED
      BY <2>4, <3>1, <3>2 DEF Grows
  <2> QED
    BY <1>1, <1>2, <1>3, <1>5, <2>2, <2>4, <2>5 DEF q
<1> QED
  BY <1>4, <1>5

\* customCudaFree changes the state of one live block.
LEMMA FreedFacts ==
    ASSUME NEW p \in Seq(Blocks), NEW a \in DOMAIN p
    PROVE  /\ Freed(p, a) \in Seq(Blocks) /\ DOMAIN Freed(p, a) = DOMAIN p
           /\ \A b \in DOMAIN p : /\ Freed(p, a)[b].tag = p[b].tag /\ Freed(p, a)[b].rows = p[b].rows
                                  /\ b # a \/ p[b].state # "live" => Freed(p, a)[b] = p[b]
                                  /\ Freed(p, a)[b].state = "live" => p[b].state = "live"
<1>1. Len(p) \in Nat /\ DOMAIN p = 1 .. Len(p) /\ \A b \in DOMAIN p : p[b] \in Blocks
  BY SeqFacts
<1>2. CASE p[a].state = "live"
  <2> DEFINE q == [p EXCEPT ![a].state = "free"]
  <2>1. Freed(p, a) = q
    BY <1>2 DEF Freed
  <2>2. DOMAIN q = DOMAIN p /\ \A b \in DOMAIN p :
           /\ q[b] \in Blocks /\ q[b].tag = p[b].tag /\ q[b].rows = p[b].rows
           /\ b # a => q[b] = p[b]
           /\ b = a => q[b].state = "free"
    BY <1>1 DEF Blocks
  <2>3. q \in [1 .. Len(p) -> Blocks]
    BY <1>1, <2>2
  <2> HIDE DEF q
  <2>4. q \in Seq(Blocks)
    BY <1>1, <2>2, <2>3, IsSeq
  <2> QED
    BY <1>1, <1>2, <2>1, <2>2, <2>4
<1>3. CASE p[a].state # "live"
  BY <1>3 DEF Freed
<1> QED
  BY <1>2, <1>3

\* lockAllocation keeps blocks and changes no value.
LEMMA LockedFacts ==
    ASSUME NEW p \in Seq(Blocks), NEW blocks
    PROVE  /\ Locked(p, blocks) \in Seq(Blocks) /\ Grows(p, Locked(p, blocks))
           /\ DOMAIN Locked(p, blocks) = DOMAIN p
           /\ \A b \in blocks \cap DOMAIN p : Locked(p, blocks)[b].state # "live"
<1> DEFINE q == Locked(p, blocks)
<1>1. Len(p) \in Nat /\ DOMAIN p = 1 .. Len(p) /\ \A b \in DOMAIN p : p[b] \in Blocks
  BY SeqFacts
<1>2. DOMAIN q = DOMAIN p /\ \A b \in DOMAIN p :
         q[b] = IF b \in blocks /\ p[b].state = "live" THEN [p[b] EXCEPT !.state = "kept"] ELSE p[b]
  BY DEF Locked
<1> HIDE DEF q
<1>3. \A b \in DOMAIN p : /\ q[b] \in Blocks /\ q[b].tag = p[b].tag /\ q[b].rows = p[b].rows
                          /\ q[b].state = p[b].state \/ (p[b].state = "live" /\ q[b].state = "kept")
                          /\ b \in blocks => q[b].state # "live"
  BY <1>1, <1>2 DEF Blocks
<1>4. q = [b \in 1 .. Len(p) |-> q[b]]
  BY <1>1 DEF q, Locked
<1>5. q \in Seq(Blocks) /\ Len(q) = Len(p)
  <2>1. q \in [1 .. Len(p) -> Blocks]
    BY <1>1, <1>3, <1>4
  <2> QED
    BY <1>1, <1>2, <2>1, IsSeq
<1> QED
  BY <1>1, <1>2, <1>3, <1>5 DEF q, Grows

\* New blocks behind the pool.
LEMMA MoreFacts ==
    ASSUME NEW p \in Seq(Blocks), NEW blocks \in Seq(Blocks)
    PROVE  /\ p \o blocks \in Seq(Blocks) /\ Grows(p, p \o blocks)
           /\ \A i \in 1 .. Len(blocks) : /\ Len(p) + i \in DOMAIN (p \o blocks)
                                          /\ (p \o blocks)[Len(p) + i] = blocks[i]
<1>1. Len(p) \in Nat /\ Len(blocks) \in Nat /\ DOMAIN p = 1 .. Len(p)
  BY SeqFacts
<1>2. /\ p \o blocks \in Seq(Blocks) /\ Len(p \o blocks) = Len(p) + Len(blocks)
      /\ \A b \in DOMAIN p : (p \o blocks)[b] = p[b]
      /\ \A i \in 1 .. Len(blocks) : /\ Len(p) + i \in DOMAIN (p \o blocks)
                                     /\ (p \o blocks)[Len(p) + i] = blocks[i]
  BY ConcatFacts
<1> QED
  BY <1>1, <1>2 DEF Grows

-----------------------------------------------------------------------------
(* Columns over a pool that grows, or that gives up a block *)

\* A sound column stays sound, and stands for the same, in a pool that grew.
LEMMA SoundGrows ==
    ASSUME NEW p, NEW q, Grows(p, q), NEW c
    PROVE  /\ SoundData(p, c) => SoundData(q, c) /\ (c.data # Null => q[c.data].tag = p[c.data].tag)
           /\ SoundData(p, c) /\ c.data # Null => q[c.data].rows = p[c.data].rows
           /\ \A b : SoundIds(p, b) => SoundIds(q, b) /\ (b # Null => q[b].rows = p[b].rows)
           /\ Sound(p, c) => Sound(q, c) /\ Denotes(q, c) = Denotes(p, c)
<1>1. \A b \in DOMAIN p : b \in DOMAIN q
  BY GrowsFacts
<1>2. ASSUME SoundData(p, c)
      PROVE  SoundData(q, c) /\ (c.data # Null => q[c.data].tag = p[c.data].tag /\ q[c.data].rows = p[c.data].rows)
  BY <1>1, <1>2 DEF SoundData, Grows
<1>3. ASSUME NEW b, SoundIds(p, b)
      PROVE  SoundIds(q, b) /\ (b # Null => q[b].rows = p[b].rows)
  BY <1>1, <1>3 DEF SoundIds, Grows
<1>4. ASSUME Sound(p, c)
      PROVE  Sound(q, c) /\ Denotes(q, c) = Denotes(p, c)
  BY <1>2, <1>3, <1>4 DEF Sound, Denotes
<1> QED
  BY <1>2, <1>3, <1>4

\* What is apart, or kept, stays so in a pool that grew.
LEMMA MineGrows ==
    ASSUME NEW p, NEW q, Grows(p, q), NEW c, Sound(p, c), NEW d
    PROVE  /\ Mine(p, c, d) => Mine(q, c, d)
           /\ Mine(p, d, c) => Mine(q, d, c)
           /\ Settled(p, c) => Settled(q, c)
<1>1. \A b \in {c.data, c.ids} : b # Null => b \in DOMAIN p /\ p[b].state # "free"
  BY DEF Sound, SoundData, SoundIds
<1>2. \A b \in {c.data, c.ids} : b # Null /\ p[b].state # "live" => q[b].state # "live"
  BY <1>1 DEF Grows
<1> QED
  BY <1>2 DEF Mine, Settled

\* A place for a new block is not in a column in use.
LEMMA FreshOther ==
    ASSUME NEW p \in Seq(Blocks), NEW a \in Places(p)
    PROVE  /\ \A c : SoundData(p, c) => c.data # a
           /\ \A b : SoundIds(p, b) => b # a
           /\ a # Null /\ a \in Nat
<1>1. Len(p) \in Nat /\ DOMAIN p = 1 .. Len(p)
  BY SeqFacts
<1>2. a # Null /\ a \in Nat /\ (a \notin DOMAIN p \/ p[a].state = "free")
  BY <1>1 DEF Places, Null
<1> QED
  BY <1>2 DEF SoundData, SoundIds

\* Freeing a block leaves the columns that are not in it, or that it is kept for.
LEMMA SoundFreed ==
    ASSUME NEW p \in Seq(Blocks), NEW a \in DOMAIN p, NEW c
    PROVE  /\ SoundData(p, c) /\ (c.data = a => p[a].state # "live") => SoundData(Freed(p, a), c)
           /\ \A b : SoundIds(p, b) /\ (b = a => p[a].state # "live") => SoundIds(Freed(p, a), b)
           /\ SoundData(p, c) /\ c.data # Null => /\ Freed(p, a)[c.data].tag = p[c.data].tag
                                                  /\ Freed(p, a)[c.data].rows = p[c.data].rows
           /\ \A b : SoundIds(p, b) /\ b # Null => Freed(p, a)[b].rows = p[b].rows
           /\ Sound(p, c) => Denotes(Freed(p, a), c) = Denotes(p, c)
           /\ Sound(p, c) /\ (a \in {c.data, c.ids} => p[a].state # "live") => Sound(Freed(p, a), c)
           /\ \A d : Sound(p, c) /\ Mine(p, c, d) => Mine(Freed(p, a), c, d)
           /\ \A d : Sound(p, c) /\ Mine(p, d, c) => Mine(Freed(p, a), d, c)
           /\ Sound(p, c) /\ Settled(p, c) => Settled(Freed(p, a), c)
<1> DEFINE q == Freed(p, a)
<1>1. /\ DOMAIN q = DOMAIN p
      /\ \A b \in DOMAIN p : /\ q[b].tag = p[b].tag /\ q[b].rows = p[b].rows
                             /\ b # a \/ p[b].state # "live" => q[b] = p[b]
                             /\ q[b].state = "live" => p[b].state = "live"
  BY FreedFacts
<1> HIDE DEF q
<1>2. ASSUME SoundData(p, c)
      PROVE  /\ (c.data = a => p[a].state # "live") => SoundData(q, c)
             /\ c.data # Null => q[c.data].tag = p[c.data].tag /\ q[c.data].rows = p[c.data].rows
  BY <1>1, <1>2 DEF SoundData
<1>3. ASSUME NEW b, SoundIds(p, b)
      PROVE  /\ (b = a => p[a].state # "live") => SoundIds(q, b)
             /\ b # Null => q[b].rows = p[b].rows
  BY <1>1, <1>3 DEF SoundIds
<1>4. ASSUME Sound(p, c)
      PROVE  /\ Denotes(q, c) = Denotes(p, c)
             /\ (a \in {c.data, c.ids} => p[a].state # "live") => Sound(q, c)
  BY <1>2, <1>3, <1>4 DEF Sound, Denotes
<1>5. ASSUME Sound(p, c)
      PROVE  /\ \A d : Mine(p, c, d) => Mine(q, c, d)
             /\ \A d : Mine(p, d, c) => Mine(q, d, c)
             /\ Settled(p, c) => Settled(q, c)
  <2>1. \A b \in {c.data, c.ids} : b # Null => b \in DOMAIN p
    BY <1>5 DEF Sound, SoundData, SoundIds
  <2>2. \A b \in {c.data, c.ids} : b # Null /\ p[b].state # "live" => q[b].state # "live"
    BY <1>1, <2>1
  <2> QED
    BY <2>2 DEF Mine, Settled
<1> QED
  BY <1>2, <1>3, <1>4, <1>5 DEF q

-----------------------------------------------------------------------------
(* Columns in use *)

\* An empty column, and an empty store.
LEMMA EmptyFacts ==
    /\ Empty \in Cols /\ Empty.data = Null /\ Empty.ids = Null /\ Empty.len = 0 /\ Empty.count = 0
    /\ \A p : Sound(p, Empty) /\ Settled(p, Empty) /\ Denotes(p, Empty) = <<>>
    /\ \A p, d : Mine(p, Empty, d) /\ Mine(p, d, Empty)
    /\ Nothing \in Stores /\ Nothing.cols = <<>> /\ Nothing.want = <<>> /\ Nothing.key = Empty
    /\ Nothing.keyRows = <<>> /\ Nothing.once = FALSE /\ ToSet(Nothing.cols) = {}
<1>1. Empty \in Cols /\ Empty.data = Null /\ Empty.ids = Null /\ Empty.len = 0 /\ Empty.count = 0
  BY DEF Empty, Column, Cols, Null
<1>2. \A p : Sound(p, Empty) /\ Settled(p, Empty) /\ Denotes(p, Empty) = <<>>
  BY <1>1 DEF Sound, SoundData, SoundIds, Settled, Denotes
<1>3. \A p, d : Mine(p, Empty, d) /\ Mine(p, d, Empty)
  BY <1>1 DEF Mine
<1>4. /\ Nothing \in Stores /\ Nothing.cols = <<>> /\ Nothing.want = <<>> /\ Nothing.key = Empty
      /\ Nothing.keyRows = <<>> /\ Nothing.once = FALSE
  BY <1>1 DEF Nothing, Stores
<1>5. ToSet(Nothing.cols) = {}
  BY <1>4 DEF ToSet
<1> QED
  BY <1>1, <1>2, <1>3, <1>4, <1>5

\* A column without row ids.
LEMMA ColumnFacts ==
    ASSUME NEW data \in Nat, NEW len \in Nat
    PROVE  /\ Column(data, len) \in Cols /\ Column(data, len).data = data /\ Column(data, len).ids = Null
           /\ Column(data, len).len = len /\ Column(data, len).count = 0
           /\ \A p : (data # Null => data \in DOMAIN p /\ p[data].state # "free" /\ p[data].tag # Ids)
                       => Sound(p, Column(data, len))
           /\ \A p, c : c.data = data /\ SoundData(p, c) => Sound(p, Column(data, len))
           /\ \A p, c, d : c.data = data /\ Mine(p, c, d) => Mine(p, Column(data, len), d)
           /\ \A p, c : c.data = data /\ Settled(p, c) => Settled(p, Column(data, len))
<1>1. /\ Column(data, len) \in Cols /\ Column(data, len).data = data /\ Column(data, len).ids = Null
      /\ Column(data, len).len = len /\ Column(data, len).count = 0
  BY DEF Column, Cols, Null
<1> QED
  BY <1>1 DEF Sound, SoundData, SoundIds, Mine, Settled

\* A column of kept blocks shares no live block.
LEMMA SettledMine ==
    ASSUME NEW p, NEW c, Settled(p, c)
    PROVE  \A d : Mine(p, c, d) /\ Mine(p, d, c)
  BY DEF Settled, Mine

\* Sharing is symmetric.
LEMMA MineBoth ==
    ASSUME NEW p, NEW c, NEW d
    PROVE  Mine(p, c, d) <=> Mine(p, d, c)
  BY DEF Mine

\* The cached columns stay.
LEMMA BaseGrows ==
    ASSUME NEW p, NEW q, Grows(p, q), BaseIn(p)
    PROVE  BaseIn(q)
<1> SUFFICES ASSUME NEW c \in 1 .. Columns
             PROVE  c \in DOMAIN q /\ q[c] = [state |-> "kept", tag |-> c, rows |-> [r \in 1 .. Rows |-> r]]
  BY DEF BaseIn
<1> DEFINE all == [r \in 1 .. Rows |-> r]
<1>1. c \in DOMAIN p /\ p[c] = [state |-> "kept", tag |-> c, rows |-> all]
  BY DEF BaseIn
<1> HIDE DEF all
<1>2. c \in DOMAIN p /\ p[c].state = "kept" /\ p[c].tag = c /\ p[c].rows = all
  BY <1>1
<1>3. c \in DOMAIN q /\ q[c].state = "kept" /\ q[c].tag = c /\ q[c].rows = all
  BY <1>2, GrowsFacts DEF Grows
<1>4. q[c] \in Blocks
  BY <1>3, GrowsFacts, SeqFacts
<1>5. q[c] = [state |-> "kept", tag |-> c, rows |-> all]
  BY <1>3, <1>4 DEF Blocks
<1> QED
  BY <1>3, <1>5 DEF all

\* The stores stay sound in a pool that grew.
LEMMA StoresGrow ==
    ASSUME NEW p, NEW q, Grows(p, q), NEW once, NEW lent, NEW hashed, NEW kept,
           StoresIn(p, once, lent, hashed, kept)
    PROVE  StoresIn(q, once, lent, hashed, kept)
<1>1. \A c \in lent \cup hashed \cup kept : Sound(p, c)
  BY DEF StoresIn
<1>2. \A c \in lent \cup hashed \cup kept : Sound(q, c)
  BY <1>1, SoundGrows
<1>3. \A c \in lent : \A d \in hashed : Mine(q, c, d)
  BY <1>1, MineGrows DEF StoresIn
<1>4. \A c \in kept : Settled(q, c)
  BY <1>1, MineGrows DEF StoresIn
<1>5. ~once => \A c \in lent : Settled(q, c)
  BY <1>1, MineGrows DEF StoresIn
<1> QED
  BY <1>2, <1>3, <1>4, <1>5 DEF StoresIn

\* The columns in use stay sound in a pool that grew.
LEMMA UseGrows ==
    ASSUME NEW p, NEW q, Grows(p, q), NEW cols, NEW more, NEW stored, UseIn(p, cols, more, stored),
           \A d \in stored : Sound(p, d)
    PROVE  UseIn(q, cols, more, stored)
<1>1. \A c \in cols : Sound(q, c)
  BY SoundGrows DEF UseIn
<1>2. ASSUME NEW c \in cols \cup more, NEW d \in stored
      PROVE  Mine(q, c, d)
  BY MineGrows DEF UseIn
<1> QED
  BY <1>1, <1>2 DEF UseIn

\* The parts of a block.
LEMMA BlockRows ==
    ASSUME NEW p \in Seq(Blocks), NEW b \in DOMAIN p
    PROVE  /\ p[b] \in Blocks /\ p[b].rows \in Seq(Int) /\ p[b].tag \in Int
           /\ p[b].state \in {"kept", "live", "free", "inner"}
<1>1. p[b] \in Blocks
  BY SeqFacts
<1> QED
  BY <1>1 DEF Blocks

\* A sound column stands for a sequence of values.
LEMMA DenotesFacts ==
    ASSUME NEW p \in Seq(Blocks), NEW c \in Cols, Sound(p, c)
    PROVE  Denotes(p, c) \in Seq(Int)
<1>1. c.len \in Nat /\ c.count \in Nat
  BY DEF Cols
<1>2. c.data # Null => p[c.data].rows \in Seq(Int)
  BY BlockRows DEF Sound, SoundData
<1>3. c.ids # Null => p[c.ids].rows \in Seq(Int)
  BY BlockRows DEF Sound, SoundIds
<1>4. CASE c.data = Null \/ (c.ids # Null /\ c.count = 0)
  BY <1>4 DEF Denotes
<1>5. CASE c.data # Null /\ c.ids = Null
  BY <1>1, <1>2, <1>5, TakeFacts DEF Denotes
<1>6. CASE c.data # Null /\ c.ids # Null /\ c.count # 0
  <2>1. Take(p[c.ids].rows, c.count) \in Seq(Int)
    BY <1>1, <1>3, <1>6, TakeFacts
  <2> QED
    BY <1>2, <1>6, <2>1, PickFacts DEF Denotes
<1> QED
  BY <1>4, <1>5, <1>6

-----------------------------------------------------------------------------
(* The structure holds at first *)

\* Before the first operator the pool holds the cached columns.
LEMMA StructureFirst ==
    ASSUME Init
    PROVE  Structure
<1> USE DEF Init
<1> DEFINE all == [r \in 1 .. Rows |-> r]
<1>0. Rows \in Nat /\ Columns \in Nat /\ Ids \notin 1 .. Columns
  BY LateMaterializationAssumption DEF Ids
<1>1. pool \in Seq(Blocks) /\ BaseIn(pool)
  <2>1. all \in [1 .. Rows -> Int] /\ DOMAIN all = 1 .. Rows
    OBVIOUS
  <2>2. all \in Seq(Int)
    <3> HIDE DEF all
    <3> QED
      BY <1>0, <2>1, IsSeq
  <2> HIDE DEF all
  <2>3. pool \in [1 .. Columns -> Blocks] /\ DOMAIN pool = 1 .. Columns
    <3> DEFINE at(c) == [state |-> "kept", tag |-> c, rows |-> all]
    <3>1. \A c \in 1 .. Columns : at(c) \in Blocks
      BY <1>0, <2>2 DEF Blocks
    <3>2. pool = [c \in 1 .. Columns |-> at(c)]
      BY DEF all
    <3> HIDE DEF at
    <3> QED
      BY <3>1, <3>2
  <2>4. pool \in Seq(Blocks)
    BY <1>0, <2>3, IsSeq
  <2> QED
    BY <2>4, <2>3 DEF BaseIn
<1>2. relation = <<>> /\ wanted = <<>> /\ pc = "source" /\ task = Idle /\ got = <<>> /\ moving = Still
      /\ cte = Nothing /\ built = Nothing /\ sorted = Nothing
  OBVIOUS
<1>3. Typed
  <2>1. moving \in Movings(moving.moved) /\ moving.moved = <<>>
    BY DEF Still, Movings, Null
  <2>2. relation \in Seq(Cols) /\ wanted \in Seq(Wants) /\ got \in Seq(Gots)
    OBVIOUS
  <2>3. cte \in Stores /\ built \in Stores /\ sorted \in Stores /\ dropped \in BOOLEAN
    BY EmptyFacts
  <2>4. \A m \in DOMAIN moving.moved : m \in Nat /\ moving.moved[m] \in Nat
    BY <2>1
  <2> QED
    BY <1>1, <1>2, <2>1, <2>2, <2>3, <2>4 DEF Typed
<1>4. Reading /\ Paired /\ DistinctIsStored /\ SharedAlike /\ ComposingSound
  BY EmptyFacts DEF Reading, Paired, DistinctIsStored, SharedAlike, ComposingSound
<1>5. Lent = {} /\ Hashed = {Empty} /\ Kept = {} /\ Current = {} /\ Composing = {}
  <2>1. Lent = {} /\ Hashed = {Empty} /\ Kept = {}
    BY EmptyFacts DEF Lent, Hashed, Kept
  <2>2. Current = {} /\ Composing = {}
    BY <1>2 DEF Current, Composing
  <2> QED
    BY <2>1, <2>2
<1>6. StoresSound /\ CurrentSound
  BY <1>5, EmptyFacts DEF StoresSound, StoresIn, CurrentSound, UseIn
<1> QED
  BY <1>1, <1>3, <1>4, <1>6 DEF Structure

-----------------------------------------------------------------------------
(* What the structure says, where it is used *)

\* What Structure says of the stores and the relation.
LEMMA SoundStores ==
    ASSUME Structure
    PROVE  /\ \A c \in Lent \cup Hashed \cup Kept : Sound(pool, c)
           /\ pool \in Seq(Blocks)
           /\ \A i \in DOMAIN relation : relation[i] \in Cols /\ relation[i] \in ToSet(relation)
           /\ Len(relation) \in Nat /\ DOMAIN relation = 1 .. Len(relation)
           /\ \A c \in ToSet(relation) : c \in Cols /\ \E i \in DOMAIN relation : c = relation[i]
  <1>1. pool \in Seq(Blocks) /\ relation \in Seq(Cols)
    BY DEF Structure, Typed
  <1>2. \A c \in Lent \cup Hashed \cup Kept : Sound(pool, c)
    BY DEF Structure, StoresSound, StoresIn
  <1> QED
    BY <1>1, <1>2, SeqFacts

\* What Structure says between two operators.
LEMMA SoundReady ==
    ASSUME Structure, pc = "ready"
    PROVE  /\ Current = ToSet(relation) /\ Composing = {}
           /\ \A i \in DOMAIN relation : Sound(pool, relation[i])
           /\ \A c \in ToSet(relation) : \A d \in Lent \cup Hashed : Mine(pool, c, d)
           /\ Alike(pool, ToSet(relation))
           /\ wanted \in Seq(Wants) /\ Len(wanted) = Len(relation) /\ DOMAIN wanted = DOMAIN relation
           /\ \A i \in DOMAIN relation : wanted[i] \in Wants
<1>1. Current = ToSet(relation) /\ Composing = {}
  BY DEF Current, Composing
<1>2. UseIn(pool, ToSet(relation), {}, Lent \cup Hashed)
  BY <1>1 DEF Structure, CurrentSound
<1>3. Alike(pool, ToSet(relation))
  BY <1>1 DEF Structure, SharedAlike
<1>4. wanted \in Seq(Wants) /\ Len(wanted) = Len(relation)
  BY DEF Structure, Typed, Paired
<1> QED
  BY <1>1, <1>2, <1>3, <1>4, SoundStores, SeqFacts DEF UseIn

\* Fewer columns in use.
LEMMA AlikeLess ==
    ASSUME NEW p, NEW cols, Alike(p, cols), NEW less, \A c \in less : c \in cols \/ c.data = Null
    PROVE  Alike(p, less)
  BY DEF Alike

-----------------------------------------------------------------------------
(* An operator begins to read *)

BeginLeaves == UNCHANGED <<pool, relation, wanted, moving, cte, built, sorted, reread, dropped>>

\* An operator that begins to read changes no column.
LEMMA BeginStays ==
    ASSUME Structure, NEW operator, NEW refs, Begin(operator, refs), BeginLeaves, Tasked',
           refs \in Seq(All), operator.hands \subseteq All, operator.kind # "distinct"
    PROVE  Structure'
<1> USE DEF BeginLeaves
<1>1. pc = "ready" /\ pc' = "read" /\ task' = operator /\ todo' = refs
      /\ got' = [i \in DOMAIN relation |-> [col |-> Empty, rows |-> <<>>, tag |-> 0]]
  BY DEF Begin
<1>2. DOMAIN got' = All /\ \A i \in All : got'[i].col = Empty /\ got'[i].tag = 0 /\ got'[i] \in Gots
  <2>1. [col |-> Empty, rows |-> <<>>, tag |-> 0] \in Gots
    BY EmptyFacts DEF Gots
  <2> QED
    BY <1>1, <2>1 DEF All
<1>3. got' \in Seq(Gots)
  <2>1. Len(relation) \in Nat /\ DOMAIN relation = 1 .. Len(relation)
    BY SoundStores
  <2>2. got' \in [1 .. Len(relation) -> Gots] /\ DOMAIN got' = 1 .. Len(relation)
    BY <1>1, <1>2, <2>1 DEF All
  <2> QED
    BY <2>1, <2>2, IsSeq
<1>4. Typed'
  BY <1>1, <1>3 DEF Structure, Typed
<1>5. Reading'
  BY <1>1, <1>2, EmptyFacts DEF Reading, All, Ids
<1>6. Paired'
  BY <1>1 DEF Structure, Paired
<1>7. \A c \in Current' : c \in ToSet(relation) \/ c = Empty
  <2>1. Current' = {relation[j] : j \in InHand'} \cup {got'[i].col : i \in DOMAIN got'}
    BY <1>1 DEF Current
  <2>2. \A j \in InHand' : j \in All
    BY <1>1, SeqFacts DEF InHand
  <2> QED
    BY <1>2, <2>1, <2>2, SoundStores DEF All
<1>8. Lent' = Lent /\ Hashed' = Hashed /\ Kept' = Kept /\ Composing' = {}
  BY <1>1 DEF Lent, Hashed, Kept, Composing
<1>9. StoresSound'
  BY <1>8 DEF Structure, StoresSound
<1>10. CurrentSound'
  <2>1. \A c \in Current' : Sound(pool, c) /\ \A d \in Lent \cup Hashed : Mine(pool, c, d)
    BY <1>1, <1>7, SoundReady, SoundStores, EmptyFacts
  <2> QED
    BY <1>8, <2>1 DEF CurrentSound, UseIn
<1>11. SharedAlike'
  <2>1. Alike(pool, Current')
    BY <1>1, <1>7, SoundReady, AlikeLess, EmptyFacts
  <2> QED
    BY <2>1 DEF SharedAlike
<1> QED
  BY <1>1, <1>4, <1>5, <1>6, <1>9, <1>10, <1>11
     DEF Structure, DistinctIsStored, ComposingSound

\* References to columns that are there.
LEMMA RefsFacts ==
    ASSUME NEW refs \in Seq(Nat), NEW places, ToSet(refs) \subseteq places
    PROVE  refs \in Seq(places)
<1>1. \A i \in 1 .. Len(refs) : refs[i] \in places
  BY SeqFacts
<1> QED
  BY <1>1, WiderSeq

\* One reference.
LEMMA OneRef ==
    ASSUME NEW T, NEW x \in T
    PROVE  <<x>> \in Seq(T) /\ ToSet(<<x>>) = {x}
  BY DEF ToSet

\* GPUPhysicalFilter::Execute begins to read.
LEMMA FilterReads ==
    ASSUME Structure, NEW f \in Filters, Filter(f), pc' = "read"
    PROVE  Structure'
<1>0. f.refs \in Seq(Nat)
  BY LateMaterializationAssumption
<1>1. Begin([kind |-> "filter", hands |-> DOMAIN relation, by |-> f], f.refs) /\ BeginLeaves
  BY DEF Filter, BeginLeaves
<1>2. ToSet(f.refs) \subseteq All
  BY DEF Filter, All
<1>3. Tasked'
  BY <1>1, <1>2 DEF Tasked, Begin, BeginLeaves, All, IsPart
<1>4. f.refs \in Seq(All)
  BY <1>0, <1>2, RefsFacts
<1> QED
  BY <1>1, <1>3, <1>4, BeginStays DEF All

\* The columns that a projection reads.
Reads(items) == FlattenSeq([i \in DOMAIN items |-> IF items[i].pass \/ Skipped(items[i]) THEN <<>> ELSE items[i].refs])
\* The columns a projection reads and hands on are there.
LEMMA ProjectReads ==
    ASSUME NEW items \in Projections, \A i \in DOMAIN items : ToSet(items[i].refs) \subseteq All
    PROVE  /\ Reads(items) \in Seq(All)
           /\ \A i \in DOMAIN items : ~items[i].pass /\ ~Skipped(items[i])
                                        => items[i].refs[1] \in ToSet(Reads(items))
           /\ Len(items) \in Nat /\ DOMAIN items = 1 .. Len(items)
           /\ \A i \in DOMAIN items : /\ items[i].refs[1] \in All /\ items[i].refs[1] \in ToSet(items[i].refs)
                                      /\ items[i].pass \in BOOLEAN
<1> DEFINE of(i) == IF items[i].pass \/ Skipped(items[i]) THEN <<>> ELSE items[i].refs
           seqs == [i \in DOMAIN items |-> of(i)]
           L == Len(items)
<1>1. items \in Seq([pass : BOOLEAN, refs : Seq(Nat) \ {<<>>}])
  BY LateMaterializationAssumption
<1>2. L \in Nat /\ DOMAIN items = 1 .. L /\ \A i \in 1 .. L : items[i] \in [pass : BOOLEAN, refs : Seq(Nat) \ {<<>>}]
  <2> DEFINE T == [pass : BOOLEAN, refs : Seq(Nat) \ {<<>>}]
  <2> HIDE DEF T
  <2>1. items \in Seq(T)
    BY <1>1 DEF T
  <2>2. L \in Nat /\ DOMAIN items = 1 .. L /\ \A i \in 1 .. L : items[i] \in T
    BY <2>1, SeqFacts
  <2> QED
    BY <2>2 DEF T
<1>3. \A i \in 1 .. L : items[i].refs \in Seq(Nat) /\ items[i].refs # <<>> /\ items[i].pass \in BOOLEAN
  BY <1>2
<1>4. \A i \in 1 .. L : /\ items[i].refs \in Seq(All) /\ 1 \in DOMAIN items[i].refs
                        /\ items[i].refs[1] \in All /\ items[i].refs[1] \in ToSet(items[i].refs)
  <2> SUFFICES ASSUME NEW i \in 1 .. L
               PROVE  /\ items[i].refs \in Seq(All) /\ 1 \in DOMAIN items[i].refs
                      /\ items[i].refs[1] \in All /\ items[i].refs[1] \in ToSet(items[i].refs)
    OBVIOUS
  <2>1. items[i].refs \in Seq(All)
    BY <1>2, <1>3, RefsFacts
  <2>2. 1 \in DOMAIN items[i].refs
    BY <1>3, SeqFacts
  <2> QED
    BY <2>1, <2>2, SeqFacts
<1>5. \A i \in 1 .. L : of(i) \in Seq(All)
  BY <1>4
<1>6. DOMAIN seqs = 1 .. L /\ (\A i \in 1 .. L : seqs[i] = of(i))
  BY <1>2
<1>7. Len(seqs) = L /\ (L = 0 => seqs \in Seq(All))
  <2> HIDE DEF of
  <2>1. seqs \in [1 .. L -> Seq(All)]
    BY <1>2, <1>5
  <2>2. seqs \in Seq(Seq(All)) /\ Len(seqs) = L
    <3> HIDE DEF seqs, L
    <3> QED
      BY <1>2, <1>6, <2>1, IsSeq
  <2>3. L = 0 => seqs = <<>>
    BY <2>2, SeqFacts
  <2> QED
    BY <2>2, <2>3
<1>8. /\ FlattenSeq(seqs) \in Seq(All)
      /\ \A i \in 1 .. L : \A j \in DOMAIN seqs[i] : seqs[i][j] \in ToSet(FlattenSeq(seqs))
  <2> HIDE DEF seqs, of, L
  <2>1. \A i \in 1 .. L : seqs[i] \in Seq(All)
    BY <1>5, <1>6
  <2> QED
    BY <1>2, <1>6, <1>7, <2>1, FlattenFacts
<1>9. Reads(items) = FlattenSeq(seqs)
  BY DEF Reads
<1>10. \A i \in 1 .. L : ~items[i].pass /\ ~Skipped(items[i]) => of(i) = items[i].refs
  OBVIOUS
<1> HIDE DEF seqs, of
<1> QED
  BY <1>2, <1>3, <1>4, <1>6, <1>8, <1>9, <1>10

\* GPUPhysicalProjection::Execute begins to read.
LEMMA ProjectStays ==
    ASSUME Structure, NEW items \in Projections, Project(items)
    PROVE  Structure'
<1> DEFINE hands == {items[i].refs[1] : i \in {j \in DOMAIN items : items[j].pass}}
<1>1. Begin([kind |-> "project", hands |-> hands, by |-> items], Reads(items)) /\ BeginLeaves
  BY DEF Project, BeginLeaves, Reads
<1>2. \A i \in DOMAIN items : ToSet(items[i].refs) \subseteq All
  BY DEF Project, All
<1>3. Reads(items) \in Seq(All) /\ hands \subseteq All
  BY <1>2, ProjectReads
<1>4. Tasked'
  BY <1>1, <1>2 DEF Tasked, Begin, BeginLeaves, All, IsPart
<1> HIDE DEF hands
<1> QED
  BY <1>1, <1>3, <1>4, BeginStays

AllRefs == [i \in DOMAIN relation |-> i]
\* Every column is referred to once.
LEMMA AllRefsFacts ==
    ASSUME Structure
    PROVE  AllRefs \in Seq(All) /\ AllRefs \in Seq(Nat) /\ ToSet(AllRefs) = All
<1>1. Len(relation) \in Nat /\ DOMAIN relation = 1 .. Len(relation)
  BY SoundStores
<1>2. DOMAIN AllRefs = 1 .. Len(relation) /\ AllRefs \in [1 .. Len(relation) -> All] /\ AllRefs \in [1 .. Len(relation) -> Nat]
  BY <1>1 DEF AllRefs, All
<1>3. AllRefs \in Seq(All) /\ AllRefs \in Seq(Nat)
  BY <1>1, <1>2, IsSeq
<1>4. ToSet(AllRefs) = All
  BY DEF AllRefs, All, ToSet
<1> QED
  BY <1>3, <1>4

\* A limit begins to read every column.
LEMMA LimitStays ==
    ASSUME Structure, NEW l \in Limits, Limit(l)
    PROVE  Structure'
<1>1. Begin([kind |-> "limit", hands |-> {}, by |-> l], AllRefs) /\ BeginLeaves
  BY DEF Limit, BeginLeaves, AllRefs
<1>2. Tasked'
  BY <1>1 DEF Tasked, Begin, BeginLeaves
<1> QED
  BY <1>1, <1>2, BeginStays, AllRefsFacts

\* The probe of a hash join begins to read its key.
LEMMA ProbeStays ==
    ASSUME Structure, NEW key \in DOMAIN relation, Probe(key)
    PROVE  Structure'
<1>1. Begin([kind |-> "probe", hands |-> DOMAIN relation, by |-> key], <<key>>) /\ BeginLeaves
  BY DEF Probe, BeginLeaves
<1>2. Tasked'
  BY <1>1 DEF Tasked, Begin, BeginLeaves, All
<1>3. <<key>> \in Seq(All)
  BY OneRef DEF All
<1> QED
  BY <1>1, <1>2, <1>3, BeginStays DEF All

\* The build of a hash join begins to read its key.
LEMMA BuildStays ==
    ASSUME Structure, NEW key \in DOMAIN relation, NEW refs \in Aggregates \cup {<<>>}, Build(key, refs)
    PROVE  Structure'
<1>1. Begin([kind |-> "build", hands |-> DOMAIN relation, by |-> key, distinct |-> refs], <<key>>) /\ BeginLeaves
  BY DEF Build, BeginLeaves
<1>2. refs \in Seq(Nat) /\ ToSet(refs) \subseteq All
  <2>1. <<>> \in Seq(Nat)
    OBVIOUS
  <2>2. refs \in Seq(Nat)
    BY <2>1, LateMaterializationAssumption
  <2> QED
    BY <2>2 DEF Build, All
<1>3. Tasked'
  BY <1>1, <1>2 DEF Tasked, Begin, BeginLeaves, All, IsPart
<1>4. <<key>> \in Seq(All)
  BY OneRef DEF All
<1> QED
  BY <1>1, <1>3, <1>4, BeginStays DEF All

\* A left delim join begins to read what it groups by.
LEMMA DelimSinkStays ==
    ASSUME Structure, NEW refs \in Aggregates, DelimSink(refs)
    PROVE  Structure'
<1>1. Begin([kind |-> "delim", hands |-> DOMAIN relation, by |-> refs], refs) /\ BeginLeaves
  BY DEF DelimSink, BeginLeaves
<1>2. refs \in Seq(Nat) /\ ToSet(refs) \subseteq All
  BY LateMaterializationAssumption DEF DelimSink, All
<1>3. Tasked'
  BY <1>1 DEF Tasked, Begin, BeginLeaves, All
<1>4. refs \in Seq(All)
  BY <1>2, RefsFacts
<1> QED
  BY <1>1, <1>3, <1>4, BeginStays DEF All

\* ORDER BY begins to read its columns and its key.
LEMMA SortStays ==
    ASSUME Structure, NEW s \in Sorts, Sort(s)
    PROVE  Structure'
<1>0. s.cols \in Seq(Nat)
  BY LateMaterializationAssumption
<1>1. Begin([kind |-> "sort", hands |-> {}, by |-> s], Append(s.cols, s.key)) /\ BeginLeaves
  BY DEF Sort, BeginLeaves
<1>2. ToSet(s.cols) \cup {s.key} \subseteq All
  BY DEF Sort, All
<1>3. Tasked'
  BY <1>1, <1>2 DEF Tasked, Begin, BeginLeaves, All
<1>4. Append(s.cols, s.key) \in Seq(All)
  <2>1. s.cols \in Seq(All) /\ s.key \in All
    BY <1>0, <1>2, RefsFacts
  <2> QED
    BY <2>1, AppendProperties
<1> DEFINE operator == [kind |-> "sort", hands |-> {}, by |-> s]
           refs == Append(s.cols, s.key)
<1>5. Begin(operator, refs) /\ operator.hands \subseteq All /\ operator.kind # "distinct" /\ refs \in Seq(All)
  BY <1>1, <1>4
<1> HIDE DEF operator, refs
<1> QED
  BY <1>1, <1>3, <1>5, BeginStays

\* The result collector or an aggregate begins to read.
LEMMA CollectStays ==
    ASSUME Structure, NEW refs \in Aggregates \cup {[i \in DOMAIN relation |-> i]}, Collect("collect", refs)
    PROVE  Structure'
<1>1. Begin([kind |-> "collect", hands |-> {}, by |-> refs], refs) /\ BeginLeaves
  BY DEF Collect, BeginLeaves
<1>2. refs \in Seq(Nat) /\ ToSet(refs) \subseteq All
  BY LateMaterializationAssumption, AllRefsFacts DEF Collect, All, AllRefs
<1>3. Tasked'
  BY <1>1, <1>2 DEF Tasked, Begin, BeginLeaves, All, IsPart
<1>4. refs \in Seq(All)
  BY <1>2, RefsFacts
<1> QED
  BY <1>1, <1>3, <1>4, BeginStays

-----------------------------------------------------------------------------
(* Sources *)

\* What is left to show when an operator is done.
LEMMA ReadyStays ==
    ASSUME Typed', BaseIn(pool'), StoresSound', pc' = "ready",
           Len(cte'.want) = Len(cte'.cols), Len(built'.want) = Len(built'.cols),
           Len(sorted'.want) = Len(sorted'.cols), Len(wanted') = Len(relation'),
           UseIn(pool', ToSet(relation'), {}, Lent' \cup Hashed'), Alike(pool', ToSet(relation'))
    PROVE  Structure'
<1>1. Current' = ToSet(relation') /\ Composing' = {}
  BY DEF Current, Composing
<1>2. CurrentSound' /\ SharedAlike'
  BY <1>1 DEF CurrentSound, SharedAlike
<1>3. Reading' /\ DistinctIsStored' /\ ComposingSound' /\ Paired'
  BY DEF Reading, DistinctIsStored, ComposingSound, Paired
<1> QED
  BY <1>2, <1>3 DEF Structure

\* What is left to show when a pipeline ends.
LEMMA EndStays ==
    ASSUME Structure, Ends, Typed', BaseIn(pool'), StoresSound',
           Len(cte'.want) = Len(cte'.cols), Len(built'.want) = Len(built'.cols),
           Len(sorted'.want) = Len(sorted'.cols)
    PROVE  Structure'
<1>1. pc' = "source"
  BY DEF Ends
<1>2. Current' = {} /\ Composing' = {}
  BY <1>1 DEF Current, Composing
<1>3. CurrentSound' /\ SharedAlike'
  BY <1>1, <1>2 DEF CurrentSound, SharedAlike, UseIn
<1>4. Reading' /\ DistinctIsStored' /\ ComposingSound' /\ Paired'
  BY <1>1 DEF Reading, DistinctIsStored, ComposingSound, Paired
<1> QED
  BY <1>3, <1>4 DEF Structure

\* The parts of a store.
LEMMA StoreFacts ==
    ASSUME NEW store \in Stores
    PROVE  /\ store.cols \in Seq(Cols) /\ store.want \in Seq(Wants) /\ store.key \in Cols
           /\ store.keyRows \in Seq(Int) /\ store.once \in BOOLEAN
           /\ Len(store.cols) \in Nat /\ DOMAIN store.cols = 1 .. Len(store.cols)
           /\ Len(store.want) \in Nat /\ DOMAIN store.want = 1 .. Len(store.want)
           /\ \A i \in DOMAIN store.cols : store.cols[i] \in Cols /\ store.cols[i] \in ToSet(store.cols)
           /\ \A c \in ToSet(store.cols) : c \in Cols /\ \E i \in DOMAIN store.cols : c = store.cols[i]
<1>1. store.cols \in Seq(Cols) /\ store.want \in Seq(Wants) /\ store.key \in Cols
      /\ store.keyRows \in Seq(Int) /\ store.once \in BOOLEAN
  BY DEF Stores
<1> QED
  BY <1>1, SeqFacts

\* A store given up, or put in its place.
LEMMA StoresLess ==
    ASSUME NEW p, NEW once, NEW lent, NEW hashed, NEW kept, StoresIn(p, once, lent, hashed, kept)
    PROVE  /\ StoresIn(p, FALSE, {}, hashed, kept)
           /\ StoresIn(p, once, lent, {Empty}, kept)
           /\ StoresIn(p, once, lent, hashed, {})
  BY EmptyFacts DEF StoresIn

\* A CTE scan hands on columns of the working table.
LEMMA CTEScanStays ==
    ASSUME Structure, CTEScan
    PROVE  Structure'
<1>1. pc' = "ready" /\ wanted' = cte.want /\ pool' = pool /\ built' = built /\ sorted' = sorted
      /\ got' = got /\ moving' = moving /\ (cte' = cte \/ cte' = Nothing) /\ (cte.once => cte' = Nothing)
      /\ dropped' = (dropped \/ \E i \in DOMAIN cte.cols : cte.cols[i].ids # Null)
  BY DEF CTEScan, Starts
<1> DEFINE at(i) == Column(cte.cols[i].data, cte.cols[i].len)
<1>2. relation' = [i \in DOMAIN cte.cols |-> at(i)]
  BY DEF CTEScan
<1>3. cte \in Stores /\ built \in Stores /\ sorted \in Stores
  BY DEF Structure, Typed
<1>4. \A i \in DOMAIN cte.cols : cte.cols[i].data \in Nat /\ cte.cols[i].len \in Nat /\ cte.cols[i] \in Lent
  BY <1>3, StoreFacts DEF Cols, Lent
<1>5. \A i \in DOMAIN cte.cols : /\ at(i) \in Cols /\ at(i).ids = Null /\ Sound(pool, at(i))
                                 /\ \A d : Mine(pool, cte.cols[i], d) => Mine(pool, at(i), d)
                                 /\ Settled(pool, cte.cols[i]) => Settled(pool, at(i))
  <2> SUFFICES ASSUME NEW i \in DOMAIN cte.cols
               PROVE  /\ at(i) \in Cols /\ at(i).ids = Null /\ Sound(pool, at(i))
                      /\ \A d : Mine(pool, cte.cols[i], d) => Mine(pool, at(i), d)
                      /\ Settled(pool, cte.cols[i]) => Settled(pool, at(i))
    OBVIOUS
  <2>1. SoundData(pool, cte.cols[i])
    BY <1>4, SoundStores DEF Sound
  <2> QED
    BY <1>4, <2>1, ColumnFacts
<1> HIDE DEF at
<1>6. relation' \in Seq(Cols) /\ Len(relation') = Len(cte.cols) /\ \A c \in ToSet(relation') : \E i \in DOMAIN cte.cols : c = at(i)
  <2>1. relation' \in [1 .. Len(cte.cols) -> Cols] /\ DOMAIN relation' = 1 .. Len(cte.cols) /\ Len(cte.cols) \in Nat
    BY <1>2, <1>3, <1>5, StoreFacts
  <2>2. relation' \in Seq(Cols) /\ Len(relation') = Len(cte.cols)
    BY <2>1, IsSeq
  <2>3. \A c \in ToSet(relation') : \E i \in DOMAIN relation' : c = relation'[i]
    BY <2>2, SeqFacts
  <2> QED
    BY <1>2, <2>2, <2>3
<1>7. StoresIn(pool, cte.once, Lent, Hashed, Kept)
  BY DEF Structure, StoresSound
<1>8. (cte' = cte /\ Lent' = Lent) \/ (cte' = Nothing /\ Lent' = {} /\ cte'.once = FALSE)
  BY <1>1, EmptyFacts DEF Lent
<1>9. Hashed' = Hashed /\ Kept' = Kept
  BY <1>1 DEF Hashed, Kept
<1>10. StoresSound'
  BY <1>1, <1>7, <1>8, <1>9, StoresLess DEF StoresSound
<1>11. Typed'
  <2>1. cte' \in Stores
    BY <1>1, <1>3, EmptyFacts
  <2>2. wanted' \in Seq(Wants)
    BY <1>1, <1>3, StoreFacts
  <2>3. dropped' \in BOOLEAN
    BY <1>1 DEF Structure, Typed
  <2> QED
    BY <1>1, <1>6, <2>1, <2>2, <2>3 DEF Structure, Typed
<1>12. \A i \in DOMAIN cte.cols : \A d \in Lent' \cup Hashed' : Mine(pool, at(i), d)
  <2> SUFFICES ASSUME NEW i \in DOMAIN cte.cols, NEW d \in Lent' \cup Hashed'
               PROVE  Mine(pool, at(i), d)
    OBVIOUS
  <2>1. CASE d \in Hashed
    BY <1>4, <1>5, <1>7, <2>1 DEF StoresIn
  <2>2. CASE d \in Lent'
    <3>1. cte' = cte \/ Lent' = {}
      BY <1>8
    <3>2. CASE cte.once
      BY <1>1, <2>2, <3>2, EmptyFacts DEF Lent
    <3>3. CASE ~cte.once
      BY <1>4, <1>5, <1>7, <3>3, SettledMine DEF StoresIn
    <3> QED
      BY <3>2, <3>3
  <2> QED
    BY <1>9, <2>1, <2>2
<1>13. UseIn(pool', ToSet(relation'), {}, Lent' \cup Hashed')
  BY <1>1, <1>5, <1>6, <1>12 DEF UseIn
<1>14. Alike(pool', ToSet(relation'))
  BY <1>5, <1>6 DEF Alike
<1>15. /\ Len(cte'.want) = Len(cte'.cols) /\ Len(built'.want) = Len(built'.cols)
       /\ Len(sorted'.want) = Len(sorted'.cols) /\ Len(wanted') = Len(relation')
  BY <1>1, <1>6, EmptyFacts DEF Structure, Paired
<1>16. BaseIn(pool')
  BY <1>1 DEF Structure
<1> QED
  BY <1>1, <1>10, <1>11, <1>13, <1>14, <1>15, <1>16, ReadyStays

\* The result of a sort is handed on.
LEMMA SortScanStays ==
    ASSUME Structure, SortScan
    PROVE  Structure'
<1>1. pc' = "ready" /\ wanted' = sorted.want /\ relation' = sorted.cols /\ pool' = pool /\ built' = built
      /\ sorted' = Nothing /\ got' = got /\ moving' = moving /\ cte' = cte /\ dropped' = dropped
  BY DEF SortScan, Starts
<1>2. cte \in Stores /\ built \in Stores /\ sorted \in Stores
  BY DEF Structure, Typed
<1>3. StoresIn(pool, cte.once, Lent, Hashed, Kept)
  BY DEF Structure, StoresSound
<1>4. Lent' = Lent /\ Hashed' = Hashed /\ Kept' = {}
  BY <1>1, EmptyFacts DEF Lent, Hashed, Kept
<1>5. StoresSound'
  BY <1>1, <1>3, <1>4, StoresLess DEF StoresSound
<1>6. Typed'
  BY <1>1, <1>2, StoreFacts, EmptyFacts DEF Structure, Typed
<1>7. \A c \in ToSet(relation') : c \in Kept /\ Sound(pool, c) /\ Settled(pool, c)
  BY <1>1, <1>3 DEF Kept, StoresIn
<1>8. UseIn(pool', ToSet(relation'), {}, Lent' \cup Hashed')
  BY <1>1, <1>7, SettledMine DEF UseIn
<1>9. Alike(pool', ToSet(relation'))
  BY <1>1, <1>7 DEF Alike, Settled
<1>10. /\ Len(cte'.want) = Len(cte'.cols) /\ Len(built'.want) = Len(built'.cols)
       /\ Len(sorted'.want) = Len(sorted'.cols) /\ Len(wanted') = Len(relation')
  BY <1>1, EmptyFacts DEF Structure, Paired
<1>11. BaseIn(pool')
  BY <1>1 DEF Structure
<1> QED
  BY <1>1, <1>5, <1>6, <1>8, <1>9, <1>10, <1>11, ReadyStays

\* The rows a scan keeps, and the blocks it allocates.
Scanned(s) == Listed(IF s.filtered THEN {r \in 1 .. Rows : r \in s.keep} ELSE 1 .. Rows)

\* A scan keeps rows of the table.
LEMMA ScannedFacts ==
    ASSUME NEW s \in Scans
    PROVE  Scanned(s) \in Seq(1 .. Rows) /\ Scanned(s) \in Seq(Int)
<1> DEFINE K == IF s.filtered THEN {r \in 1 .. Rows : r \in s.keep} ELSE 1 .. Rows
<1>1. K \in SUBSET (1 .. Rows) /\ Rows \in Nat
  BY LateMaterializationAssumption
<1>2. K \in SUBSET Int
  BY <1>1
<1>3. Scanned(s) = Listed(K)
  BY DEF Scanned
<1> HIDE DEF K
<1>4. IsFiniteSet(1 .. Rows)
  BY <1>1, FS_Interval
<1>5. IsFiniteSet(K)
  BY <1>1, <1>4, FS_Subset
<1>6. Listed(K) \in Seq(K)
  BY <1>2, <1>5, ListedFacts
<1> DEFINE l == Listed(K)
<1>7. l \in Seq(K)
  BY <1>6
<1> HIDE DEF l
<1>8. \A i \in 1 .. Len(l) : l[i] \in K
  BY <1>7, SeqFacts
<1>9. l \in Seq(1 .. Rows)
  BY <1>1, <1>7, <1>8, WiderSeq
<1>10. l \in Seq(Int)
  BY <1>2, <1>7, <1>8, WiderSeq
<1> QED
  BY <1>3, <1>9, <1>10 DEF l

\* What a table scan allocates and hands on.
LEMMA ScanBlocks ==
    ASSUME Structure, NEW s \in Scans, TableScan(s)
    PROVE  \E q, ids, count, b :
              /\ q \in Seq(Blocks) /\ Grows(pool, q) /\ Grows(q, pool') /\ count \in Nat /\ ids \in Nat
              /\ IF s.filtered THEN /\ ids \in Places(pool) /\ SoundIds(q, ids) /\ ids # Null
                                    /\ q[ids].rows = Scanned(s) /\ count = Len(Scanned(s))
                 ELSE ids = Null /\ count = 0
              /\ IF s.rowId
                 THEN /\ b \in Places(q) /\ b \in Nat /\ b # Null /\ b \in DOMAIN pool' /\ pool'[b].state = "live"
                      /\ pool'[b].tag = RowId /\ pool'[b].rows = [r \in 1 .. Rows |-> r]
                      /\ relation' = Append(ScanColumns(s, ids, count),
                                            [data |-> b, ids |-> ids, len |-> Rows, count |-> count])
                 ELSE relation' = ScanColumns(s, ids, count)
<1> DEFINE kept == Scanned(s)
           all == [r \in 1 .. Rows |-> r]
<1>1. kept \in Seq(Int) /\ Len(kept) \in Nat
  BY ScannedFacts, SeqFacts
<1>2. all \in Seq(Int)
  <2>1. Rows \in Nat
    BY LateMaterializationAssumption
  <2>2. all \in [1 .. Rows -> Int] /\ DOMAIN all = 1 .. Rows
    OBVIOUS
  <2> HIDE DEF all
  <2> QED
    BY <2>1, <2>2, IsSeq
<1>3. pool \in Seq(Blocks)
  BY SoundStores
<1> DEFINE scanned(a) == IF s.filtered THEN Put(pool, a, "live", Ids, kept) ELSE pool
           ids(a) == IF s.filtered THEN a ELSE Null
           count == IF s.filtered THEN Len(kept) ELSE 0
<1>4. PICK a \in Places(pool), b \in Nat \cup Places(scanned(0)) \cup UNION {Places(scanned(x)) : x \in Places(pool)} :
         /\ b \in Places(scanned(a))
         /\ IF s.rowId
            THEN /\ pool' = Put(scanned(a), b, "live", RowId, all)
                 /\ relation' = Append(ScanColumns(s, ids(a), count), [data |-> b, ids |-> ids(a), len |-> Rows, count |-> count])
            ELSE pool' = scanned(a) /\ relation' = ScanColumns(s, ids(a), count)
  <2> HIDE DEF all
  <2> QED
    BY DEF TableScan, Scanned, all
<1> DEFINE q == scanned(a)
<1>5. q \in Seq(Blocks) /\ Grows(pool, q) /\ ids(a) \in Nat
      /\ (s.filtered => /\ SoundIds(q, a) /\ a # Null /\ q[a].rows = kept)
  <2>1. CASE s.filtered
    <3>1. [state |-> "live", tag |-> Ids, rows |-> kept] \in Blocks
      BY <1>1 DEF Blocks, Ids
    <3> HIDE DEF kept
    <3>2. /\ q \in Seq(Blocks) /\ Grows(pool, q) /\ a \in DOMAIN q /\ a \in Nat /\ a # Null
          /\ q[a].state = "live" /\ q[a].tag = Ids /\ q[a].rows = kept
      BY <1>3, <2>1, <3>1, PutFacts
    <3> QED
      BY <2>1, <3>2 DEF SoundIds
  <2>2. CASE ~s.filtered
    BY <1>3, <2>2, GrowsSelf DEF Null
  <2> QED
    BY <2>1, <2>2
<1>6. CASE s.rowId
  <2>1. pool' = Put(q, b, "live", RowId, all) /\ b \in Places(q)
    BY <1>4, <1>6
  <2>2. [state |-> "live", tag |-> RowId, rows |-> all] \in Blocks
    BY <1>2 DEF Blocks, RowId
  <2>3. /\ Grows(q, pool') /\ b \in DOMAIN pool' /\ b \in Nat /\ b # Null
        /\ pool'[b].state = "live" /\ pool'[b].tag = RowId /\ pool'[b].rows = all
    <3> HIDE DEF q, all
    <3> QED
      BY <1>5, <2>1, <2>2, PutFacts
  <2>4. relation' = Append(ScanColumns(s, ids(a), count), [data |-> b, ids |-> ids(a), len |-> Rows, count |-> count])
    BY <1>4, <1>6
  <2>5. IF s.filtered THEN /\ ids(a) \in Places(pool) /\ SoundIds(q, ids(a)) /\ ids(a) # Null
                           /\ q[ids(a)].rows = kept /\ count = Len(kept)
        ELSE ids(a) = Null /\ count = 0
    BY <1>5
  <2>6. count \in Nat
    BY <1>1
  <2> HIDE DEF q, all, kept, ids, count
  <2> QED
    BY <1>5, <1>6, <2>1, <2>3, <2>4, <2>5, <2>6 DEF all, kept
<1>7. CASE ~s.rowId
  <2>1. pool' = q /\ relation' = ScanColumns(s, ids(a), count)
    BY <1>4, <1>7
  <2>2. Grows(q, pool')
    BY <1>5, <2>1, GrowsSelf
  <2>5. IF s.filtered THEN /\ ids(a) \in Places(pool) /\ SoundIds(q, ids(a)) /\ ids(a) # Null
                           /\ q[ids(a)].rows = kept /\ count = Len(kept)
        ELSE ids(a) = Null /\ count = 0
    BY <1>5
  <2>6. count \in Nat
    BY <1>1
  <2> HIDE DEF q, kept, ids, count
  <2> QED
    BY <1>5, <1>7, <2>1, <2>2, <2>5, <2>6 DEF kept
<1> QED
  BY <1>6, <1>7

\* What the plan means by a scan.
LEMMA ScanWants ==
    ASSUME NEW s \in Scans, TableScan(s)
    PROVE  LET n == Columns + IF s.rowId THEN 1 ELSE 0
           IN  /\ n \in Nat /\ wanted' \in Seq(Wants) /\ Len(wanted') = n /\ DOMAIN wanted' = 1 .. n
               /\ \A c \in 1 .. n : /\ wanted'[c].tag = (IF c > Columns THEN RowId ELSE c)
                                    /\ wanted'[c].rows = Scanned(s)
<1> DEFINE n == Columns + IF s.rowId THEN 1 ELSE 0
           at(c) == [tag |-> IF c > Columns THEN RowId ELSE c, rows |-> Scanned(s)]
<1>1. n \in Nat
  BY LateMaterializationAssumption
<1>2. wanted' = [c \in 1 .. n |-> at(c)]
  BY DEF TableScan, Scanned
<1>3. \A c \in 1 .. n : at(c) \in Wants
  BY ScannedFacts DEF Wants, RowId
<1>4. DOMAIN wanted' = 1 .. n /\ wanted' \in [1 .. n -> Wants] /\ \A c \in 1 .. n : wanted'[c] = at(c)
  <2> HIDE DEF n, at
  <2> QED
    BY <1>2, <1>3
<1>5. wanted' \in Seq(Wants) /\ Len(wanted') = n
  <2> HIDE DEF n, at
  <2> QED
    BY <1>1, <1>4, IsSeq
<1>6. \A c \in 1 .. n : /\ wanted'[c].tag = (IF c > Columns THEN RowId ELSE c)
                         /\ wanted'[c].rows = Scanned(s)
  <2> HIDE DEF n
  <2> QED
    BY <1>4
<1> HIDE DEF at
<1> QED
  BY <1>1, <1>4, <1>5, <1>6

\* A cached column.
LEMMA BaseFacts ==
    ASSUME NEW p, BaseIn(p), NEW c \in 1 .. Columns
    PROVE  c \in DOMAIN p /\ p[c].state = "kept" /\ p[c].tag = c /\ p[c].rows = [r \in 1 .. Rows |-> r]
<1> DEFINE all == [r \in 1 .. Rows |-> r]
<1>1. c \in DOMAIN p /\ p[c] = [state |-> "kept", tag |-> c, rows |-> all]
  BY DEF BaseIn
<1> HIDE DEF all
<1>2. c \in DOMAIN p /\ p[c].state = "kept" /\ p[c].tag = c /\ p[c].rows = all
  BY <1>1
<1> QED
  BY <1>2 DEF all

\* The columns a scan hands on.
ScanColumn(ids, count, c) == [data |-> c, ids |-> ids, len |-> Rows, count |-> count]
ScanResult(s, ids, count, b) ==
    IF s.rowId THEN Append(ScanColumns(s, ids, count), ScanColumn(ids, count, b)) ELSE ScanColumns(s, ids, count)

LEMMA ScanRelation ==
    ASSUME NEW s \in Scans, NEW ids \in Nat, NEW count \in Nat, NEW b, s.rowId => b \in Nat
    PROVE  LET rel == ScanResult(s, ids, count, b)
           IN  /\ rel \in Seq(Cols) /\ Len(rel) = Columns + (IF s.rowId THEN 1 ELSE 0)
               /\ \A i \in DOMAIN rel : \/ i \in 1 .. Columns /\ rel[i] = ScanColumn(ids, count, i)
                                        \/ s.rowId /\ i = Columns + 1 /\ rel[i] = ScanColumn(ids, count, b)
<1>1. Columns \in Nat /\ Rows \in Nat
  BY LateMaterializationAssumption
<1> DEFINE at(c) == ScanColumn(ids, count, c)
           cols == ScanColumns(s, ids, count)
           rel == ScanResult(s, ids, count, b)
<1>2. cols \in Seq(Cols) /\ Len(cols) = Columns /\ \A c \in 1 .. Columns : cols[c] = at(c)
  <2>1. cols = [c \in 1 .. Columns |-> at(c)]
    BY DEF ScanColumns, ScanColumn
  <2>2. \A c \in Nat : at(c) \in Cols
    BY <1>1 DEF Cols, ScanColumn
  <2> HIDE DEF at, cols
  <2>3. cols \in [1 .. Columns -> Cols] /\ DOMAIN cols = 1 .. Columns /\ \A c \in 1 .. Columns : cols[c] = at(c)
    BY <1>1, <2>1, <2>2
  <2> QED
    BY <1>1, <2>3, IsSeq
<1>3. /\ rel \in Seq(Cols) /\ Len(rel) = Columns + (IF s.rowId THEN 1 ELSE 0)
      /\ \A i \in DOMAIN rel : \/ i \in 1 .. Columns /\ rel[i] = at(i)
                               \/ s.rowId /\ i = Columns + 1 /\ rel[i] = at(b)
  <2>1. CASE s.rowId
    <3>1. at(b) \in Cols
      BY <1>1, <2>1 DEF Cols, ScanColumn
    <3>2. rel = Append(cols, at(b))
      BY <2>1 DEF ScanResult
    <3> HIDE DEF at, cols, rel
    <3>3. /\ rel \in Seq(Cols) /\ Len(rel) = Columns + 1
          /\ \A i \in 1 .. Columns : rel[i] = at(i)
          /\ rel[Columns + 1] = at(b)
      BY <1>1, <1>2, <3>1, <3>2, AppendProperties
    <3>4. DOMAIN rel = 1 .. Columns + 1
      BY <3>3, SeqFacts
    <3> QED
      BY <1>1, <2>1, <3>3, <3>4
  <2>2. CASE ~s.rowId
    <3>1. rel = cols
      BY <2>2 DEF ScanResult
    <3> HIDE DEF at, cols, rel
    <3> QED
      BY <1>1, <1>2, <2>2, <3>1, SeqFacts
  <2> QED
    BY <2>1, <2>2
<1> QED
  BY <1>3

\* A table scan hands on views of the cached columns.
LEMMA TableScanStays ==
    ASSUME Structure, NEW s \in Scans, TableScan(s)
    PROVE  Structure'
<1>1. /\ pc' = "ready" /\ got' = got /\ moving' = moving /\ cte' = cte /\ built' = built /\ sorted' = sorted
      /\ dropped' = dropped
  BY DEF TableScan, Starts
<1>2. PICK q, ids, count, b :
              /\ q \in Seq(Blocks) /\ Grows(pool, q) /\ Grows(q, pool') /\ count \in Nat /\ ids \in Nat
              /\ IF s.filtered THEN /\ ids \in Places(pool) /\ SoundIds(q, ids) /\ ids # Null
                                    /\ q[ids].rows = Scanned(s) /\ count = Len(Scanned(s))
                 ELSE ids = Null /\ count = 0
              /\ IF s.rowId
                 THEN /\ b \in Places(q) /\ b \in Nat /\ b # Null /\ b \in DOMAIN pool' /\ pool'[b].state = "live"
                      /\ pool'[b].tag = RowId /\ pool'[b].rows = [r \in 1 .. Rows |-> r]
                      /\ relation' = Append(ScanColumns(s, ids, count),
                                            [data |-> b, ids |-> ids, len |-> Rows, count |-> count])
                 ELSE relation' = ScanColumns(s, ids, count)
  BY ScanBlocks
<1>3. Columns \in Nat /\ Rows \in Nat
  BY LateMaterializationAssumption
<1>4. Grows(pool, pool') /\ pool' \in Seq(Blocks)
  BY <1>2, GrowsOn, GrowsFacts
<1>5. BaseIn(pool')
  BY <1>4, BaseGrows DEF Structure
<1> DEFINE at(c) == [data |-> c, ids |-> ids, len |-> Rows, count |-> count]
<1>7. /\ relation' \in Seq(Cols) /\ Len(relation') = Columns + (IF s.rowId THEN 1 ELSE 0)
      /\ \A i \in DOMAIN relation' : \/ i \in 1 .. Columns /\ relation'[i] = at(i)
                                     \/ s.rowId /\ i = Columns + 1 /\ relation'[i] = at(b)
  <2>1. relation' = ScanResult(s, ids, count, b) /\ (s.rowId => b \in Nat)
    BY <1>2 DEF ScanResult, ScanColumn
  <2>2. \A c : at(c) = ScanColumn(ids, count, c)
    BY DEF ScanColumn
  <2> HIDE DEF at
  <2> QED
    BY <1>2, <2>1, <2>2, ScanRelation
<1>8. \A c \in ToSet(relation') : \E d : c = at(d) /\ (d \in 1 .. Columns \/ (s.rowId /\ d = b))
  <2> HIDE DEF at
  <2> QED
    BY <1>7, SeqFacts
<1>9. SoundIds(pool', ids)
  BY <1>2, SoundGrows DEF SoundIds
<1>10. \A d : d \in 1 .. Columns => d \in DOMAIN pool' /\ pool'[d].state = "kept" /\ pool'[d].tag = d
  BY <1>5, BaseFacts
<1>11. \A d : d \in 1 .. Columns \/ (s.rowId /\ d = b) => Sound(pool', at(d))
  BY <1>2, <1>9, <1>10 DEF Sound, SoundData, Ids, RowId
<1>12. \A e \in Lent \cup Hashed : ids # Null => ids \notin {e.data, e.ids}
  <2> SUFFICES ASSUME NEW e \in Lent \cup Hashed, ids # Null PROVE ids \notin {e.data, e.ids}
    OBVIOUS
  <2>1. Sound(pool, e) /\ ids \in Places(pool) /\ pool \in Seq(Blocks)
    BY <1>2, SoundStores
  <2> QED
    BY <2>1, FreshOther DEF Sound
<1>13. \A e \in Lent \cup Hashed : s.rowId => b \notin {e.data, e.ids}
  <2> SUFFICES ASSUME NEW e \in Lent \cup Hashed, s.rowId PROVE b \notin {e.data, e.ids}
    OBVIOUS
  <2>1. Sound(q, e) /\ b \in Places(q) /\ q \in Seq(Blocks)
    BY <1>2, SoundStores, SoundGrows
  <2> QED
    BY <2>1, FreshOther DEF Sound
<1>14. \A d : d \in 1 .. Columns \/ (s.rowId /\ d = b) => \A e \in Lent \cup Hashed : Mine(pool', at(d), e)
  BY <1>10, <1>12, <1>13 DEF Mine
<1>15. Lent' = Lent /\ Hashed' = Hashed /\ Kept' = Kept
  BY <1>1 DEF Lent, Hashed, Kept
<1>16. UseIn(pool', ToSet(relation'), {}, Lent' \cup Hashed')
  BY <1>8, <1>11, <1>14, <1>15 DEF UseIn
<1>17. Alike(pool', ToSet(relation'))
  BY <1>8 DEF Alike
<1>18. StoresSound'
  BY <1>1, <1>4, <1>15, StoresGrow DEF Structure, StoresSound
<1>19. Typed'
  BY <1>1, <1>4, <1>7, ScanWants DEF Structure, Typed
<1>20. /\ Len(cte'.want) = Len(cte'.cols) /\ Len(built'.want) = Len(built'.cols)
       /\ Len(sorted'.want) = Len(sorted'.cols) /\ Len(wanted') = Len(relation')
  BY <1>1, <1>7, ScanWants DEF Structure, Paired
<1> QED
  BY <1>1, <1>5, <1>16, <1>17, <1>18, <1>19, <1>20, ReadyStays

-----------------------------------------------------------------------------
(* Reading a column *)

\* What Structure says while an operator reads.
LEMMA SoundRead ==
    ASSUME Structure, pc = "read"
    PROVE  /\ Tasked /\ DOMAIN got = All /\ todo \in Seq(All) /\ task.hands \subseteq All
           /\ \A j \in InHand : j \in All
           /\ \A i \in All : /\ got[i] \in Gots /\ got[i].col \in Cols /\ got[i].col.ids = Null
                             /\ got[i].tag # Ids /\ got[i].tag \in Int /\ got[i].rows \in Seq(Int)
           /\ Len(relation) \in Nat /\ All = 1 .. Len(relation) /\ Len(got) = Len(relation)
           /\ got \in Seq(Gots) /\ wanted \in Seq(Wants) /\ Len(wanted) = Len(relation) /\ DOMAIN wanted = All
           /\ \A i \in All : wanted[i] \in Wants /\ wanted[i].rows \in Seq(Int) /\ wanted[i].tag \in Int
           /\ task.kind # "distinct" =>
                 /\ Current = {relation[j] : j \in InHand} \cup {got[i].col : i \in DOMAIN got}
                 /\ \A j \in InHand : /\ Sound(pool, relation[j])
                                      /\ \A d \in Lent \cup Hashed : Mine(pool, relation[j], d)
                 /\ \A i \in All : /\ Sound(pool, got[i].col)
                                   /\ \A d \in Lent \cup Hashed : Mine(pool, got[i].col, d)
                 /\ Alike(pool, Current)
<1>1. /\ Tasked /\ DOMAIN got = All /\ todo \in Seq(All) /\ task.hands \subseteq All
      /\ \A i \in All : got[i].col.ids = Null /\ got[i].tag # Ids
  BY DEF Structure, Reading
<1>2. \A j \in InHand : j \in All
  BY <1>1, SeqFacts DEF InHand
<1>3. Len(relation) \in Nat /\ All = 1 .. Len(relation)
  BY SoundStores DEF All
<1>4. got \in Seq(Gots) /\ wanted \in Seq(Wants) /\ Len(wanted) = Len(relation)
  BY DEF Structure, Typed, Paired
<1>5. Len(got) = Len(relation) /\ (\A i \in All : got[i] \in Gots) /\ DOMAIN wanted = All
      /\ \A i \in All : wanted[i] \in Wants
  BY <1>1, <1>3, <1>4, SeqFacts
<1>6. \A i \in All : got[i].col \in Cols /\ got[i].tag \in Int /\ got[i].rows \in Seq(Int)
  BY <1>5 DEF Gots
<1>7. \A i \in All : wanted[i].rows \in Seq(Int) /\ wanted[i].tag \in Int
  BY <1>5 DEF Wants
<1>8. ASSUME task.kind # "distinct"
      PROVE  /\ Current = {relation[j] : j \in InHand} \cup {got[i].col : i \in DOMAIN got}
             /\ \A c \in Current : Sound(pool, c) /\ \A d \in Lent \cup Hashed : Mine(pool, c, d)
             /\ Alike(pool, Current)
  <2>1. Current = {relation[j] : j \in InHand} \cup {got[i].col : i \in DOMAIN got}
    BY <1>8 DEF Current
  <2> QED
    BY <2>1 DEF Structure, CurrentSound, UseIn, SharedAlike
<1> HIDE DEF All
<1> QED
  BY <1>1, <1>2, <1>3, <1>4, <1>5, <1>6, <1>7, <1>8

\* The rest of a sequence.
LEMMA TailFacts ==
    ASSUME NEW T, NEW s \in Seq(T), s # <<>>
    PROVE  /\ Head(s) \in T /\ Tail(s) \in Seq(T) /\ Head(s) \in ToSet(s) /\ Len(s) \in Nat \ {0}
           /\ Len(Tail(s)) = Len(s) - 1 /\ \A i \in 1 .. Len(Tail(s)) : Tail(s)[i] = s[i + 1]
           /\ \A x \in ToSet(Tail(s)) : x \in ToSet(s)
           /\ \A x \in ToSet(s) : x = Head(s) \/ x \in ToSet(Tail(s))
           /\ Head(s) = s[1]
<1>1. Len(s) \in Nat \ {0} /\ DOMAIN s = 1 .. Len(s)
  BY SeqFacts
<1>2. /\ Head(s) = s[1] /\ Tail(s) \in Seq(T) /\ Len(Tail(s)) = Len(s) - 1
      /\ \A i \in 1 .. Len(Tail(s)) : Tail(s)[i] = s[i + 1]
  BY HeadTailProperties
<1>3. Head(s) \in T /\ Head(s) \in ToSet(s)
  BY <1>1, <1>2, SeqFacts
<1>4. DOMAIN Tail(s) = 1 .. Len(s) - 1
  BY <1>2, SeqFacts
<1> DEFINE t == Tail(s)
<1>5. \A x \in ToSet(t) : x \in ToSet(s)
  <2> SUFFICES ASSUME NEW x \in ToSet(t) PROVE x \in ToSet(s)
    OBVIOUS
  <2>1. t \in Seq(T) /\ Len(t) = Len(s) - 1 /\ DOMAIN t = 1 .. Len(s) - 1
        /\ \A i \in 1 .. Len(t) : t[i] = s[i + 1]
    BY <1>2, <1>4
  <2> HIDE DEF t
  <2>2. PICK i \in DOMAIN t : x = t[i]
    BY <2>1, SeqFacts
  <2>3. i + 1 \in DOMAIN s /\ x = s[i + 1]
    BY <1>1, <2>1, <2>2
  <2> QED
    BY <2>3, SeqFacts
<1>6. \A x \in ToSet(s) : x = Head(s) \/ x \in ToSet(Tail(s))
  <2> SUFFICES ASSUME NEW i \in 1 .. Len(s), i # 1 PROVE s[i] \in ToSet(Tail(s))
    BY <1>1, <1>2, SeqFacts
  <2>1. i - 1 \in 1 .. Len(s) - 1 /\ (i - 1) + 1 = i
    BY <1>1
  <2>2. t \in Seq(T) /\ i - 1 \in DOMAIN t /\ t[i - 1] = s[i]
    BY <1>2, <1>4, <2>1
  <2> HIDE DEF t
  <2>3. t[i - 1] \in ToSet(t)
    BY <2>2, SeqFacts
  <2> QED
    BY <2>2, <2>3 DEF t
<1> QED
  BY <1>1, <1>2, <1>3, <1>5, <1>6

\* The column at the head of todo has been read into col.
HasColumn(at, col, rows, tag) ==
    /\ relation' = IF task.kind = "sort" /\ Len(todo) > 1 THEN [relation EXCEPT ![at] = col] ELSE relation
    /\ got' = [got EXCEPT ![at] = [col |-> col, rows |-> rows, tag |-> tag]]
    /\ todo' = Tail(todo)
    /\ UNCHANGED <<wanted, task, moving, cte, built, sorted, dropped>>
    /\ col \in Cols /\ col.ids = Null /\ rows \in Seq(Int) /\ tag \in Int /\ tag # Ids

\* Reading a column replaces it in got, and under a sort in the relation.
LEMMA ReadFacts ==
    ASSUME Structure, pc = "read", todo # <<>>, NEW col, NEW rows, NEW tag, HasColumn(Head(todo), col, rows, tag)
    PROVE  LET at == Head(todo)
           IN  /\ at \in All /\ at \in ToSet(todo) /\ at \in InHand
               /\ relation' \in Seq(Cols) /\ DOMAIN relation' = DOMAIN relation /\ Len(relation') = Len(relation)
               /\ \A j \in All : relation'[j] = relation[j] \/ (j = at /\ relation'[j] = col)
               /\ \A j \in All : j # at => relation'[j] = relation[j]
               /\ task.kind # "sort" => relation' = relation
               /\ got' \in Seq(Gots) /\ DOMAIN got' = All
               /\ got'[at] = [col |-> col, rows |-> rows, tag |-> tag]
               /\ \A i \in All : i # at => got'[i] = got[i]
               /\ todo' \in Seq(All) /\ \A j \in InHand' : j \in InHand
               /\ ToSet(todo) = {at} \cup ToSet(todo')
<1> DEFINE at == Head(todo)
           new == [col |-> col, rows |-> rows, tag |-> tag]
<1>1. todo \in Seq(All) /\ got \in Seq(Gots) /\ DOMAIN got = All /\ Len(relation) \in Nat /\ All = 1 .. Len(relation)
      /\ relation \in Seq(Cols) /\ Len(got) = Len(relation)
  BY SoundRead DEF Structure, Typed
<1>2. at \in All /\ at \in ToSet(todo) /\ Tail(todo) \in Seq(All) /\ ToSet(todo) = {at} \cup ToSet(Tail(todo))
  BY <1>1, TailFacts
<1>3. new \in Gots
  BY DEF HasColumn, Gots
<1>4. got' \in Seq(Gots) /\ DOMAIN got' = All /\ got'[at] = new /\ \A i \in All : i # at => got'[i] = got[i]
  <2>1. got' = [got EXCEPT ![at] = new]
    BY DEF HasColumn
  <2> HIDE DEF at, new
  <2>2. got \in [1 .. Len(relation) -> Gots]
    BY <1>1, SeqFacts
  <2>3. got' \in [1 .. Len(relation) -> Gots] /\ DOMAIN got' = All /\ got'[at] = new /\ \A i \in All : i # at => got'[i] = got[i]
    BY <1>1, <1>2, <1>3, <2>1, <2>2
  <2> QED
    BY <1>1, <2>3, IsSeq
<1>5. /\ relation' \in Seq(Cols) /\ DOMAIN relation' = DOMAIN relation /\ Len(relation') = Len(relation)
      /\ \A j \in All : relation'[j] = relation[j] \/ (j = at /\ relation'[j] = col)
      /\ \A j \in All : j # at => relation'[j] = relation[j]
      /\ task.kind # "sort" => relation' = relation
  <2>1. CASE relation' = [relation EXCEPT ![at] = col] /\ task.kind = "sort"
    <3> HIDE DEF at
    <3>1. relation \in [1 .. Len(relation) -> Cols] /\ DOMAIN relation = 1 .. Len(relation)
      BY <1>1, SeqFacts
    <3>2. /\ relation' \in [1 .. Len(relation) -> Cols] /\ DOMAIN relation' = 1 .. Len(relation)
          /\ \A j \in All : relation'[j] = relation[j] \/ (j = at /\ relation'[j] = col)
          /\ \A j \in All : j # at => relation'[j] = relation[j]
      BY <1>1, <1>2, <2>1, <3>1 DEF HasColumn
    <3>3. relation' \in Seq(Cols) /\ Len(relation') = Len(relation)
      BY <1>1, <3>2, IsSeq
    <3> QED
      BY <2>1, <3>1, <3>2, <3>3
  <2>2. CASE relation' = relation
    BY <1>1, <2>2
  <2> QED
    BY <2>1, <2>2 DEF HasColumn
<1>6. todo' = Tail(todo) /\ task' = task
  BY DEF HasColumn
<1>7. \A j \in InHand' : j \in InHand
  BY <1>2, <1>6 DEF InHand
<1>8. at \in InHand
  BY <1>2 DEF InHand
<1> HIDE DEF at, new
<1>9. ToSet(todo) = {at} \cup ToSet(todo') /\ todo' \in Seq(All)
  BY <1>2, <1>6
<1> QED
  BY <1>2, <1>4, <1>5, <1>7, <1>8, <1>9 DEF at, new

\* A column in use after a read was in use before, or is the one read.
LEMMA ReadCurrent ==
    ASSUME Structure, pc = "read", todo # <<>>, NEW col, NEW rows, NEW tag, HasColumn(Head(todo), col, rows, tag),
           pc' = "read", task.kind # "distinct", NEW c \in Current'
    PROVE  \/ c = col
           \/ \E j \in InHand' : j \in InHand /\ c = relation[j] /\ relation'[j] = c
           \/ \E i \in All : c = got[i].col
<1>1. Current' = {relation'[j] : j \in InHand'} \cup {got'[i].col : i \in DOMAIN got'}
  BY DEF Current, HasColumn
<1>2. CASE \E j \in InHand' : c = relation'[j]
  <2>1. PICK j \in InHand' : c = relation'[j]
    BY <1>2
  <2>2. j \in InHand /\ j \in All
    BY ReadFacts, SoundRead
  <2> QED
    BY <2>1, <2>2, ReadFacts
<1>3. CASE \E i \in DOMAIN got' : c = got'[i].col
  <2>1. PICK i \in DOMAIN got' : c = got'[i].col
    BY <1>3
  <2>2. i \in All
    BY ReadFacts
  <2>3. CASE i = Head(todo)
    <3>1. got'[i] = [col |-> col, rows |-> rows, tag |-> tag]
      BY <2>3, ReadFacts
    <3> QED
      BY <2>1, <3>1
  <2>4. CASE i # Head(todo)
    BY <2>1, <2>2, <2>4, ReadFacts
  <2> QED
    BY <2>3, <2>4
<1> QED
  BY <1>1, <1>2, <1>3

\* What is left to show of a step that reads a column.
LEMMA ReadStays ==
    ASSUME Structure, pc = "read", todo # <<>>, NEW col, NEW rows, NEW tag, HasColumn(Head(todo), col, rows, tag),
           pool' \in Seq(Blocks), BaseIn(pool'), StoresSound', pc' \in {"read", "thrown"},
           pc' = "read" /\ task.kind # "distinct" =>
               /\ \A c \in Current' : Sound(pool', c) /\ \A d \in Lent \cup Hashed : Mine(pool', c, d)
               /\ Alike(pool', Current')
    PROVE  Structure'
<1>1. task' = task /\ wanted' = wanted /\ moving' = moving /\ cte' = cte /\ built' = built /\ sorted' = sorted /\ dropped' = dropped
  BY DEF HasColumn
<1>2. All' = All /\ Len(relation') = Len(relation)
  BY ReadFacts DEF All
<1>3. Typed'
  BY <1>1, ReadFacts DEF Structure, Typed
<1>4. Paired'
  BY <1>1, <1>2 DEF Structure, Paired
<1>5. Lent' = Lent /\ Hashed' = Hashed
  BY <1>1 DEF Lent, Hashed
<1>6. Reading'
  <2>1. pc' # "done"
    OBVIOUS
  <2>2. Tasked'
    <3>1. Tasked
      BY SoundRead
    <3> QED
      BY <1>1, <1>2, <3>1 DEF Tasked, IsPart
  <2>3. \A i \in All : got'[i].col.ids = Null /\ got'[i].tag # Ids
    <3> SUFFICES ASSUME NEW i \in All PROVE got'[i].col.ids = Null /\ got'[i].tag # Ids
      OBVIOUS
    <3>1. CASE i = Head(todo)
      BY <3>1, ReadFacts DEF HasColumn
    <3>2. CASE i # Head(todo)
      BY <3>2, ReadFacts, SoundRead
    <3> QED
      BY <3>1, <3>2
  <2>4. todo' \in Seq(All) /\ task.hands \subseteq All /\ DOMAIN got' = All
    BY ReadFacts, SoundRead
  <2> QED
    BY <1>1, <1>2, <2>1, <2>2, <2>3, <2>4 DEF Reading
<1>7. Composing' = {}
  BY DEF Composing
<1>8. CASE pc' = "read" /\ task.kind # "distinct"
  <2>1. CurrentSound'
    BY <1>5, <1>7, <1>8 DEF CurrentSound, UseIn
  <2>2. SharedAlike'
    BY <1>8 DEF SharedAlike
  <2>3. DistinctIsStored' /\ ComposingSound'
    BY <1>1, <1>8 DEF DistinctIsStored, ComposingSound
  <2> QED
    BY <1>3, <1>4, <1>6, <2>1, <2>2, <2>3 DEF Structure
<1>9. CASE ~ (pc' = "read" /\ task.kind # "distinct")
  <2>1. Current' = {}
    BY <1>1, <1>9 DEF Current
  <2>2. CurrentSound' /\ SharedAlike' /\ ComposingSound'
    BY <1>7, <2>1 DEF CurrentSound, UseIn, SharedAlike, Alike, ComposingSound
  <2>3. DistinctIsStored'
    <3> SUFFICES ASSUME pc' = "read", task.kind = "distinct" PROVE \A i \in All : relation'[i] \in Hashed
      BY <1>1, <1>2, <1>5 DEF DistinctIsStored
    <3>1. relation' = relation
      BY ReadFacts
    <3> QED
      BY <3>1 DEF Structure, DistinctIsStored
  <2> QED
    BY <1>3, <1>4, <1>6, <2>2, <2>3 DEF Structure
<1> QED
  BY <1>8, <1>9

\* The column to read next is sound.
LEMMA HeadSound ==
    ASSUME Structure, pc = "read", todo # <<>>
    PROVE  LET at == Head(todo)
           IN  /\ at \in All /\ at \in InHand /\ relation[at] \in Cols /\ Sound(pool, relation[at])
               /\ task.kind = "distinct" => relation[at] \in Hashed
               /\ task.kind # "distinct" => /\ relation[at] \in Current
                                            /\ \A d \in Lent \cup Hashed : Mine(pool, relation[at], d)
<1> DEFINE at == Head(todo)
<1>1. at \in All /\ at \in ToSet(todo)
  BY SoundRead, TailFacts
<1>2. at \in InHand /\ relation[at] \in Cols
  BY <1>1, SoundStores DEF InHand, All
<1> HIDE DEF at
<1>3. CASE task.kind = "distinct"
  <2>1. relation[at] \in Hashed
    BY <1>1, <1>3 DEF Structure, DistinctIsStored
  <2> QED
    BY <1>1, <1>2, <1>3, <2>1, SoundStores DEF at
<1>4. CASE task.kind # "distinct"
  BY <1>1, <1>2, <1>4, SoundRead DEF at
<1> QED
  BY <1>3, <1>4

\* A column like those it shares blocks with may join them.
LEMMA AlikeMore ==
    ASSUME NEW p, NEW cols, Alike(p, cols), NEW col, NEW more,
           \A c \in more : c = col \/ c \in cols,
           \A c \in cols : c.data = col.data /\ c.data # Null /\ p[c.data].state = "live"
                             => (c.ids = Null <=> col.ids = Null)
    PROVE  Alike(p, more)
  BY DEF Alike

\* Nothing is read, or what is stored is read where it is.
LEMMA ReadInPlaceStays ==
    ASSUME Structure, pc = "read", todo # <<>>, NEW col, NEW rows, NEW tag, HasColumn(Head(todo), col, rows, tag),
           pool' = pool, pc' = pc, Sound(pool, col),
           \/ col = Empty
           \/ relation[Head(todo)].ids = Null /\ col.data = relation[Head(todo)].data
    PROVE  Structure'
<1>1. pool' \in Seq(Blocks) /\ BaseIn(pool')
  BY SoundStores DEF Structure
<1>2. StoresSound'
  BY DEF HasColumn, Structure, StoresSound, Lent, Hashed, Kept
<1>3. ASSUME task.kind # "distinct"
      PROVE  /\ \A c \in Current' : Sound(pool', c) /\ \A d \in Lent \cup Hashed : Mine(pool', c, d)
             /\ Alike(pool', Current')
  <2> DEFINE h == relation[Head(todo)]
  <2>1. \A d \in Lent \cup Hashed : Mine(pool, col, d)
    <3>1. CASE col = Empty
      BY <3>1, EmptyFacts
    <3>2. CASE h.ids = Null /\ col.data = h.data
      <4>1. \A d \in Lent \cup Hashed : Mine(pool, h, d)
        BY <1>3, HeadSound
      <4>2. col.ids = Null
        BY DEF HasColumn
      <4> HIDE DEF h
      <4> QED
        BY <3>2, <4>1, <4>2 DEF Mine
    <3> QED
      BY <3>1, <3>2
  <2>2. \A c \in Current' : c = col \/ c \in Current
    <3> SUFFICES ASSUME NEW c \in Current' PROVE c = col \/ c \in Current
      OBVIOUS
    <3>1. \/ c = col
          \/ \E j \in InHand' : j \in InHand /\ c = relation[j] /\ relation'[j] = c
          \/ \E i \in All : c = got[i].col
      BY <1>3, ReadCurrent
    <3> QED
      BY <1>3, <3>1, SoundRead
  <2>3. \A c \in Current : Sound(pool, c) /\ \A d \in Lent \cup Hashed : Mine(pool, c, d)
    BY <1>3, SoundRead
  <2>4. Alike(pool, Current')
    <3>1. CASE col = Empty
      <4>1. \A c \in Current : c.data = col.data /\ c.data # Null /\ pool[c.data].state = "live"
                             => (c.ids = Null <=> col.ids = Null)
        BY <3>1, EmptyFacts
      <4>2. Alike(pool, Current)
        BY <1>3, SoundRead
      <4> QED
        BY <2>2, <4>1, <4>2, AlikeMore
    <3>2. CASE h.ids = Null /\ col.data = h.data
      <4>1. h \in Current /\ Alike(pool, Current)
        BY <1>3, HeadSound, SoundRead
      <4>2. col.ids = Null
        BY DEF HasColumn
      <4> HIDE DEF h
      <4>3. \A c \in Current : c.data = col.data /\ c.data # Null /\ pool[c.data].state = "live"
                             => (c.ids = Null <=> col.ids = Null)
        BY <3>2, <4>1, <4>2 DEF Alike
      <4> QED
        BY <2>2, <4>1, <4>3, AlikeMore
    <3> QED
      BY <3>1, <3>2
  <2> QED
    BY <2>1, <2>2, <2>3, <2>4
<1> QED
  BY <1>1, <1>2, <1>3, ReadStays

\* What is late is gathered into a new block.
LateRead(c, a) ==
    LET filled == Put(pool, a, "live", pool[c.data].tag, Denotes(pool, c))
    IN  /\ a \in Places(pool) /\ ~NothingToRead(c) /\ c.ids # Null
        /\ pool' = Freed(filled, c.data)
        /\ Read(Head(todo), Column(a, c.count), filled)
        /\ pc' = IF Known(filled, c.data) THEN pc ELSE "thrown"
        /\ reread' = (reread \/ (pool[c.data].state # "kept" /\ c.data \in InUse(relation')))
        /\ UNCHANGED <<wanted, task, moving, cte, built, sorted, operators, dropped>>

\* The pool after a late column is materialised.
LEMMA LatePool ==
    ASSUME Structure, pc = "read", todo # <<>>, NEW a, LateRead(relation[Head(todo)], a)
    PROVE  LET c == relation[Head(todo)]
               filled == Put(pool, a, "live", pool[c.data].tag, Denotes(pool, c))
               col == Column(a, c.count)
           IN  /\ filled \in Seq(Blocks) /\ Grows(pool, filled) /\ c.data # Null /\ c.data \in DOMAIN pool
               /\ c.data \in DOMAIN filled /\ filled[c.data] = pool[c.data] /\ c.data # a
               /\ a \in DOMAIN filled /\ a # Null /\ a \in Nat
               /\ filled[a].state = "live" /\ filled[a].tag = pool[c.data].tag
               /\ filled[a].rows = Denotes(pool, c) /\ filled[a].tag # Ids /\ filled[a].tag \in Int
               /\ Denotes(pool, c) \in Seq(Int)
               /\ col \in Cols /\ col.data = a /\ col.ids = Null /\ col.len = c.count /\ Sound(filled, col)
               /\ Denotes(filled, col) \in Seq(Int)
               /\ HasColumn(Head(todo), col, Denotes(filled, col), filled[a].tag)
               /\ pool' \in Seq(Blocks) /\ Sound(pool', col) /\ pool'[a].state = "live"
               /\ DOMAIN pool' = DOMAIN filled
<1> DEFINE c == relation[Head(todo)]
           filled == Put(pool, a, "live", pool[c.data].tag, Denotes(pool, c))
           col == Column(a, c.count)
<1>1. c \in Cols /\ Sound(pool, c) /\ pool \in Seq(Blocks)
  BY HeadSound, SoundStores
<1>2. a \in Places(pool) /\ c.data # Null /\ c.ids # Null /\ c.count # 0
  BY DEF LateRead, NothingToRead
<1>3. c.data \in DOMAIN pool /\ pool[c.data].state # "free" /\ pool[c.data].tag # Ids /\ pool[c.data].tag \in Int
  BY <1>1, <1>2, BlockRows DEF Sound, SoundData
<1>4. Denotes(pool, c) \in Seq(Int)
  BY <1>1, DenotesFacts
<1>5. pool' = Freed(filled, c.data)
  BY DEF LateRead
<1>6. Read(Head(todo), col, filled) /\ UNCHANGED <<wanted, task, moving, cte, built, sorted, dropped>>
  BY DEF LateRead
<1>7. c.count \in Nat
  BY <1>1 DEF Cols
<1> HIDE DEF c
<1>8. [state |-> "live", tag |-> pool[c.data].tag, rows |-> Denotes(pool, c)] \in Blocks
  BY <1>3, <1>4 DEF Blocks
<1>9. /\ filled \in Seq(Blocks) /\ Grows(pool, filled)
      /\ a \in DOMAIN filled /\ a \in Nat /\ a # Null
      /\ filled[a].state = "live" /\ filled[a].tag = pool[c.data].tag /\ filled[a].rows = Denotes(pool, c)
      /\ a \in DOMAIN pool => pool[a].state = "free"
      /\ \A b \in DOMAIN pool : b # a => filled[b] = pool[b]
  BY <1>1, <1>2, <1>8, PutFacts
<1> HIDE DEF filled
<1>10. c.data # a /\ filled[c.data] = pool[c.data] /\ c.data \in DOMAIN filled
  BY <1>3, <1>9, GrowsFacts
<1>11. col \in Cols /\ col.data = a /\ col.ids = Null /\ col.len = c.count /\ Sound(filled, col)
  BY <1>3, <1>7, <1>9, ColumnFacts
<1>12. Denotes(filled, col) \in Seq(Int)
  BY <1>9, <1>11, DenotesFacts
<1>13. HasColumn(Head(todo), col, Denotes(filled, col), filled[a].tag)
  BY <1>3, <1>6, <1>9, <1>11, <1>12 DEF HasColumn, Read
<1>14. pool' \in Seq(Blocks) /\ DOMAIN pool' = DOMAIN filled /\ pool'[a] = filled[a]
  BY <1>5, <1>9, <1>10, FreedFacts
<1>15. Sound(pool', col)
  BY <1>3, <1>7, <1>9, <1>14, ColumnFacts
<1> QED
  BY <1>2, <1>3, <1>4, <1>9, <1>10, <1>11, <1>12, <1>13, <1>14, <1>15 DEF c, filled

\* What has no share in the block that is freed stays as it is.
LEMMA LateOthers ==
    ASSUME Structure, pc = "read", todo # <<>>, NEW a, LateRead(relation[Head(todo)], a),
           NEW d, Sound(pool, d), d.data = relation[Head(todo)].data => pool[d.data].state # "live"
    PROVE  /\ Sound(pool', d) /\ Denotes(pool', d) = Denotes(pool, d)
           /\ d.data # Null => pool'[d.data].tag = pool[d.data].tag
           /\ d.data # a /\ d.ids # a
           /\ \A e : Mine(pool, d, e) => Mine(pool', d, e)
           /\ \A e : Mine(pool, e, d) => Mine(pool', e, d)
           /\ Settled(pool, d) => Settled(pool', d)
           /\ \A b \in {d.data, d.ids} : b # Null /\ pool'[b].state = "live" => pool[b].state = "live"
<1> DEFINE c == relation[Head(todo)]
           filled == Put(pool, a, "live", pool[c.data].tag, Denotes(pool, c))
<1>1. /\ filled \in Seq(Blocks) /\ Grows(pool, filled) /\ c.data \in DOMAIN filled /\ c.data # Null
      /\ filled[c.data] = pool[c.data]
  BY LatePool
<1>2. pool' = Freed(filled, c.data) /\ a \in Places(pool)
  BY DEF LateRead
<1>3. Sound(pool, c) /\ pool \in Seq(Blocks)
  BY HeadSound, SoundStores
<1> HIDE DEF filled, c
<1>4. d.data # a /\ d.ids # a
  BY <1>2, <1>3, FreshOther DEF Sound
<1>5. Sound(filled, d) /\ Denotes(filled, d) = Denotes(pool, d) /\ (d.data # Null => filled[d.data].tag = pool[d.data].tag)
  BY <1>1, SoundGrows DEF Sound
<1>6. c.data \in {d.data, d.ids} => filled[c.data].state # "live"
  <2>1. d.ids # c.data
    BY <1>1, <1>3 DEF Sound, SoundIds, SoundData
  <2> QED
    BY <1>1, <2>1 DEF c
<1>7. Sound(pool', d) /\ Denotes(pool', d) = Denotes(pool, d)
  BY <1>1, <1>2, <1>5, <1>6, SoundFreed
<1>8. d.data # Null => pool'[d.data].tag = pool[d.data].tag
  BY <1>1, <1>2, <1>5, SoundFreed DEF Sound
<1>9. /\ \A e : Mine(pool, d, e) => Mine(filled, d, e)
      /\ \A e : Mine(pool, e, d) => Mine(filled, e, d)
      /\ Settled(pool, d) => Settled(filled, d)
  BY <1>1, MineGrows
<1>10. /\ \A e : Mine(filled, d, e) => Mine(pool', d, e)
       /\ \A e : Mine(filled, e, d) => Mine(pool', e, d)
       /\ Settled(filled, d) => Settled(pool', d)
  BY <1>1, <1>2, <1>5, SoundFreed
<1>11. \A b \in {d.data, d.ids} : b # Null /\ pool'[b].state = "live" => pool[b].state = "live"
  <2> SUFFICES ASSUME NEW b \in {d.data, d.ids}, b # Null, pool'[b].state = "live" PROVE pool[b].state = "live"
    OBVIOUS
  <2>1. b \in DOMAIN pool /\ pool[b].state # "free"
    BY DEF Sound, SoundData, SoundIds
  <2>2. b \in DOMAIN filled
    BY <1>1, <2>1, GrowsFacts
  <2>3. filled[b].state = "live"
    BY <1>1, <1>2, <2>2, FreedFacts
  <2> QED
    BY <1>1, <2>1, <2>3 DEF Grows
<1> QED
  BY <1>4, <1>7, <1>8, <1>9, <1>10, <1>11

\* A live block that is freed is in no store, and in no column that is used again.
LEMMA LateApart ==
    ASSUME Structure, pc = "read", todo # <<>>, NEW a, LateRead(relation[Head(todo)], a), ~reread',
           pool[relation[Head(todo)].data].state = "live"
    PROVE  /\ task.kind # "distinct"
           /\ \A d \in Lent \cup Hashed \cup Kept : d.data # relation[Head(todo)].data
           /\ \A j \in InHand' : relation'[j].data # relation[Head(todo)].data
           /\ \A i \in All : got[i].col.data # relation[Head(todo)].data
<1> DEFINE at == Head(todo)
           c == relation[at]
<1>1. c.data # Null /\ c.ids # Null
  BY LatePool DEF LateRead
<1>2. c.data \notin InUse(relation')
  BY DEF LateRead
<1>3. \A j \in ToSet(Tail(todo)) \cup task.hands : relation'[j].data # c.data
  BY <1>2 DEF InUse
<1>4. task.kind # "distinct"
  <2> SUFFICES ASSUME task.kind = "distinct" PROVE FALSE
    OBVIOUS
  <2>1. task.hands = All /\ at \in All
    BY SoundRead, HeadSound DEF Tasked
  <2>2. relation' = relation
    <3>1. HasColumn(Head(todo), Column(a, c.count), Denotes(Put(pool, a, "live", pool[c.data].tag, Denotes(pool, c)), Column(a, c.count)),
                    Put(pool, a, "live", pool[c.data].tag, Denotes(pool, c))[a].tag)
      BY LatePool
    <3> QED
      BY <3>1 DEF HasColumn
  <2> QED
    BY <1>3, <2>1, <2>2
<1>5. \A d \in Lent \cup Hashed : d.data # c.data
  BY <1>1, <1>4, HeadSound DEF Mine
<1>6. \A d \in Kept : d.data # c.data
  BY <1>1 DEF Structure, StoresSound, StoresIn, Settled
<1>7. \A j \in InHand' : relation'[j].data # c.data
  <2>1. todo' = Tail(todo) /\ task' = task
    BY LatePool DEF HasColumn
  <2> QED
    BY <1>3, <2>1 DEF InHand
<1>8. \A i \in All : got[i].col.data # c.data
  <2> SUFFICES ASSUME NEW i \in All, got[i].col.data = c.data PROVE FALSE
    OBVIOUS
  <2>1. got[i].col \in Current /\ c \in Current /\ Alike(pool, Current)
    BY <1>4, SoundRead, HeadSound
  <2>2. got[i].col.ids = Null
    BY SoundRead
  <2> HIDE DEF c
  <2> QED
    BY <1>1, <2>1, <2>2 DEF Alike, c
<1> QED
  BY <1>4, <1>5, <1>6, <1>7, <1>8

\* Materialising takes nothing from the stores.
LEMMA LateStores ==
    ASSUME Structure, pc = "read", todo # <<>>, NEW a, LateRead(relation[Head(todo)], a), ~reread'
    PROVE  /\ \A d \in Lent \cup Hashed \cup Kept :
                  /\ Sound(pool, d) /\ (d.data = relation[Head(todo)].data => pool[d.data].state # "live")
                  /\ Sound(pool', d) /\ Denotes(pool', d) = Denotes(pool, d)
                  /\ d.data # Null => pool'[d.data].tag = pool[d.data].tag
                  /\ d.data # a /\ d.ids # a
           /\ Lent' = Lent /\ Hashed' = Hashed /\ Kept' = Kept /\ StoresSound'
<1>1. \A d \in Lent \cup Hashed \cup Kept : Sound(pool, d)
  BY SoundStores
<1>2. \A d \in Lent \cup Hashed \cup Kept : d.data = relation[Head(todo)].data => pool[d.data].state # "live"
  BY LateApart
<1>3. Lent' = Lent /\ Hashed' = Hashed /\ Kept' = Kept /\ cte' = cte
  BY DEF LateRead, Lent, Hashed, Kept
<1>4. StoresIn(pool, cte.once, Lent, Hashed, Kept)
  BY DEF Structure, StoresSound
<1>5. StoresIn(pool', cte.once, Lent, Hashed, Kept)
  <2>1. \A d \in Lent \cup Hashed \cup Kept : Sound(pool', d)
    BY <1>1, <1>2, LateOthers
  <2>2. \A c \in Lent : \A d \in Hashed : Mine(pool', c, d)
    BY <1>1, <1>2, <1>4, LateOthers DEF StoresIn
  <2>3. \A c \in Kept : Settled(pool', c)
    BY <1>1, <1>2, <1>4, LateOthers DEF StoresIn
  <2>4. ~cte.once => \A c \in Lent : Settled(pool', c)
    BY <1>1, <1>2, <1>4, LateOthers DEF StoresIn
  <2> QED
    BY <2>1, <2>2, <2>3, <2>4 DEF StoresIn
<1> QED
  BY <1>1, <1>2, <1>3, <1>5, LateOthers DEF StoresSound

\* Materialising takes nothing from the columns still in use.
LEMMA LateCurrent ==
    ASSUME Structure, pc = "read", todo # <<>>, NEW a, LateRead(relation[Head(todo)], a), ~reread',
           task.kind # "distinct", NEW d,
           \/ \E j \in InHand' : j \in InHand /\ d = relation[j] /\ relation'[j] = d
           \/ \E i \in All : d = got[i].col
    PROVE  /\ d \in Current /\ Sound(pool, d) /\ (d.data = relation[Head(todo)].data => pool[d.data].state # "live")
<1>1. d \in Current /\ Sound(pool, d)
  BY SoundRead
<1>2. d.data = relation[Head(todo)].data => pool[d.data].state # "live"
  BY LateApart
<1> QED
  BY <1>1, <1>2

\* Materialising a late column keeps the blocks apart.
LEMMA LateStays ==
    ASSUME Structure, pc = "read", todo # <<>>, NEW a, LateRead(relation[Head(todo)], a), ~reread'
    PROVE  Structure' /\ (pc' = "thrown" => \E b \in DOMAIN pool' : pool'[b].state = "inner")
<1> DEFINE c == relation[Head(todo)]
           filled == Put(pool, a, "live", pool[c.data].tag, Denotes(pool, c))
           col == Column(a, c.count)
           stored == Lent \cup Hashed
<1>1. /\ filled \in Seq(Blocks) /\ Grows(pool, filled) /\ c.data # Null /\ c.data \in DOMAIN pool
      /\ c.data \in DOMAIN filled /\ filled[c.data] = pool[c.data] /\ a # Null
      /\ col.data = a /\ col.ids = Null /\ Sound(pool', col)
      /\ HasColumn(Head(todo), col, Denotes(filled, col), filled[a].tag)
      /\ pool' \in Seq(Blocks) /\ DOMAIN pool' = DOMAIN filled
  BY LatePool
<1>2. Sound(pool, c) /\ pool \in Seq(Blocks)
  BY HeadSound, SoundStores
<1>3. pool' = Freed(filled, c.data) /\ pc' = IF Known(filled, c.data) THEN pc ELSE "thrown"
  BY DEF LateRead
<1> HIDE DEF filled, col
<1>4. BaseIn(pool')
  <2>1. BaseIn(filled)
    BY <1>1, BaseGrows DEF Structure
  <2>2. ASSUME NEW b \in 1 .. Columns PROVE pool'[b] = filled[b] /\ b \in DOMAIN pool'
    <3>1. b \in DOMAIN filled /\ filled[b].state = "kept"
      BY <2>1, BaseFacts
    <3> HIDE DEF c
    <3> QED
      BY <1>1, <1>3, <3>1, FreedFacts
  <2> QED
    BY <2>1, <2>2 DEF BaseIn
<1>5. StoresSound'
  BY LateStores
<1>6. pc' = "thrown" => \E b \in DOMAIN pool' : pool'[b].state = "inner"
  <2> SUFFICES ASSUME pc' = "thrown" PROVE \E b \in DOMAIN pool' : pool'[b].state = "inner"
    OBVIOUS
  <2>1. filled[c.data].state \notin {"kept", "live"}
    BY <1>3 DEF Known
  <2>2. pool[c.data].state # "free"
    BY <1>1, <1>2 DEF Sound, SoundData
  <2>3. filled[c.data].state = "inner"
    BY <1>1, <2>1, <2>2, BlockRows
  <2> HIDE DEF c
  <2>4. pool'[c.data] = filled[c.data]
    BY <1>1, <1>3, <2>3, FreedFacts
  <2> QED
    BY <1>1, <2>3, <2>4
<1>7. ASSUME pc' = "read", task.kind # "distinct"
      PROVE  /\ \A d \in Current' : Sound(pool', d) /\ \A e \in stored : Mine(pool', d, e)
             /\ Alike(pool', Current')
  <2>1. \A e \in stored : Mine(pool', col, e)
    <3>1. \A e \in stored : e.data # a /\ e.ids # a
      BY LateStores
    <3> HIDE DEF stored
    <3> QED
      BY <1>1, <3>1 DEF Mine
  <2>2. ASSUME NEW d \in Current', d # col
        PROVE  /\ Sound(pool', d) /\ d \in Current /\ d.data # a
               /\ \A e \in stored : Mine(pool', d, e)
               /\ d.data # Null /\ pool'[d.data].state = "live" => pool[d.data].state = "live"
    <3>1. \/ \E j \in InHand' : j \in InHand /\ d = relation[j] /\ relation'[j] = d
          \/ \E i \in All : d = got[i].col
      BY <1>1, <1>7, <2>2, ReadCurrent
    <3>2. d \in Current /\ Sound(pool, d) /\ (d.data = relation[Head(todo)].data => pool[d.data].state # "live")
      BY <1>7, <3>1, LateCurrent
    <3>3. \A e \in stored : Mine(pool, d, e)
      BY <1>7, <3>1, SoundRead
    <3> HIDE DEF stored
    <3> QED
      BY <3>2, <3>3, LateOthers
  <2>3. \A d \in Current' : Sound(pool', d) /\ \A e \in stored : Mine(pool', d, e)
    BY <1>1, <2>1, <2>2
  <2>4. Alike(pool', Current')
    <3>1. Alike(pool, Current)
      BY <1>7, SoundRead
    <3> SUFFICES ASSUME NEW d \in Current', NEW e \in Current', d.data = e.data, d.data # Null,
                        pool'[d.data].state = "live"
                 PROVE  d.ids = Null <=> e.ids = Null
      BY DEF Alike
    <3>2. CASE d = col \/ e = col
      BY <1>1, <2>2, <3>2
    <3>3. CASE d # col /\ e # col
      <4>1. d \in Current /\ e \in Current /\ pool[d.data].state = "live"
        BY <2>2, <3>3
      <4> QED
        BY <3>1, <4>1 DEF Alike
    <3> QED
      BY <3>2, <3>3
  <2> QED
    BY <2>3, <2>4
<1>8. pc' \in {"read", "thrown"}
  BY <1>3
<1> HIDE DEF c
<1>9. Structure'
  BY <1>1, <1>4, <1>5, <1>7, <1>8, ReadStays
<1> QED
  BY <1>6, <1>9

\* HandleMaterializeExpression: nothing, a view, or a gather.
LEMMA MaterialiseCases ==
    ASSUME Structure, Materialise
    PROVE  /\ pc = "read" /\ todo # <<>>
           /\ \/ /\ pool' = pool /\ pc' = pc /\ Sound(pool, Empty) /\ NothingToRead(relation[Head(todo)])
                 /\ HasColumn(Head(todo), Empty, Denotes(pool, Empty), 0) /\ reread' = reread
              \/ LET c == relation[Head(todo)] col == Column(c.data, c.len)
                 IN  /\ pool' = pool /\ pc' = pc /\ Sound(pool, col) /\ c.ids = Null /\ col.data = c.data /\ col.len = c.len
                     /\ ~NothingToRead(c)
                     /\ HasColumn(Head(todo), col, Denotes(pool, col), pool[c.data].tag) /\ reread' = reread
              \/ \E a \in Places(pool) : LateRead(relation[Head(todo)], a)
<1> DEFINE c == relation[Head(todo)]
           same == UNCHANGED <<wanted, task, moving, cte, built, sorted, dropped>>
<1>1. /\ pc = "read" /\ todo # <<>> /\ same
      /\ \/ NothingToRead(c) /\ Read(Head(todo), Empty, pool) /\ UNCHANGED <<pool, pc, reread>>
         \/ ~NothingToRead(c) /\ c.ids = Null /\ Read(Head(todo), Column(c.data, c.len), pool) /\ UNCHANGED <<pool, pc, reread>>
         \/ \E a \in Places(pool) : LateRead(c, a)
  BY DEF Materialise, LateRead
<1>2. c \in Cols /\ Sound(pool, c) /\ pool \in Seq(Blocks)
  BY <1>1, HeadSound, SoundStores
<1> HIDE DEF c
<1>3. CASE NothingToRead(c) /\ Read(Head(todo), Empty, pool) /\ UNCHANGED <<pool, pc, reread>>
  <2>1. HasColumn(Head(todo), Empty, Denotes(pool, Empty), 0)
    <3>1. Denotes(pool, Empty) \in Seq(Int)
      <4>1. <<>> \in Seq(Int)
        OBVIOUS
      <4> QED
        BY <4>1, EmptyFacts
    <3> QED
      BY <1>1, <1>3, <3>1, EmptyFacts DEF HasColumn, Read, Ids
  <2> QED
    BY <1>1, <1>3, <2>1, EmptyFacts DEF c
<1>4. CASE ~NothingToRead(c) /\ c.ids = Null /\ Read(Head(todo), Column(c.data, c.len), pool) /\ UNCHANGED <<pool, pc, reread>>
  <2> DEFINE col == Column(c.data, c.len)
  <2>1. c.data # Null /\ c.data \in Nat /\ c.len \in Nat
    BY <1>2, <1>4 DEF NothingToRead, Cols
  <2>2. Sound(pool, col) /\ col \in Cols /\ col.ids = Null /\ col.data = c.data /\ col.len = c.len
    BY <1>2, <2>1, ColumnFacts DEF Sound
  <2>3. pool[c.data].tag \in Int /\ pool[c.data].tag # Ids
    BY <1>2, <2>1, BlockRows DEF Sound, SoundData
  <2>4. Denotes(pool, col) \in Seq(Int)
    BY <1>2, <2>2, DenotesFacts
  <2> HIDE DEF col
  <2>5. Read(Head(todo), col, pool)
    BY <1>4 DEF col
  <2>6. HasColumn(Head(todo), col, Denotes(pool, col), pool[c.data].tag)
    BY <1>1, <2>1, <2>2, <2>3, <2>4, <2>5 DEF HasColumn, Read
  <2> QED
    BY <1>1, <1>4, <2>2, <2>6 DEF col, c
<1> QED
  BY <1>1, <1>3, <1>4 DEF c

\* A step of HandleMaterializeExpression.
LEMMA MaterialiseStays ==
    ASSUME Structure, Materialise, ~reread'
    PROVE  Structure' /\ (pc' = "thrown" => \E b \in DOMAIN pool' : pool'[b].state = "inner")
<1>1. pc = "read" /\ todo # <<>>
  BY MaterialiseCases
<1> DEFINE c == relation[Head(todo)]
           col == Column(c.data, c.len)
<1>2. CASE /\ pool' = pool /\ pc' = pc /\ Sound(pool, Empty)
           /\ HasColumn(Head(todo), Empty, Denotes(pool, Empty), 0)
  BY <1>1, <1>2, ReadInPlaceStays
<1>3. CASE /\ pool' = pool /\ pc' = pc /\ Sound(pool, col) /\ c.ids = Null /\ col.data = c.data
           /\ HasColumn(Head(todo), col, Denotes(pool, col), pool[c.data].tag)
  <2> HIDE DEF col
  <2> QED
    BY <1>1, <1>3, ReadInPlaceStays
<1>4. CASE \E a \in Places(pool) : LateRead(relation[Head(todo)], a)
  BY <1>1, <1>4, LateStays
<1> QED
  BY <1>2, <1>3, <1>4, MaterialiseCases

-----------------------------------------------------------------------------
(* Row ids are composed *)

\* What Structure says while row ids are composed.
LEMMA SoundCompose ==
    ASSUME Structure, pc = "compose"
    PROVE  /\ Current = ToSet(moving.out) \cup ToSet(moving.right) /\ Composing = ToSet(moving.from)
           /\ ComposingIn(pool, moving, Lent \cup Hashed)
           /\ UseIn(pool, ToSet(moving.out) \cup ToSet(moving.right), ToSet(moving.from), Lent \cup Hashed)
           /\ StoresIn(pool, cte.once, Lent, Hashed, Kept) /\ BaseIn(pool)
           /\ pool \in Seq(Blocks) /\ moving \in Movings(moving.moved)
           /\ moving.from \in Seq(Cols) /\ moving.out \in Seq(Cols) /\ moving.right \in Seq(Cols)
           /\ moving.at \in Nat /\ moving.rightAt \in Nat
           /\ \A m \in DOMAIN moving.moved : m \in Nat /\ moving.moved[m] \in Nat
           /\ wanted \in Seq(Wants) /\ Len(wanted) = Len(moving.out) + Len(moving.from) + Len(moving.right)
<1>1. Current = ToSet(moving.out) \cup ToSet(moving.right) /\ Composing = ToSet(moving.from)
  BY DEF Current, Composing
<1>2. UseIn(pool, ToSet(moving.out) \cup ToSet(moving.right), ToSet(moving.from), Lent \cup Hashed)
  BY <1>1 DEF Structure, CurrentSound
<1>3. ComposingIn(pool, moving, Lent \cup Hashed)
  BY DEF Structure, ComposingSound
<1>4. StoresIn(pool, cte.once, Lent, Hashed, Kept) /\ BaseIn(pool)
  BY DEF Structure, StoresSound
<1>5. /\ pool \in Seq(Blocks) /\ moving \in Movings(moving.moved)
      /\ \A m \in DOMAIN moving.moved : m \in Nat /\ moving.moved[m] \in Nat
      /\ wanted \in Seq(Wants) /\ Len(wanted) = Len(moving.out) + Len(moving.from) + Len(moving.right)
  BY DEF Structure, Typed, Paired
<1>6. /\ moving.from \in Seq(Cols) /\ moving.out \in Seq(Cols) /\ moving.right \in Seq(Cols)
      /\ moving.at \in Nat /\ moving.rightAt \in Nat
  BY <1>5 DEF Movings
<1> QED
  BY <1>1, <1>2, <1>3, <1>4, <1>5, <1>6

\* The row ids that select.
LEMMA AtRows ==
    ASSUME Structure, pc = "compose"
    PROVE  pool[moving.at].rows \in Seq(Int) /\ Len(pool[moving.at].rows) \in Nat
<1>1. moving.at \in DOMAIN pool /\ pool \in Seq(Blocks)
  BY SoundCompose DEF ComposingIn, NewIds, SoundIds
<1>2. pool[moving.at].rows \in Seq(Int)
  BY <1>1, BlockRows
<1> QED
  BY <1>2, SeqFacts

\* A sequence with one more item.
LEMMA AppendFacts ==
    ASSUME NEW T, NEW s \in Seq(T), NEW x \in T
    PROVE  /\ Append(s, x) \in Seq(T) /\ Len(Append(s, x)) = Len(s) + 1 /\ Len(s) \in Nat
           /\ \A i \in 1 .. Len(s) : Append(s, x)[i] = s[i]
           /\ Append(s, x)[Len(s) + 1] = x
           /\ \A y \in ToSet(Append(s, x)) : y \in ToSet(s) \/ y = x
           /\ \A y \in ToSet(s) : y \in ToSet(Append(s, x))
           /\ x \in ToSet(Append(s, x))
<1> DEFINE t == Append(s, x)
<1>1. /\ t \in Seq(T) /\ Len(t) = Len(s) + 1 /\ Len(s) \in Nat
      /\ (\A i \in 1 .. Len(s) : t[i] = s[i]) /\ t[Len(s) + 1] = x
  BY AppendProperties, SeqFacts
<1> HIDE DEF t
<1>2. DOMAIN s = 1 .. Len(s) /\ DOMAIN t = 1 .. Len(s) + 1
  BY <1>1, SeqFacts
<1>3. \A i \in 1 .. Len(s) + 1 : i \in 1 .. Len(s) \/ i = Len(s) + 1
  BY <1>1
<1>4. ASSUME NEW y \in ToSet(t) PROVE y \in ToSet(s) \/ y = x
  <2>1. PICK i \in DOMAIN t : y = t[i]
    BY <1>1, SeqFacts
  <2> QED
    BY <1>1, <1>2, <1>3, <2>1, SeqFacts
<1>5. \A y \in ToSet(s) : y \in ToSet(t)
  <2> SUFFICES ASSUME NEW y \in ToSet(s) PROVE y \in ToSet(t)
    OBVIOUS
  <2>1. PICK i \in DOMAIN s : y = s[i]
    BY SeqFacts
  <2>2. i \in DOMAIN t /\ t[i] = y
    BY <1>1, <1>2, <2>1
  <2> QED
    BY <1>1, <2>2, SeqFacts
<1>6. x \in ToSet(t)
  <2>1. Len(s) + 1 \in DOMAIN t
    BY <1>1, <1>2
  <2> QED
    BY <1>1, <2>1, SeqFacts
<1> QED
  BY <1>1, <1>4, <1>5, <1>6 DEF t

\* A column with its new row ids.
MovedTo(c, ids) == [c EXCEPT !.ids = ids, !.count = Len(pool[moving.at].rows)]

\* One more column has its new row ids.
LEMMA MovedFacts ==
    ASSUME Structure, pc = "compose", moving.from # <<>>, NEW ids \in Nat, NEW p, NEW moved, Moved(ids, p, moved)
    PROVE  LET c == Head(moving.from)
               new == MovedTo(c, ids)
           IN  /\ pool' = p /\ c \in Cols /\ c \in ToSet(moving.from)
               /\ moving' \in Movings(moved) /\ moving'.moved = moved
               /\ moving'.from = Tail(moving.from) /\ moving'.out = Append(moving.out, new)
               /\ moving'.at = moving.at /\ moving'.right = moving.right /\ moving'.rightAt = moving.rightAt
               /\ new \in Cols /\ new.data = c.data /\ new.ids = ids /\ new.len = c.len
               /\ new.count = Len(pool[moving.at].rows)
               /\ \A x \in ToSet(moving'.out) : x \in ToSet(moving.out) \/ x = new
               /\ \A x \in ToSet(moving'.from) : x \in ToSet(moving.from)
               /\ Len(moving'.out) = Len(moving.out) + 1 /\ Len(moving'.from) = Len(moving.from) - 1
               /\ Len(moving.out) \in Nat /\ Len(moving.from) \in Nat /\ Len(moving.right) \in Nat
               /\ \A i \in 1 .. Len(moving.out) : moving'.out[i] = moving.out[i]
               /\ moving'.out[Len(moving.out) + 1] = new
               /\ \A i \in 1 .. Len(moving.from) - 1 : moving'.from[i] = moving.from[i + 1]
               /\ c = moving.from[1]
<1> DEFINE c == Head(moving.from)
           new == MovedTo(c, ids)
           from == moving.from
           out == moving.out
<1>1. from \in Seq(Cols) /\ out \in Seq(Cols) /\ moving \in Movings(moving.moved) /\ moving.right \in Seq(Cols)
  BY SoundCompose
<1>2. /\ c \in Cols /\ Tail(from) \in Seq(Cols) /\ c \in ToSet(from) /\ Len(Tail(from)) = Len(from) - 1
      /\ (\A x \in ToSet(Tail(from)) : x \in ToSet(from)) /\ c = from[1]
      /\ \A i \in 1 .. Len(from) - 1 : Tail(from)[i] = from[i + 1]
  BY <1>1, TailFacts
<1>3. Len(from) \in Nat /\ Len(out) \in Nat /\ Len(moving.right) \in Nat
  BY <1>1, SeqFacts
<1>4. /\ pool' = p
      /\ moving' = [moving EXCEPT !.from = Tail(from), !.moved = moved, !.out = Append(out, new)]
  <2>1. pool' = p /\ moving' = [moving EXCEPT !.from = Tail(@), !.moved = moved,
                                              !.out = Append(@, [c EXCEPT !.ids = ids, !.count = Len(pool[moving.at].rows)])]
    BY DEF Moved
  <2>2. new = [c EXCEPT !.ids = ids, !.count = Len(pool[moving.at].rows)]
    BY DEF MovedTo
  <2> HIDE DEF c, new
  <2> QED
    BY <1>1, <2>1, <2>2 DEF Movings
<1>5. new \in Cols /\ new.data = c.data /\ new.ids = ids /\ new.len = c.len /\ new.count = Len(pool[moving.at].rows)
  <2> HIDE DEF c
  <2> QED
    BY <1>2, AtRows DEF MovedTo, Cols
<1> HIDE DEF c, new
<1>6. /\ moving'.from = Tail(from) /\ moving'.out = Append(out, new) /\ moving'.moved = moved
      /\ moving'.at = moving.at /\ moving'.right = moving.right /\ moving'.rightAt = moving.rightAt
  BY <1>1, <1>4 DEF Movings
<1>7. /\ Append(out, new) \in Seq(Cols) /\ Len(Append(out, new)) = Len(out) + 1
      /\ \A i \in 1 .. Len(out) : Append(out, new)[i] = out[i]
      /\ Append(out, new)[Len(out) + 1] = new
  BY <1>1, <1>5, AppendProperties
<1>8. \A x \in ToSet(Append(out, new)) : x \in ToSet(out) \/ x = new
  BY <1>1, <1>5, AppendFacts
<1>9. moving' \in Movings(moved)
  BY <1>1, <1>2, <1>4, <1>7 DEF Movings
<1> QED
  BY <1>2, <1>3, <1>4, <1>5, <1>6, <1>7, <1>8, <1>9 DEF c, new

MovingLeaves == UNCHANGED <<relation, wanted, task, todo, got, cte, built, sorted, operators, reread, dropped>>

\* What is left to show of a step that composes.
LEMMA MovedStays ==
    ASSUME Structure, pc = "compose", moving.from # <<>>, NEW ids \in Nat, NEW p, NEW moved, Moved(ids, p, moved),
           pc' = "compose", MovingLeaves, p \in Seq(Blocks), BaseIn(p),
           \A m \in DOMAIN moved : m \in Nat /\ moved[m] \in Nat,
           StoresIn(p, cte.once, Lent, Hashed, Kept), ComposingIn(p, moving', Lent \cup Hashed),
           UseIn(p, ToSet(moving'.out) \cup ToSet(moving.right), ToSet(moving'.from), Lent \cup Hashed)
    PROVE  Structure'
<1>1. pool' = p /\ moving' \in Movings(moved) /\ moving'.moved = moved /\ moving'.right = moving.right
      /\ Len(moving'.out) = Len(moving.out) + 1 /\ Len(moving'.from) = Len(moving.from) - 1
      /\ Len(moving.out) \in Nat /\ Len(moving.from) \in Nat /\ Len(moving.right) \in Nat
  <2>1. pool' = p /\ moving' \in Movings(moved)
    BY MovedFacts
  <2>3. moving'.moved = moved /\ moving'.right = moving.right
    BY MovedFacts
  <2>2. /\ Len(moving'.out) = Len(moving.out) + 1 /\ Len(moving'.from) = Len(moving.from) - 1
        /\ Len(moving.out) \in Nat /\ Len(moving.from) \in Nat /\ Len(moving.right) \in Nat
    BY MovedFacts
  <2> QED
    BY <2>1, <2>2, <2>3
<1>2. Lent' = Lent /\ Hashed' = Hashed /\ Kept' = Kept
  BY DEF MovingLeaves, Lent, Hashed, Kept
<1>3. Typed'
  BY <1>1 DEF Structure, Typed, MovingLeaves
<1>4. Paired'
  <2>1. Len(wanted) = Len(moving.out) + Len(moving.from) + Len(moving.right)
    BY SoundCompose
  <2>2. Len(wanted') = Len(moving'.out) + Len(moving'.from) + Len(moving'.right)
    <3>1. wanted' = wanted
      BY DEF MovingLeaves
    <3> DEFINE o == Len(moving.out)
               f == Len(moving.from)
               r == Len(moving.right)
    <3>2. o \in Nat /\ f \in Nat /\ r \in Nat /\ Len(wanted) = o + f + r
          /\ Len(moving'.out) = o + 1 /\ Len(moving'.from) = f - 1 /\ Len(moving'.right) = r
      BY <1>1, <2>1
    <3> HIDE DEF o, f, r
    <3> QED
      BY <3>1, <3>2
  <2> QED
    BY <2>2 DEF Structure, Paired, MovingLeaves
<1>5. StoresSound'
  BY <1>1, <1>2 DEF StoresSound, MovingLeaves
<1>6. Current' = ToSet(moving'.out) \cup ToSet(moving.right) /\ Composing' = ToSet(moving'.from)
  BY <1>1 DEF Current, Composing
<1>7. CurrentSound'
  BY <1>1, <1>2, <1>6 DEF CurrentSound
<1>8. Reading' /\ DistinctIsStored' /\ SharedAlike'
  BY DEF Reading, DistinctIsStored, SharedAlike
<1>9. ComposingSound'
  BY <1>1, <1>2 DEF ComposingSound
<1> QED
  BY <1>1, <1>3, <1>4, <1>5, <1>7, <1>8, <1>9 DEF Structure

\* Row ids as they are, or composed before: no block changes.
LEMMA ComposeSharedStays ==
    ASSUME Structure, pc = "compose", moving.from # <<>>, NEW ids, Moved(ids, pool, moving.moved),
           pc' = pc, MovingLeaves,
           ids = moving.at \/ \E m \in DOMAIN moving.moved : ids = moving.moved[m]
    PROVE  Structure'
<1> DEFINE stored == Lent \cup Hashed
           c == Head(moving.from)
           new == MovedTo(c, ids)
<1>1. /\ ComposingIn(pool, moving, stored) /\ ids \in Nat /\ pool \in Seq(Blocks)
      /\ UseIn(pool, ToSet(moving.out) \cup ToSet(moving.right), ToSet(moving.from), stored)
  BY SoundCompose
<1>2. NewIds(pool, ids, stored)
  BY <1>1 DEF ComposingIn
<1>3. /\ c \in ToSet(moving.from) /\ new.data = c.data /\ new.ids = ids
      /\ moving'.moved = moving.moved /\ moving'.at = moving.at /\ moving'.right = moving.right /\ moving'.rightAt = moving.rightAt
      /\ \A x \in ToSet(moving'.out) : x \in ToSet(moving.out) \/ x = new
      /\ \A x \in ToSet(moving'.from) : x \in ToSet(moving.from)
  BY <1>1, MovedFacts
<1> HIDE DEF c, new, stored
<1>4. SoundData(pool, c) /\ \A d \in stored : Mine(pool, c, d)
  BY <1>1, <1>3 DEF ComposingIn, UseIn
<1>5. Sound(pool, new)
  BY <1>2, <1>3, <1>4 DEF Sound, SoundData, NewIds
<1>6. \A d \in stored : Mine(pool, new, d)
  BY <1>2, <1>3, <1>4 DEF Mine, NewIds
<1>7. UseIn(pool, ToSet(moving'.out) \cup ToSet(moving.right), ToSet(moving'.from), stored)
  BY <1>1, <1>3, <1>5, <1>6 DEF UseIn
<1>8. \A b : OldIds(pool, b, moving) => OldIds(pool, b, moving')
  BY <1>3 DEF OldIds
<1>9. ComposingIn(pool, moving', stored)
  BY <1>1, <1>2, <1>3, <1>8 DEF ComposingIn, NewIds
<1> QED
  BY <1>1, <1>7, <1>9, SoundCompose, MovedStays DEF stored

\* Row ids composed anew: a new block, and the old one freed.
NewMoved(prev, a) == [b \in DOMAIN moving.moved \cup {prev} |-> IF b = prev THEN a ELSE moving.moved[b]]
Composes(prev, a) == Put(pool, a, "live", Ids, Pick(pool[prev].rows, pool[moving.at].rows))

\* The block the composed row ids are in.
LEMMA ComposesFacts ==
    ASSUME Structure, pc = "compose", moving.from # <<>>,
           Head(moving.from).ids # Null, Head(moving.from).ids \notin DOMAIN moving.moved,
           NEW a \in Places(pool)
    PROVE  LET prev == Head(moving.from).ids
               filled == Composes(prev, a)
           IN  /\ filled \in Seq(Blocks) /\ Grows(pool, filled) /\ prev \in DOMAIN pool /\ prev \in DOMAIN filled
               /\ prev \in Nat /\ a \in Nat /\ a # Null /\ prev # a /\ a \in DOMAIN filled
               /\ filled[a].state = "live" /\ filled[a].tag = Ids
               /\ filled[a].rows = Pick(pool[prev].rows, pool[moving.at].rows)
               /\ filled[prev] = pool[prev] /\ pool[prev].tag = Ids /\ Known(filled, prev)
               /\ OldIds(pool, prev, moving) /\ pool[prev].rows \in Seq(Int)
               /\ Freed(filled, prev) \in Seq(Blocks) /\ Freed(filled, prev)[a] = filled[a] /\ a \in DOMAIN Freed(filled, prev)
<1> DEFINE prev == Head(moving.from).ids
           filled == Composes(prev, a)
<1>1. /\ ComposingIn(pool, moving, Lent \cup Hashed) /\ pool \in Seq(Blocks) /\ moving.from \in Seq(Cols)
  BY SoundCompose
<1>2. Head(moving.from) \in ToSet(moving.from) /\ Head(moving.from) \in Cols
  BY <1>1, TailFacts
<1>3. OldIds(pool, prev, moving) /\ prev \in Nat
  BY <1>1, <1>2 DEF ComposingIn, Cols
<1>4. prev \in DOMAIN pool /\ pool[prev].state \in {"live", "kept"} /\ pool[prev].tag = Ids /\ pool[prev].rows \in Seq(Int)
  BY <1>1, <1>3, BlockRows DEF OldIds, SoundIds
<1> HIDE DEF prev
<1>5. Pick(pool[prev].rows, pool[moving.at].rows) \in Seq(Int)
  BY <1>4, AtRows, PickFacts
<1>6. [state |-> "live", tag |-> Ids, rows |-> Pick(pool[prev].rows, pool[moving.at].rows)] \in Blocks
  BY <1>5 DEF Blocks, Ids
<1>7. /\ filled \in Seq(Blocks) /\ Grows(pool, filled) /\ a \in DOMAIN filled /\ a \in Nat /\ a # Null
      /\ filled[a].state = "live" /\ filled[a].tag = Ids
      /\ filled[a].rows = Pick(pool[prev].rows, pool[moving.at].rows)
      /\ a \in DOMAIN pool => pool[a].state = "free"
      /\ \A b \in DOMAIN pool : b # a => filled[b] = pool[b]
  BY <1>1, <1>6, PutFacts DEF Composes
<1> HIDE DEF filled
<1>8. prev # a /\ filled[prev] = pool[prev] /\ prev \in DOMAIN filled
  BY <1>4, <1>7, GrowsFacts
<1>9. Known(filled, prev)
  BY <1>4, <1>8 DEF Known
<1>10. Freed(filled, prev) \in Seq(Blocks) /\ Freed(filled, prev)[a] = filled[a] /\ a \in DOMAIN Freed(filled, prev)
  BY <1>7, <1>8, FreedFacts
<1> QED
  BY <1>3, <1>4, <1>7, <1>8, <1>9, <1>10 DEF prev, filled

\* What freeing the old row ids leaves alone.
LEMMA ComposesOthers ==
    ASSUME Structure, pc = "compose", moving.from # <<>>,
           Head(moving.from).ids # Null, Head(moving.from).ids \notin DOMAIN moving.moved,
           NEW a \in Places(pool)
    PROVE  LET prev == Head(moving.from).ids
               q == Freed(Composes(prev, a), prev)
           IN  /\ \A b : SoundIds(pool, b) /\ (b = prev => pool[prev].state # "live")
                           => /\ SoundIds(q, b) /\ b # a /\ (b # Null => q[b].rows = pool[b].rows)
                              /\ b # Null /\ q[b].state = "live" => pool[b].state = "live"
               /\ \A d : SoundData(pool, d) => /\ SoundData(q, d) /\ d.data # a
                                               /\ d.data # Null => q[d.data].tag = pool[d.data].tag /\ q[d.data].rows = pool[d.data].rows
                                               /\ d.data # Null /\ q[d.data].state = "live" => pool[d.data].state = "live"
               /\ \A d : Sound(pool, d) /\ (d.ids = prev => pool[prev].state # "live")
                           => /\ Sound(q, d) /\ Denotes(q, d) = Denotes(pool, d) /\ (Settled(pool, d) => Settled(q, d))
                              /\ \A e : Mine(pool, e, d) => Mine(q, e, d)
<1> DEFINE prev == Head(moving.from).ids
           filled == Composes(prev, a)
           q == Freed(filled, prev)
<1>1. /\ filled \in Seq(Blocks) /\ Grows(pool, filled) /\ prev \in DOMAIN pool /\ prev \in DOMAIN filled
      /\ filled[prev] = pool[prev] /\ pool[prev].tag = Ids /\ prev # Null /\ pool \in Seq(Blocks)
  BY ComposesFacts, SoundCompose
<1> HIDE DEF prev, filled
<1>2. \A b \in DOMAIN pool : pool[b].state # "free" /\ q[b].state = "live" => pool[b].state = "live"
  <2> SUFFICES ASSUME NEW b \in DOMAIN pool, pool[b].state # "free", q[b].state = "live" PROVE pool[b].state = "live"
    OBVIOUS
  <2>1. b \in DOMAIN filled
    BY <1>1, GrowsFacts
  <2>2. filled[b].state = "live"
    BY <1>1, <2>1, FreedFacts
  <2> QED
    BY <1>1, <2>2 DEF Grows
<1>3. ASSUME NEW b, SoundIds(pool, b), b = prev => pool[prev].state # "live"
      PROVE  /\ SoundIds(q, b) /\ b # a /\ (b # Null => q[b].rows = pool[b].rows)
             /\ b # Null /\ q[b].state = "live" => pool[b].state = "live"
  <2>1. SoundIds(filled, b) /\ (b # Null => filled[b].rows = pool[b].rows) /\ b # a
    BY <1>1, <1>3, SoundGrows, FreshOther
  <2>2. SoundIds(q, b) /\ (b # Null => q[b].rows = filled[b].rows)
    BY <1>1, <1>3, <2>1, SoundFreed
  <2>3. b # Null /\ q[b].state = "live" => pool[b].state = "live"
    BY <1>2, <1>3 DEF SoundIds
  <2> HIDE DEF q
  <2> QED
    BY <2>1, <2>2, <2>3
<1>4. ASSUME NEW d, SoundData(pool, d)
      PROVE  /\ SoundData(q, d) /\ d.data # a /\ d.data # prev
             /\ d.data # Null => q[d.data].tag = pool[d.data].tag /\ q[d.data].rows = pool[d.data].rows
             /\ d.data # Null /\ q[d.data].state = "live" => pool[d.data].state = "live"
  <2>1. /\ SoundData(filled, d) /\ d.data # a /\ d.data # prev
        /\ d.data # Null => filled[d.data].tag = pool[d.data].tag /\ filled[d.data].rows = pool[d.data].rows
    <3>1. d.data # prev
      BY <1>1, <1>4 DEF SoundData
    <3> QED
      BY <1>1, <1>4, <3>1, SoundGrows, FreshOther
  <2>2. /\ SoundData(q, d)
        /\ d.data # Null => q[d.data].tag = filled[d.data].tag /\ q[d.data].rows = filled[d.data].rows
    BY <1>1, <2>1, SoundFreed
  <2>3. d.data # Null /\ q[d.data].state = "live" => pool[d.data].state = "live"
    BY <1>2, <1>4 DEF SoundData
  <2> HIDE DEF q
  <2> QED
    BY <2>1, <2>2, <2>3
<1>5. ASSUME NEW d, Sound(pool, d), d.ids = prev => pool[prev].state # "live"
      PROVE  /\ Sound(q, d) /\ Denotes(q, d) = Denotes(pool, d) /\ (Settled(pool, d) => Settled(q, d))
             /\ \A e : Mine(pool, e, d) => Mine(q, e, d)
  <2>1. Sound(filled, d) /\ Denotes(filled, d) = Denotes(pool, d) /\ (Settled(pool, d) => Settled(filled, d))
        /\ \A e : Mine(pool, e, d) => Mine(filled, e, d)
    BY <1>1, <1>5, SoundGrows, MineGrows
  <2>2. prev \in {d.data, d.ids} => filled[prev].state # "live"
    BY <1>1, <1>4, <1>5 DEF Sound
  <2>3. Sound(q, d) /\ Denotes(q, d) = Denotes(filled, d) /\ (Settled(filled, d) => Settled(q, d))
        /\ \A e : Mine(filled, e, d) => Mine(q, e, d)
    BY <1>1, <2>1, <2>2, SoundFreed
  <2> HIDE DEF q
  <2> QED
    BY <2>1, <2>3
<1> HIDE DEF q
<1> QED
  BY <1>3, <1>4, <1>5 DEF q, filled, prev

\* The cached columns are never freed.
LEMMA BaseFreed ==
    ASSUME NEW p \in Seq(Blocks), BaseIn(p), NEW a \in DOMAIN p
    PROVE  BaseIn(Freed(p, a))
<1> DEFINE q == Freed(p, a)
<1>1. ASSUME NEW b \in 1 .. Columns PROVE q[b] = p[b] /\ b \in DOMAIN q
  <2>1. b \in DOMAIN p /\ p[b].state = "kept"
    BY BaseFacts
  <2> QED
    BY <2>1, FreedFacts
<1> HIDE DEF q
<1>2. BaseIn(q)
  BY <1>1 DEF BaseIn
<1> QED
  BY <1>2 DEF q

\* Row ids are composed into a new block and the old ones freed.
LEMMA ComposeNewStays ==
    ASSUME Structure, pc = "compose", moving.from # <<>>,
           Head(moving.from).ids # Null, Head(moving.from).ids \notin DOMAIN moving.moved,
           NEW a \in Places(pool),
           LET prev == Head(moving.from).ids
           IN  Moved(a, Freed(Composes(prev, a), prev), NewMoved(prev, a)),
           pc' = pc, MovingLeaves
    PROVE  Structure'
<1> DEFINE stored == Lent \cup Hashed
           c == Head(moving.from)
           prev == c.ids
           new == MovedTo(c, a)
           q == Freed(Composes(prev, a), prev)
           moved == NewMoved(prev, a)
<1>1. /\ ComposingIn(pool, moving, stored) /\ pool \in Seq(Blocks)
      /\ UseIn(pool, ToSet(moving.out) \cup ToSet(moving.right), ToSet(moving.from), stored)
      /\ StoresIn(pool, cte.once, Lent, Hashed, Kept)
      /\ \A m \in DOMAIN moving.moved : m \in Nat /\ moving.moved[m] \in Nat
  BY SoundCompose
<1>2. /\ prev \in DOMAIN pool /\ prev \in Nat /\ a \in Nat /\ a # Null /\ prev # a /\ q \in Seq(Blocks)
      /\ q[a].state = "live" /\ q[a].tag = Ids /\ a \in DOMAIN q /\ OldIds(pool, prev, moving) /\ prev # Null
  BY ComposesFacts
<1>3. BaseIn(q)
  <2>1. /\ Composes(prev, a) \in Seq(Blocks) /\ Grows(pool, Composes(prev, a)) /\ prev \in DOMAIN Composes(prev, a)
        /\ BaseIn(pool)
    BY ComposesFacts, SoundCompose
  <2> HIDE DEF prev
  <2> QED
    BY <2>1, BaseGrows, BaseFreed
<1>4. /\ \A b : SoundIds(pool, b) /\ (b = prev => pool[prev].state # "live")
                   => /\ SoundIds(q, b) /\ b # a
                      /\ b # Null /\ q[b].state = "live" => pool[b].state = "live"
      /\ \A d : SoundData(pool, d) => /\ SoundData(q, d) /\ d.data # a
                                      /\ d.data # Null /\ q[d.data].state = "live" => pool[d.data].state = "live"
      /\ \A d : Sound(pool, d) /\ (d.ids = prev => pool[prev].state # "live")
                   => /\ Sound(q, d) /\ (Settled(pool, d) => Settled(q, d))
                      /\ \A e : Mine(pool, e, d) => Mine(q, e, d)
  BY ComposesOthers
<1>5. DOMAIN moved = DOMAIN moving.moved \cup {prev} /\ moved[prev] = a
      /\ \A m \in DOMAIN moving.moved : m # prev => moved[m] = moving.moved[m]
  BY DEF NewMoved
<1>6. Moved(a, q, moved)
  OBVIOUS
<1>7. \A m \in DOMAIN moved : m \in Nat /\ moved[m] \in Nat
  <2> HIDE DEF moved, prev
  <2> QED
    BY <1>1, <1>2, <1>5
<1>8. /\ c \in ToSet(moving.from) /\ new.data = c.data /\ new.ids = a
      /\ moving'.moved = moved /\ moving'.at = moving.at /\ moving'.right = moving.right /\ moving'.rightAt = moving.rightAt
      /\ \A x \in ToSet(moving'.out) : x \in ToSet(moving.out) \/ x = new
      /\ \A x \in ToSet(moving'.from) : x \in ToSet(moving.from)
  <2> HIDE DEF q, moved, prev
  <2> QED
    BY <1>2, <1>6, MovedFacts
<1> DEFINE live == pool[prev].state = "live"
<1>9. \A d \in stored : Sound(pool, d) /\ (d.ids = prev => ~live) /\ d.data # a /\ d.ids # a
  <2> SUFFICES ASSUME NEW d \in stored PROVE Sound(pool, d) /\ (d.ids = prev => ~live) /\ d.data # a /\ d.ids # a
    OBVIOUS
  <2>1. Sound(pool, d)
    BY <1>1 DEF StoresIn
  <2>2. Mine(pool, c, d)
    BY <1>1, <1>8 DEF UseIn
  <2>3. d.ids = prev => ~live
    BY <1>2, <2>2 DEF Mine
  <2>4. d.data # a /\ d.ids # a
    BY <1>1, <2>1, FreshOther DEF Sound
  <2> HIDE DEF live, prev
  <2> QED
    BY <2>1, <2>3, <2>4
<1>10. \A d \in Kept : Sound(pool, d) /\ (d.ids = prev => ~live)
  BY <1>1, <1>2 DEF StoresIn, Settled
<1>11. \A d \in ToSet(moving.out) : Sound(pool, d) /\ (d.ids = prev => ~live)
  BY <1>1, <1>2 DEF UseIn, OldIds
<1>12. \A d \in ToSet(moving.right) : Sound(pool, d) /\ Settled(pool, d) /\ (d.ids = prev => ~live)
  BY <1>1, <1>2 DEF UseIn, ComposingIn, Settled
<1>13. \A b \in {moving.at, moving.rightAt} : b = prev => ~live
  BY <1>2 DEF OldIds
<1>14. \A m \in DOMAIN moving.moved : moving.moved[m] = prev => ~live
  BY <1>2 DEF OldIds
<1>15. SoundIds(q, a)
  BY <1>2 DEF SoundIds
<1>16. SoundData(pool, c) /\ \A d \in stored : Mine(pool, c, d)
  BY <1>1, <1>8 DEF ComposingIn, UseIn
<1> HIDE DEF c, prev, new, q, moved
<1>17. StoresIn(q, cte.once, Lent, Hashed, Kept)
  <2>1. \A d \in Lent \cup Hashed \cup Kept : Sound(q, d)
    BY <1>4, <1>9, <1>10
  <2>2. \A e \in Lent : \A d \in Hashed : Mine(q, e, d)
    BY <1>1, <1>4, <1>9 DEF StoresIn
  <2>3. \A e \in Kept : Settled(q, e)
    BY <1>1, <1>4, <1>10 DEF StoresIn
  <2>4. ~cte.once => \A e \in Lent : Settled(q, e)
    BY <1>1, <1>4, <1>9 DEF StoresIn
  <2> QED
    BY <2>1, <2>2, <2>3, <2>4 DEF StoresIn
<1>18. UseIn(q, ToSet(moving'.out) \cup ToSet(moving.right), ToSet(moving'.from), stored)
  <2>1. \A e \in stored : \A x : Mine(pool, x, e) => Mine(q, x, e)
    BY <1>4, <1>9
  <2>2. \A d \in ToSet(moving.out) \cup ToSet(moving.right) : Sound(q, d)
    BY <1>4, <1>11, <1>12
  <2>3. Sound(q, new)
    BY <1>4, <1>8, <1>15, <1>16 DEF Sound, SoundData
  <2>4. \A e \in stored : Mine(q, new, e)
    BY <1>4, <1>8, <1>9, <1>16 DEF Mine
  <2>5. \A x \in ToSet(moving.out) \cup ToSet(moving.right) \cup ToSet(moving.from) : \A e \in stored : Mine(q, x, e)
    BY <1>1, <2>1 DEF UseIn
  <2> HIDE DEF stored
  <2> QED
    BY <1>8, <2>2, <2>3, <2>4, <2>5 DEF UseIn
<1>19. \A b : NewIds(pool, b, stored) /\ (b = prev => ~live) => NewIds(q, b, stored)
  BY <1>4 DEF NewIds
<1>20. NewIds(q, a, stored)
  BY <1>2, <1>9, <1>15 DEF NewIds
<1>21. \A m \in DOMAIN moved : NewIds(q, moved[m], stored)
  <2> HIDE DEF live, stored
  <2> QED
    BY <1>1, <1>5, <1>14, <1>19, <1>20 DEF ComposingIn
<1>22. \A b : OldIds(pool, b, moving) /\ b # prev => OldIds(q, b, moving')
  <2> SUFFICES ASSUME NEW b, OldIds(pool, b, moving), b # prev PROVE OldIds(q, b, moving')
    OBVIOUS
  <2>1. SoundIds(q, b) /\ b # a /\ (b # Null /\ q[b].state = "live" => pool[b].state = "live")
    BY <1>4 DEF OldIds
  <2>2. ASSUME b # Null, q[b].state = "live"
        PROVE  /\ b \notin {moving'.at, moving'.rightAt}
               /\ \A d \in ToSet(moving'.out) : d.ids # b
               /\ \A m \in DOMAIN moving'.moved : moving'.moved[m] # b
    <3>1. /\ b \notin {moving.at, moving.rightAt}
          /\ \A d \in ToSet(moving.out) : d.ids # b
          /\ \A m \in DOMAIN moving.moved : moving.moved[m] # b
      BY <2>1, <2>2 DEF OldIds
    <3> QED
      BY <1>5, <1>8, <2>1, <3>1
  <2> QED
    BY <2>1, <2>2 DEF OldIds
<1>23. ComposingIn(q, moving', stored)
  <2>1. NewIds(q, moving'.at, stored) /\ (moving'.right # <<>> => NewIds(q, moving'.rightAt, stored))
    <3> HIDE DEF live, stored
    <3> QED
      BY <1>1, <1>8, <1>13, <1>19 DEF ComposingIn
  <2>2. \A x \in ToSet(moving'.from) : SoundData(q, x) /\ (x.ids \notin DOMAIN moving'.moved => OldIds(q, x.ids, moving'))
    <3> SUFFICES ASSUME NEW x \in ToSet(moving'.from)
                 PROVE  SoundData(q, x) /\ (x.ids \notin DOMAIN moving'.moved => OldIds(q, x.ids, moving'))
      OBVIOUS
    <3>1. SoundData(pool, x) /\ (x.ids \notin DOMAIN moving.moved => OldIds(pool, x.ids, moving))
      BY <1>1, <1>8 DEF ComposingIn
    <3> QED
      BY <1>4, <1>5, <1>8, <1>22, <3>1
  <2>3. \A x \in ToSet(moving'.right) : Settled(q, x)
    BY <1>4, <1>8, <1>12
  <2>4. \A x \in ToSet(moving'.out) : x.ids # Null
    BY <1>1, <1>2, <1>8 DEF ComposingIn
  <2> QED
    BY <1>8, <1>21, <2>1, <2>2, <2>3, <2>4 DEF ComposingIn
<1> QED
  BY <1>2, <1>3, <1>6, <1>7, <1>17, <1>18, <1>23, MovedStays DEF stored

\* HandleMaterializeRowIDs: none, shared or new row ids.
LEMMA ComposeCases ==
    ASSUME Structure, Compose
    PROVE  LET c == Head(moving.from)
               prev == c.ids
           IN  /\ pc = "compose" /\ moving.from # <<>> /\ MovingLeaves /\ pc' = pc
               /\ \/ prev = Null /\ Moved(moving.at, pool, moving.moved)
                  \/ prev \in DOMAIN moving.moved /\ Moved(moving.moved[prev], pool, moving.moved)
                  \/ /\ prev # Null /\ prev \notin DOMAIN moving.moved
                     /\ \E a \in Places(pool) : Moved(a, Freed(Composes(prev, a), prev), NewMoved(prev, a))
<1> DEFINE prev == Head(moving.from).ids
<1>1. pc = "compose" /\ moving.from # <<>> /\ MovingLeaves
  BY DEF Compose, MovingLeaves
<1>2. \/ prev = Null /\ Moved(moving.at, pool, moving.moved) /\ pc' = pc
      \/ prev \in DOMAIN moving.moved /\ Moved(moving.moved[prev], pool, moving.moved) /\ pc' = pc
      \/ /\ prev # Null /\ prev \notin DOMAIN moving.moved
         /\ \E a \in Places(pool) : /\ Moved(a, Freed(Composes(prev, a), prev), NewMoved(prev, a))
                                    /\ pc' = IF Known(Composes(prev, a), prev) THEN pc ELSE "thrown"
  BY DEF Compose, Composes, NewMoved
<1>3. ASSUME prev # Null, prev \notin DOMAIN moving.moved, NEW a \in Places(pool)
      PROVE  Known(Composes(prev, a), prev)
  BY <1>1, <1>3, ComposesFacts
<1> HIDE DEF prev
<1> QED
  BY <1>1, <1>2, <1>3 DEF prev

\* A step of HandleMaterializeRowIDs.
LEMMA ComposeStays ==
    ASSUME Structure, Compose
    PROVE  Structure'
<1> DEFINE prev == Head(moving.from).ids
<1>1. pc = "compose" /\ moving.from # <<>> /\ MovingLeaves /\ pc' = pc
  BY ComposeCases
<1>2. CASE prev = Null /\ Moved(moving.at, pool, moving.moved)
  BY <1>1, <1>2, ComposeSharedStays
<1>3. CASE prev \in DOMAIN moving.moved /\ Moved(moving.moved[prev], pool, moving.moved)
  <2> HIDE DEF prev
  <2> QED
    BY <1>1, <1>3, ComposeSharedStays
<1>4. CASE /\ prev # Null /\ prev \notin DOMAIN moving.moved
           /\ \E a \in Places(pool) : Moved(a, Freed(Composes(prev, a), prev), NewMoved(prev, a))
  <2>1. PICK a \in Places(pool) : Moved(a, Freed(Composes(prev, a), prev), NewMoved(prev, a))
    BY <1>4
  <2> QED
    BY <1>1, <1>4, <2>1, ComposeNewStays
<1> QED
  BY <1>2, <1>3, <1>4, ComposeCases

\* The columns of one side, or of both, have their row ids.
LEMMA ComposedStays ==
    ASSUME Structure, Composed
    PROVE  Structure'
<1>1. /\ pc = "compose" /\ moving.from = <<>> /\ pool' = pool /\ wanted' = wanted /\ got' = got
      /\ cte' = cte /\ built' = built /\ sorted' = sorted /\ dropped' = dropped
  BY DEF Composed
<1>2. Lent' = Lent /\ Hashed' = Hashed /\ Kept' = Kept
  BY <1>1 DEF Lent, Hashed, Kept
<1> DEFINE stored == Lent \cup Hashed
<1>3. /\ ComposingIn(pool, moving, stored)
      /\ UseIn(pool, ToSet(moving.out) \cup ToSet(moving.right), ToSet(moving.from), stored)
      /\ moving \in Movings(moving.moved) /\ moving.out \in Seq(Cols) /\ moving.right \in Seq(Cols)
      /\ Len(wanted) = Len(moving.out) + Len(moving.from) + Len(moving.right)
  BY <1>1, SoundCompose
<1>4. Len(moving.from) = 0 /\ Len(moving.out) \in Nat /\ Len(moving.right) \in Nat
  BY <1>1, <1>3, SeqFacts
<1>5. StoresSound' /\ BaseIn(pool')
  BY <1>1, <1>2 DEF Structure, StoresSound
<1>6. CASE moving.right = <<>>
  <2>1. relation' = moving.out /\ pc' = "ready" /\ moving' = Still
    BY <1>6 DEF Composed
  <2>2. Len(wanted') = Len(relation')
    BY <1>1, <1>3, <1>4, <1>6, <2>1
  <2>3. Typed'
    <3>1. moving' \in Movings(moving'.moved) /\ moving'.moved = <<>>
      BY <2>1 DEF Still, Movings, Null
    <3>2. \A m \in DOMAIN moving'.moved : m \in Nat /\ moving'.moved[m] \in Nat
      BY <3>1
    <3> QED
      BY <1>1, <1>3, <2>1, <3>1, <3>2 DEF Structure, Typed
  <2>4. UseIn(pool', ToSet(relation'), {}, Lent' \cup Hashed')
    BY <1>1, <1>2, <1>3, <2>1 DEF UseIn
  <2>5. Alike(pool', ToSet(relation'))
    BY <1>3, <2>1 DEF Alike, ComposingIn
  <2> QED
    BY <1>1, <1>5, <2>1, <2>2, <2>3, <2>4, <2>5, ReadyStays DEF Structure, Paired
<1>7. CASE moving.right # <<>>
  <2>1. /\ moving' = [moving EXCEPT !.from = moving.right, !.at = moving.rightAt, !.moved = <<>>, !.right = <<>>]
        /\ relation' = relation /\ pc' = pc
    BY <1>7 DEF Composed
  <2>2. /\ moving' \in Movings(<<>>) /\ moving'.from = moving.right /\ moving'.at = moving.rightAt /\ moving'.moved = <<>>
        /\ moving'.right = <<>> /\ moving'.rightAt = moving.rightAt /\ moving'.out = moving.out
    <3>1. moving \in [from : Seq(Cols), at : Nat, moved : {moving.moved}, out : Seq(Cols),
                      right : Seq(Cols), rightAt : Nat]
      BY <1>3 DEF Movings
    <3>2. <<>> \in Seq(Cols)
      OBVIOUS
    <3> DEFINE none == <<>>
    <3>3. none \in Seq(Cols) /\ moving' = [moving EXCEPT !.from = moving.right, !.at = moving.rightAt, !.moved = none, !.right = none]
      BY <2>1, <3>2
    <3> HIDE DEF none
    <3>4. /\ moving' \in [from : Seq(Cols), at : Nat, moved : {none}, out : Seq(Cols), right : Seq(Cols), rightAt : Nat]
          /\ moving'.from = moving.right /\ moving'.at = moving.rightAt /\ moving'.moved = none
          /\ moving'.right = none /\ moving'.rightAt = moving.rightAt /\ moving'.out = moving.out
      BY <3>1, <3>3
    <3> QED
      BY <3>4 DEF Movings, none
  <2>3. Typed'
    <3>1. \A m \in DOMAIN moving'.moved : m \in Nat /\ moving'.moved[m] \in Nat
      BY <2>2
    <3> QED
      BY <1>1, <2>1, <2>2, <3>1 DEF Structure, Typed
  <2>4. Paired'
    <3>1. Len(wanted') = Len(moving'.out) + Len(moving'.from) + Len(moving'.right)
      <4>1. Len(moving'.out) = Len(moving.out) /\ Len(moving'.from) = Len(moving.right) /\ Len(moving'.right) = 0
            /\ wanted' = wanted
        BY <1>1, <2>2
      <4> DEFINE o == Len(moving.out)
                 r == Len(moving.right)
      <4>2. o \in Nat /\ r \in Nat /\ Len(wanted) = o + 0 + r
        BY <1>3, <1>4
      <4> HIDE DEF o, r
      <4>3. Len(wanted') = o + r + 0
        BY <4>1, <4>2
      <4> QED
        BY <4>1, <4>3 DEF o, r
    <3> QED
      BY <1>1, <2>1, <3>1 DEF Structure, Paired
  <2>5. Current' = ToSet(moving.out) /\ Composing' = ToSet(moving.right)
    <3>1. ToSet(<<>>) = {}
      BY DEF ToSet
    <3> QED
      BY <1>1, <2>1, <2>2, <3>1 DEF Current, Composing
  <2>6. CurrentSound'
    BY <1>1, <1>2, <1>3, <2>5 DEF CurrentSound, UseIn
  <2>7. ComposingIn(pool, moving', stored)
    <3>1. NewIds(pool, moving'.at, stored)
      BY <1>3, <1>7, <2>2 DEF ComposingIn
    <3>2. \A m \in DOMAIN moving'.moved : NewIds(pool, moving'.moved[m], stored)
      BY <2>2
    <3>3. \A x \in ToSet(moving'.from) : SoundData(pool, x) /\ OldIds(pool, x.ids, moving')
      BY <1>3, <2>2 DEF UseIn, ComposingIn, Sound, Settled, OldIds
    <3>4. \A x \in ToSet(moving'.right) : Settled(pool, x)
      BY <2>2 DEF ToSet
    <3>5. \A x \in ToSet(moving'.out) : x.ids # Null
      BY <1>3, <2>2 DEF ComposingIn
    <3> QED
      BY <2>2, <3>1, <3>2, <3>3, <3>4, <3>5 DEF ComposingIn
  <2>8. ComposingSound'
    BY <1>1, <1>2, <2>7 DEF ComposingSound
  <2>9. Reading' /\ DistinctIsStored' /\ SharedAlike'
    BY <1>1, <2>1 DEF Reading, DistinctIsStored, SharedAlike
  <2> QED
    BY <1>5, <2>3, <2>4, <2>6, <2>8, <2>9 DEF Structure
<1> QED
  BY <1>6, <1>7

-----------------------------------------------------------------------------
(* A filter or a join narrows the relation to the rows it selects *)

\* A relation of empty columns.
LEMMA AllEmpty ==
    ASSUME NEW n \in Nat
    PROVE  LET cols == [i \in 1 .. n |-> Empty]
           IN  cols \in Seq(Cols) /\ Len(cols) = n /\ DOMAIN cols = 1 .. n /\ \A c \in ToSet(cols) : c = Empty
<1> DEFINE cols == [i \in 1 .. n |-> Empty]
<1>1. DOMAIN cols = 1 .. n /\ cols \in [1 .. n -> Cols]
  BY EmptyFacts
<1>2. \A c \in ToSet(cols) : c = Empty
  BY DEF ToSet
<1> HIDE DEF cols
<1>3. cols \in Seq(Cols) /\ Len(cols) = n
  BY <1>1, IsSeq
<1> QED
  BY <1>1, <1>2, <1>3 DEF cols

\* What the stores promise is kept when the pool grows or the hash table is given up.
GrowsOnly ==
    /\ Grows(pool, pool') /\ UNCHANGED <<got, cte, sorted, dropped>>
    /\ built' = built \/ built' = Nothing

\* The stores after a step that only allocates and locks.
LEMMA GrowsOnlyFacts ==
    ASSUME Structure, GrowsOnly
    PROVE  /\ pool' \in Seq(Blocks) /\ BaseIn(pool') /\ StoresSound'
           /\ Lent' = Lent /\ Kept' = Kept /\ (Hashed' = Hashed \/ Hashed' = {Empty})
           /\ \A d \in Lent' \cup Hashed' : d \in Lent \cup Hashed \/ d = Empty
           /\ built' \in Stores /\ cte' \in Stores /\ sorted' \in Stores /\ got' \in Seq(Gots) /\ dropped' \in BOOLEAN
           /\ Len(cte'.want) = Len(cte'.cols) /\ Len(built'.want) = Len(built'.cols)
           /\ Len(sorted'.want) = Len(sorted'.cols)
<1>1. Grows(pool, pool') /\ got' = got /\ cte' = cte /\ sorted' = sorted /\ dropped' = dropped
      /\ (built' = built \/ built' = Nothing)
  BY DEF GrowsOnly
<1>2. pool' \in Seq(Blocks) /\ BaseIn(pool')
  BY <1>1, GrowsFacts, BaseGrows DEF Structure
<1>3. Lent' = Lent /\ Kept' = Kept
  BY <1>1 DEF Lent, Kept
<1>4. Hashed' = Hashed \/ Hashed' = {Empty}
  <2>1. CASE built' = built
    BY <2>1 DEF Hashed
  <2>2. CASE built' = Nothing
    BY <2>2, EmptyFacts DEF Hashed
  <2> QED
    BY <1>1, <2>1, <2>2
<1>5. StoresIn(pool', cte.once, Lent, Hashed, Kept)
  BY <1>1, StoresGrow DEF Structure, StoresSound
<1>6. StoresSound'
  BY <1>1, <1>3, <1>4, <1>5, StoresLess DEF StoresSound
<1>7. /\ built' \in Stores /\ cte' \in Stores /\ sorted' \in Stores /\ got' \in Seq(Gots) /\ dropped' \in BOOLEAN
      /\ Len(cte'.want) = Len(cte'.cols) /\ Len(built'.want) = Len(built'.cols)
      /\ Len(sorted'.want) = Len(sorted'.cols)
  BY <1>1, EmptyFacts DEF Structure, Typed, Paired
<1> QED
  BY <1>2, <1>3, <1>4, <1>6, <1>7

\* A relation that became empty.
LEMMA EmptiedStays ==
    ASSUME Structure, GrowsOnly, pc' = "ready", NEW n \in Nat, relation' = [i \in 1 .. n |-> Empty],
           wanted' \in Seq(Wants), Len(wanted') = n, moving' = moving \/ moving' = Still
    PROVE  Structure'
<1>1. /\ relation' \in Seq(Cols) /\ Len(relation') = n /\ \A c \in ToSet(relation') : c = Empty
  BY AllEmpty
<1>2. moving' \in Movings(moving'.moved) /\ \A m \in DOMAIN moving'.moved : m \in Nat /\ moving'.moved[m] \in Nat
  <2>1. CASE moving' = moving
    BY <2>1 DEF Structure, Typed
  <2>2. CASE moving' = Still
    <3>1. moving' \in Movings(moving'.moved) /\ moving'.moved = <<>>
      BY <2>2 DEF Still, Movings, Null
    <3> QED
      BY <3>1
  <2> QED
    BY <2>1, <2>2
<1>3. Typed'
  BY <1>1, <1>2, GrowsOnlyFacts DEF Typed
<1>4. UseIn(pool', ToSet(relation'), {}, Lent' \cup Hashed')
  BY <1>1, EmptyFacts DEF UseIn
<1>5. Alike(pool', ToSet(relation'))
  BY <1>1, EmptyFacts DEF Alike
<1> QED
  BY <1>1, <1>3, <1>4, <1>5, GrowsOnlyFacts, ReadyStays

\* A filter over nothing reads nothing.
LEMMA FilterEmptyStays ==
    ASSUME Structure, NEW f \in Filters, Filter(f), pc' # "read"
    PROVE  Structure'
<1>1. f.refs \in Seq(Nat) \ {<<>>} /\ f.refs[1] \in DOMAIN relation
  <2>1. f.refs \in Seq(Nat) \ {<<>>}
    BY LateMaterializationAssumption
  <2> DEFINE refs == f.refs
  <2>2. refs \in Seq(Nat) \ {<<>>} /\ ToSet(refs) \subseteq DOMAIN relation
    BY <2>1 DEF Filter
  <2> HIDE DEF refs
  <2>3. 1 \in DOMAIN refs /\ refs[1] \in ToSet(refs)
    BY <2>2, SeqFacts
  <2> QED
    BY <2>1, <2>2, <2>3 DEF refs
<1>2. /\ pc = "ready" /\ pc' = pc /\ relation' = [i \in DOMAIN relation |-> Empty]
      /\ wanted' = Narrow(wanted, Positions(wanted[f.refs[1]].rows, f.keep))
      /\ UNCHANGED <<pool, got, moving, cte, built, sorted, dropped>>
  BY DEF Filter, Begin
<1>3. Len(relation) \in Nat /\ DOMAIN relation = 1 .. Len(relation) /\ pool \in Seq(Blocks)
  BY SoundStores
<1>4. wanted \in Seq(Wants) /\ Len(wanted) = Len(relation) /\ wanted[f.refs[1]].rows \in Seq(Int)
  BY <1>1, <1>2, SoundReady DEF Wants
<1> DEFINE ids == Positions(wanted[f.refs[1]].rows, f.keep)
<1>5. ids \in Seq(Int)
  BY <1>4, PositionsFacts
<1> HIDE DEF ids
<1>6. wanted' \in Seq(Wants) /\ Len(wanted') = Len(relation)
  BY <1>2, <1>4, <1>5, NarrowFacts DEF ids
<1>7. GrowsOnly
  BY <1>2, <1>3, GrowsSelf DEF GrowsOnly
<1> QED
  BY <1>2, <1>3, <1>6, <1>7, EmptiedStays

\* HandleMaterializeRowIDs begins, or selects nothing.
LEMMA NarrowingStays ==
    ASSUME Structure, pc = "read", task.kind # "distinct", task.hands = All, GrowsOnly,
           NEW at \in Nat, NEW right \in Seq(Cols), NEW rightAt \in Nat,
           Narrowing(pool', relation, at, right, rightAt),
           NewIds(pool', at, Lent' \cup Hashed'), right # <<>> => NewIds(pool', rightAt, Lent' \cup Hashed'),
           \A c \in ToSet(relation) : c.ids # Null => c.ids # at /\ c.ids # rightAt,
           \A c \in ToSet(right) : Sound(pool', c) /\ Settled(pool', c),
           wanted' \in Seq(Wants), Len(wanted') = Len(relation) + Len(right)
    PROVE  Structure'
<1> DEFINE stored == Lent' \cup Hashed'
<1>1. Len(relation) \in Nat /\ Len(right) \in Nat /\ Len(relation) + Len(right) \in Nat
  BY SoundStores, SeqFacts
<1>2. CASE pool'[at].rows = <<>>
  <2> DEFINE n == Len(relation) + Len(right)
  <2>1. relation' = [i \in 1 .. n |-> Empty] /\ pc' = "ready" /\ moving' = Still
    BY <1>2 DEF Narrowing
  <2>2. n \in Nat /\ Len(wanted') = n
    BY <1>1
  <2> HIDE DEF n
  <2> QED
    BY <2>1, <2>2, EmptiedStays
<1>3. CASE pool'[at].rows # <<>>
  <2>1. /\ moving' = [from |-> relation, at |-> at, moved |-> <<>>, out |-> <<>>, right |-> right, rightAt |-> rightAt]
        /\ pc' = "compose" /\ relation' = relation
    BY <1>3 DEF Narrowing
  <2>2. /\ moving'.from = relation /\ moving'.at = at /\ moving'.moved = <<>> /\ moving'.out = <<>>
        /\ moving'.right = right /\ moving'.rightAt = rightAt
    BY <2>1
  <2>3. \A c \in ToSet(relation) : /\ Sound(pool', c) /\ \A d \in stored : Mine(pool', c, d)
                                   /\ c.ids # Null => c.ids # at /\ c.ids # rightAt
    <3> SUFFICES ASSUME NEW c \in ToSet(relation)
                 PROVE  Sound(pool', c) /\ \A d \in stored : Mine(pool', c, d)
      OBVIOUS
    <3>1. PICK j \in DOMAIN relation : c = relation[j]
      BY SoundStores
    <3>2. j \in InHand
      BY <3>1 DEF InHand, All
    <3>3. Sound(pool, c) /\ \A d \in Lent \cup Hashed : Mine(pool, c, d)
      BY <3>1, <3>2, SoundRead
    <3>4. Grows(pool, pool')
      BY DEF GrowsOnly
    <3>5. Sound(pool', c)
      BY <3>3, <3>4, SoundGrows
    <3>6. \A d \in Lent \cup Hashed : Mine(pool', c, d)
      BY <3>3, <3>4, MineGrows
    <3> QED
      BY <3>5, <3>6, GrowsOnlyFacts, EmptyFacts
  <2>4. Typed'
    <3>1. moving' \in Movings(moving'.moved)
      <4>1. relation \in Seq(Cols) /\ <<>> \in Seq(Cols)
        BY DEF Structure, Typed
      <4> QED
        BY <2>1, <4>1 DEF Movings
    <3>2. \A m \in DOMAIN moving'.moved : m \in Nat /\ moving'.moved[m] \in Nat
      BY <2>2
    <3>3. relation' \in Seq(Cols)
      BY <2>1 DEF Structure, Typed
    <3> QED
      BY <2>1, <3>1, <3>2, <3>3, GrowsOnlyFacts DEF Typed
  <2>5. Paired'
    <3>1. Len(moving'.out) = 0 /\ Len(moving'.from) = Len(relation) /\ Len(moving'.right) = Len(right)
      BY <2>2
    <3> DEFINE f == Len(relation)
               r == Len(right)
    <3>2. f \in Nat /\ r \in Nat /\ Len(wanted') = f + r
      BY <1>1
    <3> HIDE DEF f, r
    <3>3. Len(wanted') = 0 + f + r
      BY <3>2
    <3>4. Len(wanted') = Len(moving'.out) + Len(moving'.from) + Len(moving'.right)
      BY <3>1, <3>3 DEF f, r
    <3> QED
      BY <2>1, <3>4, GrowsOnlyFacts DEF Paired
  <2>6. Current' = ToSet(right) /\ Composing' = ToSet(relation)
    <3>1. ToSet(<<>>) = {}
      BY DEF ToSet
    <3> QED
      BY <2>1, <2>2, <3>1 DEF Current, Composing
  <2>7. CurrentSound'
    <3>1. UseIn(pool', ToSet(right), ToSet(relation), stored)
      BY <2>3, SettledMine DEF UseIn
    <3> QED
      BY <2>6, <3>1 DEF CurrentSound
  <2>8. ComposingIn(pool', moving', stored)
    <3>1. \A m \in DOMAIN moving'.moved : NewIds(pool', moving'.moved[m], stored)
      BY <2>2
    <3>2. \A c \in ToSet(moving'.from) : SoundData(pool', c) /\ OldIds(pool', c.ids, moving')
      <4>1. ToSet(moving'.out) = {} /\ DOMAIN moving'.moved = {}
        BY <2>2 DEF ToSet
      <4> QED
        BY <2>2, <2>3, <4>1 DEF Sound, OldIds
    <3>3. \A x \in ToSet(moving'.out) : x.ids # Null
      BY <2>2 DEF ToSet
    <3> QED
      BY <2>2, <3>1, <3>2, <3>3 DEF ComposingIn
  <2>9. ComposingSound'
    BY <2>8 DEF ComposingSound
  <2>10. Reading' /\ DistinctIsStored' /\ SharedAlike'
    BY <2>1 DEF Reading, DistinctIsStored, SharedAlike
  <2> QED
    BY <2>4, <2>5, <2>7, <2>9, <2>10, GrowsOnlyFacts DEF Structure
<1> QED
  BY <1>2, <1>3

\* Row ids in a new block are sound, and in no column in use.
LEMMA FreshIds ==
    ASSUME NEW p \in Seq(Blocks), NEW a \in Places(p), NEW rows \in Seq(Int)
    PROVE  LET q == Put(p, a, "live", Ids, rows)
           IN  /\ q \in Seq(Blocks) /\ Grows(p, q) /\ a \in Nat /\ a # Null /\ a \in DOMAIN q
               /\ q[a].state = "live" /\ q[a].tag = Ids /\ q[a].rows = rows /\ SoundIds(q, a)
               /\ \A c : Sound(p, c) => c.data # a /\ c.ids # a
<1> DEFINE q == Put(p, a, "live", Ids, rows)
<1>1. [state |-> "live", tag |-> Ids, rows |-> rows] \in Blocks
  BY DEF Blocks, Ids
<1>2. /\ q \in Seq(Blocks) /\ Grows(p, q) /\ a \in Nat /\ a # Null /\ a \in DOMAIN q
      /\ q[a].state = "live" /\ q[a].tag = Ids /\ q[a].rows = rows
  BY <1>1, PutFacts
<1>3. \A c : Sound(p, c) => c.data # a /\ c.ids # a
  BY FreshOther DEF Sound
<1> HIDE DEF q
<1>4. SoundIds(q, a)
  BY <1>2 DEF SoundIds
<1> QED
  BY <1>2, <1>3, <1>4 DEF q

\* What a task reads from the relation is there.
LEMMA SelectStays ==
    ASSUME Structure, Select
    PROVE  Structure'
<1> DEFINE f == task.by
           ids == Positions(got[f.refs[1]].rows, f.keep)
           meant == Positions(wanted[f.refs[1]].rows, f.keep)
<1>1. /\ pc = "read" /\ task.kind = "filter" /\ UNCHANGED <<got, cte, built, sorted, dropped>>
      /\ wanted' = Narrow(wanted, meant)
  BY DEF Select, HasRead
<1>2. PICK a \in Places(pool) : pool' = Put(pool, a, "live", Ids, ids) /\ Narrowing(pool', relation, a, <<>>, Null)
  BY DEF Select
<1>3. task.hands = All /\ f \in Filters /\ ToSet(f.refs) \subseteq All
  BY <1>1, SoundRead DEF Tasked, IsPart
<1>4. f.refs[1] \in All
  <2>1. f.refs \in Seq(Nat) \ {<<>>}
    BY <1>3, LateMaterializationAssumption
  <2> DEFINE refs == f.refs
  <2>2. refs \in Seq(Nat) \ {<<>>} /\ ToSet(refs) \subseteq All
    BY <1>3, <2>1
  <2> HIDE DEF refs
  <2>3. 1 \in DOMAIN refs /\ refs[1] \in ToSet(refs)
    BY <2>2, SeqFacts
  <2> QED
    BY <2>2, <2>3 DEF refs
<1>5. got[f.refs[1]].rows \in Seq(Int) /\ wanted[f.refs[1]].rows \in Seq(Int)
      /\ wanted \in Seq(Wants) /\ Len(wanted) = Len(relation) /\ Len(relation) \in Nat
  BY <1>1, <1>4, SoundRead
<1>6. ids \in Seq(Int) /\ meant \in Seq(Int)
  BY <1>5, PositionsFacts
<1> HIDE DEF ids, meant
<1>7. wanted' \in Seq(Wants) /\ Len(wanted') = Len(relation)
  BY <1>1, <1>5, <1>6, NarrowFacts
<1>8. pool \in Seq(Blocks) /\ \A d \in Lent \cup Hashed : Sound(pool, d)
  BY SoundStores
<1>9. /\ Grows(pool, pool') /\ a \in Nat /\ a # Null /\ SoundIds(pool', a)
      /\ \A c : Sound(pool, c) => c.data # a /\ c.ids # a
  BY <1>2, <1>6, <1>8, FreshIds
<1>10. GrowsOnly
  BY <1>1, <1>9 DEF GrowsOnly
<1>11. Lent' \cup Hashed' = Lent \cup Hashed
  BY <1>1 DEF Lent, Hashed
<1>12. NewIds(pool', a, Lent' \cup Hashed')
  BY <1>8, <1>9, <1>11 DEF NewIds
<1>13. \A c \in ToSet(relation) : c.ids # Null => c.ids # a /\ c.ids # Null
  <2> SUFFICES ASSUME NEW c \in ToSet(relation) PROVE c.ids # a
    OBVIOUS
  <2>1. PICK j \in DOMAIN relation : c = relation[j]
    BY SoundStores
  <2>2. Sound(pool, c)
    BY <1>1, <1>3, <2>1, SoundRead DEF InHand, All
  <2> QED
    BY <1>9, <2>2
<1>14. <<>> \in Seq(Cols) /\ Len(<<>>) = 0 /\ ToSet(<<>>) = {} /\ Null \in Nat
  BY DEF ToSet, Null
<1>15. Len(wanted') = Len(relation) + Len(<<>>)
  BY <1>5, <1>7, <1>14
<1> QED
  BY <1>1, <1>2, <1>3, <1>7, <1>9, <1>10, <1>12, <1>13, <1>14, <1>15, NarrowingStays

\* The probe of a hash join locks what the build kept and narrows both sides.
LEMMA JoinStays ==
    ASSUME Structure, Join
    PROVE  Structure'
<1> DEFINE left == Denotes(pool, got[task.by].col)
           right == Denotes(pool, built.key)
           pairs == Pairs(left, right)
           meant == Pairs(wanted[task.by].rows, built.keyRows)
           ones == Side(pairs, 1)
           twos == Side(pairs, 2)
           lefts == Side(meant, 1)
           rights == Side(meant, 2)
           locked == Locked(pool, UNION {{c.data, c.ids} : c \in ToSet(built.cols)})
<1>1. /\ pc = "read" /\ task.kind = "probe" /\ UNCHANGED <<got, cte, sorted, dropped>> /\ built' = Nothing
      /\ wanted' = Narrow(wanted, lefts) \o Narrow(built.want, rights)
  BY DEF Join, HasRead
<1>2. PICK l \in Places(locked) : \E r \in Places(Put(locked, l, "live", Ids, ones)) :
         /\ pool' = Put(Put(locked, l, "live", Ids, ones), r, "live", Ids, twos)
         /\ Narrowing(pool', relation, l, built.cols, r)
  BY DEF Join
<1> DEFINE half == Put(locked, l, "live", Ids, ones)
<1>3. PICK r \in Places(half) : /\ pool' = Put(half, r, "live", Ids, twos)
                                /\ Narrowing(pool', relation, l, built.cols, r)
  BY <1>2
<1>4. task.hands = All /\ task.by \in All
  BY <1>1, SoundRead DEF Tasked
<1>5. /\ got[task.by].col \in Cols /\ Sound(pool, got[task.by].col) /\ pool \in Seq(Blocks)
      /\ wanted[task.by].rows \in Seq(Int) /\ wanted \in Seq(Wants) /\ Len(wanted) = Len(relation)
      /\ Len(relation) \in Nat
  BY <1>1, <1>4, SoundRead, SoundStores
<1>6. /\ built \in Stores /\ built.want \in Seq(Wants) /\ built.cols \in Seq(Cols) /\ Len(built.want) = Len(built.cols)
      /\ built.key \in Cols /\ built.keyRows \in Seq(Int) /\ built.key \in Hashed /\ ToSet(built.cols) \subseteq Hashed
      /\ Len(built.cols) \in Nat
  BY StoreFacts DEF Structure, Typed, Paired, Hashed
<1>7. left \in Seq(Int) /\ right \in Seq(Int)
  BY <1>5, <1>6, DenotesFacts, SoundStores
<1>8. ones \in Seq(Int) /\ twos \in Seq(Int) /\ lefts \in Seq(Int) /\ rights \in Seq(Int)
  <2> HIDE DEF left, right
  <2>1. ones \in Seq(1 .. Len(left)) /\ twos \in Seq(1 .. Len(right)) /\ Len(left) \in Nat /\ Len(right) \in Nat
    BY <1>7, PairsFacts, SeqFacts
  <2>2. lefts \in Seq(1 .. Len(wanted[task.by].rows)) /\ rights \in Seq(1 .. Len(built.keyRows))
    BY <1>5, <1>6, PairsFacts
  <2> HIDE DEF ones, twos, lefts, rights
  <2>3. ones \in Seq(Int) /\ twos \in Seq(Int)
    BY <2>1, SeqFacts, WiderSeq
  <2>4. lefts \in Seq(Int) /\ rights \in Seq(Int)
    BY <2>2, SeqFacts, WiderSeq
  <2> QED
    BY <2>3, <2>4
<1> HIDE DEF left, right, pairs, meant, ones, twos, lefts, rights
<1>9. wanted' \in Seq(Wants) /\ Len(wanted') = Len(relation) + Len(built.cols)
  <2> DEFINE a == Narrow(wanted, lefts)
             b == Narrow(built.want, rights)
  <2>3. a \in Seq(Wants) /\ Len(a) = Len(relation)
    BY <1>5, <1>6, <1>8, NarrowFacts
  <2>4. b \in Seq(Wants) /\ Len(b) = Len(built.cols)
    BY <1>5, <1>6, <1>8, NarrowFacts
  <2>1. a \in Seq(Wants) /\ Len(a) = Len(relation) /\ b \in Seq(Wants) /\ Len(b) = Len(built.cols)
    BY <2>3, <2>4
  <2> HIDE DEF a, b
  <2>2. a \o b \in Seq(Wants) /\ Len(a \o b) = Len(a) + Len(b)
    BY <2>1, ConcatProperties
  <2> QED
    BY <1>1, <2>1, <2>2 DEF a, b
<1>10. /\ locked \in Seq(Blocks) /\ Grows(pool, locked)
       /\ \A c \in ToSet(built.cols) : Settled(locked, c)
  <2> DEFINE blocks == UNION {{c.data, c.ids} : c \in ToSet(built.cols)}
  <2>1. /\ locked \in Seq(Blocks) /\ Grows(pool, locked)
        /\ \A b \in blocks \cap DOMAIN pool : locked[b].state # "live"
    BY <1>5, LockedFacts
  <2>2. ASSUME NEW c \in ToSet(built.cols), NEW b \in {c.data, c.ids}, b # Null
        PROVE  locked[b].state # "live"
    <3>1. b \in blocks
      BY <2>2
    <3>2. b \in DOMAIN pool
      BY <1>6, <2>2, SoundStores DEF Sound, SoundData, SoundIds
    <3> QED
      BY <2>1, <3>1, <3>2
  <2> QED
    BY <2>1, <2>2 DEF Settled
<1> HIDE DEF locked
<1>11. /\ half \in Seq(Blocks) /\ Grows(locked, half) /\ l \in Nat /\ l # Null /\ SoundIds(half, l)
       /\ \A c : Sound(locked, c) => c.data # l /\ c.ids # l
  BY <1>8, <1>10, FreshIds
<1> HIDE DEF half
<1>12. /\ Grows(half, pool') /\ r \in Nat /\ r # Null /\ SoundIds(pool', r) /\ SoundIds(pool', l)
       /\ \A c : Sound(half, c) => c.data # r /\ c.ids # r
  BY <1>3, <1>8, <1>11, FreshIds, SoundGrows
<1>13. Grows(pool, pool') /\ Grows(locked, pool')
  BY <1>10, <1>11, <1>12, GrowsOn
<1>14. \A c : Sound(pool, c) => c.data \notin {l, r} /\ c.ids \notin {l, r}
  BY <1>10, <1>11, <1>12, SoundGrows
<1>15. GrowsOnly
  BY <1>1, <1>13 DEF GrowsOnly
<1>16. \A d \in Lent' \cup Hashed' : d.data \notin {l, r} /\ d.ids \notin {l, r}
  <2>1. \A d \in Lent \cup Hashed : Sound(pool, d)
    BY SoundStores
  <2>2. Sound(pool, Empty)
    BY EmptyFacts
  <2> QED
    BY <1>14, <1>15, <2>1, <2>2, GrowsOnlyFacts
<1>17. NewIds(pool', l, Lent' \cup Hashed') /\ NewIds(pool', r, Lent' \cup Hashed')
  BY <1>11, <1>12, <1>16 DEF NewIds
<1>18. \A c \in ToSet(relation) : c.ids # l /\ c.ids # r
  <2> SUFFICES ASSUME NEW c \in ToSet(relation) PROVE c.ids # l /\ c.ids # r
    OBVIOUS
  <2>1. PICK j \in DOMAIN relation : c = relation[j]
    BY SoundStores
  <2>2. Sound(pool, c)
    BY <1>1, <1>4, <2>1, SoundRead DEF InHand, All
  <2> QED
    BY <1>14, <2>2
<1>19. \A c \in ToSet(built.cols) : Sound(pool', c) /\ Settled(pool', c)
  <2> SUFFICES ASSUME NEW c \in ToSet(built.cols) PROVE Sound(pool', c) /\ Settled(pool', c)
    OBVIOUS
  <2>1. Sound(pool, c)
    BY <1>6, SoundStores
  <2>2. Sound(locked, c)
    BY <1>10, <2>1, SoundGrows
  <2>3. Sound(pool', c)
    BY <1>13, <2>1, SoundGrows
  <2>4. Settled(pool', c)
    BY <1>10, <1>13, <2>2, MineGrows
  <2> QED
    BY <2>3, <2>4
<1> QED
  BY <1>1, <1>3, <1>4, <1>6, <1>9, <1>11, <1>12, <1>15, <1>17, <1>18, <1>19, NarrowingStays

-----------------------------------------------------------------------------
(* The other operators hand on columns they have read, or stored *)

\* The columns of the relation after an operator that only adds kept blocks.
LEMMA HandedStays ==
    ASSUME Structure, pc' = "ready", GrowsOnly, built' = built, moving' = moving,
           relation' \in Seq(Cols), wanted' \in Seq(Wants), Len(wanted') = Len(relation'),
           \A c \in ToSet(relation') : Sound(pool', c) /\ \A d \in Lent \cup Hashed : Mine(pool', c, d),
           Alike(pool', ToSet(relation'))
    PROVE  Structure'
<1>1. Typed'
  BY GrowsOnlyFacts DEF Structure, Typed
<1>2. Lent' \cup Hashed' = Lent \cup Hashed
  BY DEF GrowsOnly, Lent, Hashed
<1>3. UseIn(pool', ToSet(relation'), {}, Lent' \cup Hashed')
  BY <1>2 DEF UseIn
<1> QED
  BY <1>1, <1>3, GrowsOnlyFacts, ReadyStays

\* A limit shortens the columns it has read.
LEMMA LimitedStays ==
    ASSUME Structure, Limited
    PROVE  Structure'
<1>1. /\ pc = "read" /\ task.kind = "limit" /\ pc' = "ready" /\ pool' = pool /\ built' = built /\ cte' = cte
      /\ sorted' = sorted /\ got' = got /\ moving' = moving
      /\ dropped' = (dropped \/ task.by.offset > 0)
      /\ relation' = Shorten(task.by, [i \in DOMAIN got |-> got[i].col])
      /\ wanted' = [i \in DOMAIN wanted |-> [wanted[i] EXCEPT !.rows = Page(@, task.by.n, task.by.offset)]]
  BY DEF Limited, HasRead
<1>2. task.by \in Limits
  BY <1>1, SoundRead DEF Tasked
<1>3. task.by.n \in Nat /\ task.by.offset \in Nat
  BY <1>2, LateMaterializationAssumption
<1> DEFINE cols == [i \in DOMAIN got |-> got[i].col]
           lens(i) == {task.by.n} \cup {cols[j].len : j \in 1 .. i}
           least(i) == CHOOSE m \in lens(i) : \A k \in lens(i) : m <= k
           at(i) == Column(cols[i].data, least(i))
<1>4. /\ DOMAIN got = 1 .. Len(relation) /\ Len(relation) \in Nat /\ All = 1 .. Len(relation)
      /\ \A i \in 1 .. Len(relation) : cols[i] = got[i].col /\ cols[i] \in Cols
      /\ DOMAIN cols = 1 .. Len(relation)
  BY <1>1, SoundRead
<1>5. relation' = [i \in 1 .. Len(relation) |-> at(i)]
  BY <1>1, <1>4 DEF Shorten
<1> HIDE DEF cols
<1>6. ASSUME NEW i \in 1 .. Len(relation)
      PROVE  least(i) \in Nat
  <2>1. lens(i) \in SUBSET Nat /\ lens(i) # {}
    BY <1>3, <1>4 DEF Cols
  <2> HIDE DEF lens
  <2>2. \E m \in lens(i) : \A k \in lens(i) : m <= k
    BY <2>1, LeastNumber
  <2>3. least(i) \in lens(i)
    BY <2>2
  <2> QED
    BY <2>1, <2>3
<1> HIDE DEF least
<1>7. ASSUME NEW i \in 1 .. Len(relation)
      PROVE  /\ at(i) \in Cols /\ at(i).ids = Null /\ Sound(pool, at(i))
             /\ \A d \in Lent \cup Hashed : Mine(pool, at(i), d)
  <2>1. cols[i].data \in Nat /\ Sound(pool, cols[i]) /\ \A d \in Lent \cup Hashed : Mine(pool, cols[i], d)
    BY <1>1, <1>4, SoundRead DEF Cols
  <2> QED
    BY <1>6, <2>1, ColumnFacts DEF Sound
<1> HIDE DEF at
<1>8. relation' \in Seq(Cols) /\ Len(relation') = Len(relation)
      /\ \A c \in ToSet(relation') : \E i \in 1 .. Len(relation) : c = at(i)
  <2>1. DOMAIN relation' = 1 .. Len(relation) /\ relation' \in [1 .. Len(relation) -> Cols]
    BY <1>5, <1>7
  <2>2. relation' \in Seq(Cols) /\ Len(relation') = Len(relation)
    BY <1>4, <2>1, IsSeq
  <2>3. \A c \in ToSet(relation') : \E i \in DOMAIN relation' : c = relation'[i]
    BY <2>2, SeqFacts
  <2> QED
    BY <1>5, <2>2, <2>3
<1>9. wanted' \in Seq(Wants) /\ Len(wanted') = Len(relation)
  <2> DEFINE paged(i) == [wanted[i] EXCEPT !.rows = Page(@, task.by.n, task.by.offset)]
  <2>1. DOMAIN wanted = 1 .. Len(relation) /\ \A i \in 1 .. Len(relation) : wanted[i] \in Wants
    BY <1>1, <1>4, SoundRead
  <2>2. \A i \in 1 .. Len(relation) : paged(i) \in Wants
    BY <1>3, <2>1, PageFacts DEF Wants
  <2>3. wanted' = [i \in 1 .. Len(relation) |-> paged(i)]
    BY <1>1, <2>1
  <2> HIDE DEF paged
  <2>4. DOMAIN wanted' = 1 .. Len(relation) /\ wanted' \in [1 .. Len(relation) -> Wants]
    BY <2>2, <2>3
  <2> QED
    BY <1>4, <2>4, IsSeq
<1>10. \A c \in ToSet(relation') : c.ids = Null /\ Sound(pool, c) /\ \A d \in Lent \cup Hashed : Mine(pool, c, d)
  BY <1>7, <1>8
<1>11. Typed'
  <2>1. dropped' \in BOOLEAN
    BY <1>1 DEF Structure, Typed
  <2> QED
    BY <1>1, <1>8, <1>9, <2>1 DEF Structure, Typed
<1>12. /\ Lent' = Lent /\ Hashed' = Hashed /\ Kept' = Kept
  BY <1>1 DEF Lent, Hashed, Kept
<1>13. StoresSound' /\ BaseIn(pool')
  BY <1>1, <1>12 DEF Structure, StoresSound
<1>14. UseIn(pool', ToSet(relation'), {}, Lent' \cup Hashed')
  BY <1>1, <1>10, <1>12 DEF UseIn
<1>15. Alike(pool', ToSet(relation'))
  BY <1>10 DEF Alike
<1>16. /\ Len(cte'.want) = Len(cte'.cols) /\ Len(built'.want) = Len(built'.cols)
       /\ Len(sorted'.want) = Len(sorted'.cols) /\ Len(wanted') = Len(relation')
  BY <1>1, <1>8, <1>9 DEF Structure, Paired
<1> QED
  BY <1>1, <1>11, <1>13, <1>14, <1>15, <1>16, ReadyStays

\* What a computing projection adds to the pool, and the columns it hands on.
Fresh(items) == {i \in DOMAIN items : ~items[i].pass /\ ~Skipped(items[i])}
Rank(items, i) == Cardinality({j \in Fresh(items) : j <= i})
Results(items) ==
    [j \in DOMAIN Listed(Fresh(items)) |->
        [state |-> "kept", tag |-> Computed, rows |-> got[items[Listed(Fresh(items))[j]].refs[1]].rows]]

\* What a projection hands on is there.
LEMMA ProjectHands ==
    ASSUME Structure, pc = "read", task.kind = "project"
    PROVE  /\ task.by \in Projections /\ DOMAIN task.by = 1 .. Len(task.by) /\ Len(task.by) \in Nat
           /\ \A i \in DOMAIN task.by : /\ task.by[i].refs[1] \in All /\ task.by[i].pass \in BOOLEAN
                                        /\ task.by[i].pass => task.by[i].refs[1] \in InHand
<1>1. /\ task.by \in Projections /\ \A i \in DOMAIN task.by : ToSet(task.by[i].refs) \subseteq All
      /\ task.hands = {task.by[i].refs[1] : i \in {j \in DOMAIN task.by : task.by[j].pass}}
  BY SoundRead DEF Tasked, IsPart
<1>2. /\ DOMAIN task.by = 1 .. Len(task.by) /\ Len(task.by) \in Nat
      /\ \A i \in DOMAIN task.by : task.by[i].refs[1] \in All /\ task.by[i].pass \in BOOLEAN
  BY <1>1, ProjectReads
<1>3. \A i \in DOMAIN task.by : task.by[i].pass => task.by[i].refs[1] \in task.hands
  BY <1>1
<1> QED
  BY <1>1, <1>2, <1>3 DEF InHand

\* Every computed column has its block.
LEMMA ResultsFacts ==
    ASSUME Structure, pc = "read", task.kind = "project"
    PROVE  LET blocks == Results(task.by)
           IN  /\ blocks \in Seq(Blocks)
               /\ \A i \in Fresh(task.by) :
                     /\ Rank(task.by, i) \in 1 .. Len(blocks)
                     /\ blocks[Rank(task.by, i)] = [state |-> "kept", tag |-> Computed, rows |-> got[task.by[i].refs[1]].rows]
                     /\ got[task.by[i].refs[1]].rows \in Seq(Int)
<1> DEFINE items == task.by
           K == Fresh(items)
           fresh == Listed(K)
           at(i) == [state |-> "kept", tag |-> Computed, rows |-> got[items[i].refs[1]].rows]
           blocks == Results(items)
<1>1. K \subseteq 1 .. Len(items) /\ Len(items) \in Nat /\ \A i \in K : items[i].refs[1] \in All
  BY ProjectHands DEF Fresh
<1>2. \A i \in K : got[items[i].refs[1]].rows \in Seq(Int)
  BY <1>1, SoundRead
<1>3. \A i \in K : at(i) \in Blocks
  BY <1>2 DEF Blocks, Computed
<1>4. K \in SUBSET Int /\ IsFiniteSet(K)
  <2>1. IsFiniteSet(1 .. Len(items))
    BY <1>1, FS_Interval
  <2> HIDE DEF K
  <2>2. IsFiniteSet(K)
    BY <1>1, <2>1, FS_Subset
  <2> QED
    BY <1>1, <2>2
<1>5. blocks = [j \in DOMAIN fresh |-> at(fresh[j])]
  BY DEF Results
<1> HIDE DEF at, K
<1>6. /\ fresh \in Seq(K) /\ Len(fresh) = Cardinality(K)
      /\ \A i \in K : /\ Cardinality({k \in K : k <= i}) \in 1 .. Cardinality(K)
                      /\ fresh[Cardinality({k \in K : k <= i})] = i
  BY <1>4, ListedFacts
<1> HIDE DEF fresh, blocks
<1>7. Len(fresh) \in Nat /\ DOMAIN fresh = 1 .. Len(fresh) /\ \A j \in DOMAIN fresh : fresh[j] \in K
  BY <1>6, SeqFacts
<1>8. DOMAIN blocks = 1 .. Len(fresh) /\ blocks \in [1 .. Len(fresh) -> Blocks]
  BY <1>3, <1>5, <1>7
<1>9. blocks \in Seq(Blocks) /\ Len(blocks) = Len(fresh)
  BY <1>7, <1>8, IsSeq
<1>10. \A i \in K : Rank(items, i) \in 1 .. Len(blocks) /\ blocks[Rank(items, i)] = at(i)
  <2> SUFFICES ASSUME NEW i \in K PROVE Rank(items, i) \in 1 .. Len(blocks) /\ blocks[Rank(items, i)] = at(i)
    OBVIOUS
  <2>1. Rank(items, i) = Cardinality({k \in K : k <= i})
    BY DEF Rank, K
  <2>2. Rank(items, i) \in 1 .. Len(fresh) /\ fresh[Rank(items, i)] = i
    BY <1>6, <2>1
  <2> QED
    BY <1>5, <1>7, <1>9, <2>2
<1> QED
  BY <1>2, <1>9, <1>10 DEF blocks, at, K

\* A projection hands on references and what it computed.
LEMMA ComputeStays ==
    ASSUME Structure, Compute
    PROVE  Structure'
<1> DEFINE items == task.by
           blocks == Results(items)
           N == Len(items)
           at(i) == IF items[i].pass THEN relation[items[i].refs[1]]
                    ELSE IF Skipped(items[i]) THEN Empty
                    ELSE Column(Len(pool) + Rank(items, i), Len(blocks[Rank(items, i)].rows))
           means(i) == IF items[i].pass THEN wanted[items[i].refs[1]]
                       ELSE [tag |-> Computed, rows |-> wanted[items[i].refs[1]].rows]
<1>1. /\ pc = "read" /\ task.kind = "project" /\ pc' = "ready" /\ UNCHANGED <<got, moving, cte, built, sorted, dropped>>
      /\ pool' = pool \o blocks
      /\ relation' = [i \in DOMAIN items |-> at(i)]
      /\ wanted' = [i \in DOMAIN items |-> means(i)]
  BY DEF Compute, HasRead, Fresh, Rank, Results
<1>2. /\ DOMAIN items = 1 .. N /\ N \in Nat
      /\ \A i \in 1 .. N : /\ items[i].refs[1] \in All
                           /\ items[i].pass => items[i].refs[1] \in InHand
  BY <1>1, ProjectHands
<1>3. /\ pool \in Seq(Blocks) /\ Len(pool) \in Nat /\ DOMAIN pool = 1 .. Len(pool)
  BY SoundStores, SeqFacts
<1>4. /\ blocks \in Seq(Blocks)
      /\ \A i \in Fresh(items) :
            /\ Rank(items, i) \in 1 .. Len(blocks)
            /\ blocks[Rank(items, i)] = [state |-> "kept", tag |-> Computed, rows |-> got[items[i].refs[1]].rows]
            /\ got[items[i].refs[1]].rows \in Seq(Int)
  BY <1>1, ResultsFacts
<1> HIDE DEF blocks
<1>5. /\ Grows(pool, pool')
      /\ \A k \in 1 .. Len(blocks) : Len(pool) + k \in DOMAIN pool' /\ pool'[Len(pool) + k] = blocks[k]
  BY <1>1, <1>3, <1>4, MoreFacts
<1>6. GrowsOnly
  BY <1>1, <1>5 DEF GrowsOnly
<1> DEFINE handed(i) == items[i].pass /\ at(i) = relation[items[i].refs[1]]
<1>7. ASSUME NEW i \in 1 .. N, items[i].pass
      PROVE  /\ at(i) = relation[items[i].refs[1]] /\ at(i) \in Cols /\ at(i) \in Current
             /\ Sound(pool, at(i)) /\ Sound(pool', at(i)) /\ \A d \in Lent \cup Hashed : Mine(pool', at(i), d)
  <2>1. at(i) = relation[items[i].refs[1]] /\ items[i].refs[1] \in InHand
    BY <1>2, <1>7
  <2> HIDE DEF at
  <2>2. at(i) \in Cols /\ at(i) \in Current /\ Sound(pool, at(i)) /\ \A d \in Lent \cup Hashed : Mine(pool, at(i), d)
    BY <1>1, <2>1, SoundRead, SoundStores DEF All
  <2> QED
    BY <1>5, <2>1, <2>2, SoundGrows, MineGrows
<1>8. ASSUME NEW i \in 1 .. N, ~items[i].pass
      PROVE  at(i) \in Cols /\ Sound(pool', at(i)) /\ Settled(pool', at(i))
  <2>1. CASE Skipped(items[i])
    BY <1>8, <2>1, EmptyFacts
  <2>2. CASE ~Skipped(items[i])
    <3> DEFINE k == Rank(items, i)
               rows == got[items[i].refs[1]].rows
    <3>1. i \in Fresh(items)
      BY <1>2, <1>8, <2>2 DEF Fresh
    <3>2. k \in 1 .. Len(blocks) /\ blocks[k] = [state |-> "kept", tag |-> Computed, rows |-> rows] /\ rows \in Seq(Int)
      BY <1>4, <3>1
    <3>3. at(i) = Column(Len(pool) + k, Len(blocks[k].rows))
      BY <1>8, <2>2
    <3> HIDE DEF k, rows, at
    <3>4. blocks[k].rows = rows /\ Len(rows) \in Nat /\ Len(pool) + k \in Nat /\ Len(pool) + k # Null
      BY <1>3, <1>4, <3>2, SeqFacts DEF Null
    <3>5. /\ Len(pool) + k \in DOMAIN pool' /\ pool'[Len(pool) + k].state = "kept" /\ pool'[Len(pool) + k].tag # Ids
      BY <1>5, <3>2 DEF Computed, Ids
    <3> DEFINE b == Len(pool) + k
    <3> HIDE DEF b
    <3>6. at(i) = Column(b, Len(rows)) /\ b \in Nat /\ b \in DOMAIN pool' /\ pool'[b].state = "kept" /\ pool'[b].tag # Ids
      BY <3>3, <3>4, <3>5 DEF b
    <3>7. at(i) \in Cols /\ at(i).data = b /\ at(i).ids = Null /\ Sound(pool', at(i))
      BY <3>4, <3>6, ColumnFacts
    <3>8. Settled(pool', at(i))
      BY <3>6, <3>7 DEF Settled
    <3> QED
      BY <3>7, <3>8
  <2> QED
    BY <2>1, <2>2
<1> HIDE DEF at
<1>9. relation' \in Seq(Cols) /\ Len(relation') = N
      /\ \A c \in ToSet(relation') : \E i \in 1 .. N : c = at(i)
  <2>1. DOMAIN relation' = 1 .. N /\ relation' \in [1 .. N -> Cols]
    BY <1>1, <1>2, <1>7, <1>8
  <2>2. relation' \in Seq(Cols) /\ Len(relation') = N
    BY <1>2, <2>1, IsSeq
  <2>3. \A c \in ToSet(relation') : \E i \in DOMAIN relation' : c = relation'[i]
    BY <2>2, SeqFacts
  <2> QED
    BY <1>1, <2>1, <2>2, <2>3
<1>10. wanted' \in Seq(Wants) /\ Len(wanted') = N
  <2>1. \A i \in 1 .. N : means(i) \in Wants
    <3>1. \A i \in 1 .. N : wanted[items[i].refs[1]] \in Wants /\ wanted[items[i].refs[1]].rows \in Seq(Int)
      BY <1>1, <1>2, SoundRead
    <3> QED
      BY <3>1 DEF Wants, Computed
  <2> HIDE DEF means
  <2>2. DOMAIN wanted' = 1 .. N /\ wanted' \in [1 .. N -> Wants]
    BY <1>1, <1>2, <2>1
  <2> QED
    BY <1>2, <2>2, IsSeq
<1>11. \A c \in ToSet(relation') : Sound(pool', c) /\ \A d \in Lent \cup Hashed : Mine(pool', c, d)
  BY <1>7, <1>8, <1>9, SettledMine
<1>12. \A c \in ToSet(relation') : (c \in Current /\ Sound(pool, c)) \/ Settled(pool', c)
  BY <1>7, <1>8, <1>9
<1>13. Alike(pool', ToSet(relation'))
  <2> SUFFICES ASSUME NEW c \in ToSet(relation'), NEW d \in ToSet(relation'),
                      c.data = d.data, c.data # Null, pool'[c.data].state = "live"
               PROVE  c.ids = Null <=> d.ids = Null
    BY DEF Alike
  <2>1. c \in Current /\ d \in Current /\ Sound(pool, c)
    BY <1>12 DEF Settled
  <2>2. pool[c.data].state = "live"
    BY <1>5, <2>1 DEF Sound, SoundData, Grows
  <2>3. Alike(pool, Current)
    BY <1>1, SoundRead
  <2> QED
    BY <2>1, <2>2, <2>3 DEF Alike
<1> QED
  BY <1>1, <1>6, <1>9, <1>10, <1>11, <1>13, HandedStays

-----------------------------------------------------------------------------
(* A pipeline ends: its columns are lent, kept or dropped *)

\* A CTE locks the data of the columns it takes.
LEMMA CTESinkStays ==
    ASSUME Structure, CTESink
    PROVE  Structure'
<1> DEFINE at(i) == Column(relation[i].data, relation[i].len)
           cols == [i \in DOMAIN relation |-> at(i)]
<1>1. /\ pc = "ready" /\ Ends /\ UNCHANGED <<got, moving, built, sorted>>
      /\ cte' = [Nothing EXCEPT !.cols = cols, !.want = wanted]
      /\ pool' = Locked(pool, Lend(relation))
      /\ dropped' = (dropped \/ \E i \in DOMAIN relation : relation[i].ids # Null)
  BY DEF CTESink
<1>2. /\ Len(relation) \in Nat /\ DOMAIN relation = 1 .. Len(relation) /\ pool \in Seq(Blocks)
      /\ \A i \in DOMAIN relation : relation[i] \in Cols /\ Sound(pool, relation[i]) /\ relation[i] \in ToSet(relation)
      /\ wanted \in Seq(Wants) /\ Len(wanted) = Len(relation)
  BY <1>1, SoundStores, SoundReady
<1>3. /\ pool' \in Seq(Blocks) /\ Grows(pool, pool')
      /\ \A b \in Lend(relation) \cap DOMAIN pool : pool'[b].state # "live"
  BY <1>1, <1>2, LockedFacts
<1>4. ASSUME NEW i \in DOMAIN relation
      PROVE  at(i) \in Cols /\ Sound(pool', at(i)) /\ Settled(pool', at(i))
  <2>1. relation[i].data \in Nat /\ relation[i].len \in Nat /\ SoundData(pool, relation[i])
    BY <1>2 DEF Cols, Sound
  <2>2. SoundData(pool', relation[i])
    BY <1>3, <2>1, SoundGrows
  <2>3. at(i) \in Cols /\ at(i).data = relation[i].data /\ at(i).ids = Null /\ Sound(pool', at(i))
    BY <2>1, <2>2, ColumnFacts
  <2>4. relation[i].data \in Lend(relation)
    BY <1>2 DEF Lend
  <2>5. relation[i].data # Null => relation[i].data \in DOMAIN pool
    BY <2>1 DEF SoundData
  <2> HIDE DEF at
  <2>6. Settled(pool', at(i))
    BY <1>3, <2>3, <2>4, <2>5 DEF Settled
  <2> QED
    BY <2>3, <2>6
<1> HIDE DEF at
<1>5. cols \in Seq(Cols) /\ Len(cols) = Len(relation) /\ \A c \in ToSet(cols) : \E i \in DOMAIN relation : c = at(i)
  <2>1. DOMAIN cols = 1 .. Len(relation) /\ cols \in [1 .. Len(relation) -> Cols] /\ \A i \in 1 .. Len(relation) : cols[i] = at(i)
    BY <1>2, <1>4
  <2> HIDE DEF cols
  <2>2. cols \in Seq(Cols) /\ Len(cols) = Len(relation)
    BY <1>2, <2>1, IsSeq
  <2>3. \A c \in ToSet(cols) : \E i \in DOMAIN cols : c = cols[i]
    BY <2>2, SeqFacts
  <2> QED
    BY <1>2, <2>1, <2>2, <2>3
<1> HIDE DEF cols
<1>6. /\ cte' \in Stores /\ cte'.cols = cols /\ cte'.want = wanted /\ cte'.once = FALSE
  BY <1>1, <1>2, <1>5, EmptyFacts DEF Stores, Nothing
<1>7. Lent' = ToSet(cols) /\ Hashed' = Hashed /\ Kept' = Kept
  BY <1>1, <1>6 DEF Lent, Hashed, Kept
<1>8. \A c \in ToSet(cols) : Sound(pool', c) /\ Settled(pool', c)
  BY <1>4, <1>5
<1>9. StoresIn(pool', cte.once, Lent, Hashed, Kept)
  BY <1>3, StoresGrow DEF Structure, StoresSound
<1>10. StoresSound'
  <2>1. StoresIn(pool', FALSE, ToSet(cols), Hashed, Kept)
    BY <1>8, <1>9, SettledMine DEF StoresIn
  <2> QED
    BY <1>6, <1>7, <2>1 DEF StoresSound
<1>11. BaseIn(pool')
  BY <1>3, BaseGrows DEF Structure
<1>12. Typed'
  <2>1. dropped' \in BOOLEAN
    BY <1>1 DEF Structure, Typed
  <2>2. relation' = <<>> /\ wanted' = <<>> /\ pc' = "source"
    BY <1>1 DEF Ends
  <2> QED
    BY <1>1, <1>3, <1>6, <2>1, <2>2 DEF Structure, Typed
<1> QED
  BY <1>1, <1>2, <1>5, <1>6, <1>10, <1>11, <1>12, EndStays DEF Structure, Paired

\* A left delim join takes its columns as they are.
LEMMA CachedStays ==
    ASSUME Structure, Cached
    PROVE  Structure'
<1>1. /\ pc = "read" /\ task.kind = "delim" /\ Ends /\ UNCHANGED <<pool, got, moving, built, sorted, dropped>>
      /\ cte' = [Nothing EXCEPT !.cols = relation, !.want = wanted, !.once = TRUE]
  BY DEF Cached, HasRead
<1>2. relation \in Seq(Cols) /\ wanted \in Seq(Wants) /\ Len(wanted) = Len(relation)
  BY <1>1 DEF Structure, Typed, Paired
<1>3. cte' \in Stores /\ cte'.cols = relation /\ cte'.want = wanted /\ cte'.once = TRUE
  BY <1>1, <1>2, EmptyFacts DEF Stores, Nothing
<1>4. Lent' = ToSet(relation) /\ Hashed' = Hashed /\ Kept' = Kept
  BY <1>1, <1>3 DEF Lent, Hashed, Kept
<1>5. \A c \in ToSet(relation) : Sound(pool, c) /\ \A d \in Lent \cup Hashed : Mine(pool, c, d)
  <2>1. task.hands = All
    BY <1>1, SoundRead DEF Tasked
  <2> QED
    BY <1>1, <2>1, SoundRead, SoundStores DEF InHand, All
<1>6. StoresSound'
  <2>1. StoresIn(pool, TRUE, ToSet(relation), Hashed, Kept)
    BY <1>5 DEF Structure, StoresSound, StoresIn
  <2> QED
    BY <1>1, <1>3, <1>4, <2>1 DEF StoresSound
<1>7. Typed'
  <2>1. relation' = <<>> /\ wanted' = <<>> /\ pc' = "source"
    BY <1>1 DEF Ends
  <2> QED
    BY <1>1, <1>3, <2>1 DEF Structure, Typed
<1> QED
  BY <1>1, <1>2, <1>3, <1>6, <1>7, EndStays DEF Structure, Paired

\* The build side keeps its columns; a distinct aggregate may read them next.
LEMMA BuiltStays ==
    ASSUME Structure, Built
    PROVE  Structure'
<1> DEFINE key == got[task.by].col
           keyRows == wanted[task.by].rows
<1>1. /\ pc = "read" /\ task.kind = "build" /\ todo = <<>> /\ UNCHANGED <<pool, got, moving, cte, sorted, dropped>>
      /\ built' = [Nothing EXCEPT !.cols = relation, !.want = wanted, !.key = key, !.keyRows = keyRows]
      /\ IF task.distinct = <<>>
         THEN Ends
         ELSE /\ task' = [kind |-> "distinct", hands |-> DOMAIN relation, by |-> task.distinct]
              /\ todo' = task.distinct /\ UNCHANGED <<pc, relation, wanted>>
  BY DEF Built, HasRead
<1>2. task.hands = All /\ task.by \in All /\ task.distinct \in Seq(Nat) /\ ToSet(task.distinct) \subseteq All
  BY <1>1, SoundRead DEF Tasked, IsPart
<1>3. /\ relation \in Seq(Cols) /\ wanted \in Seq(Wants) /\ Len(wanted) = Len(relation)
      /\ key \in Cols /\ keyRows \in Seq(Int) /\ Sound(pool, key) /\ \A d \in Lent : Mine(pool, key, d)
  BY <1>1, <1>2, SoundRead DEF Structure, Typed
<1>4. \A c \in ToSet(relation) : Sound(pool, c) /\ \A d \in Lent : Mine(pool, c, d)
  BY <1>1, <1>2, SoundRead, SoundStores DEF InHand, All
<1> HIDE DEF key, keyRows
<1>5. built' \in Stores /\ built'.cols = relation /\ built'.want = wanted /\ built'.key = key
  BY <1>1, <1>3, EmptyFacts DEF Stores, Nothing
<1>6. Lent' = Lent /\ Hashed' = ToSet(relation) \cup {key} /\ Kept' = Kept
  BY <1>1, <1>5 DEF Lent, Hashed, Kept
<1>7. StoresSound'
  <2>1. \A c \in Lent : \A d \in ToSet(relation) \cup {key} : Mine(pool, c, d)
    BY <1>3, <1>4, MineBoth
  <2>2. StoresIn(pool, cte.once, Lent, ToSet(relation) \cup {key}, Kept)
    BY <1>3, <1>4, <2>1 DEF Structure, StoresSound, StoresIn
  <2> QED
    BY <1>1, <1>6, <2>2 DEF StoresSound
<1>8. BaseIn(pool')
  BY <1>1 DEF Structure
<1>9. CASE task.distinct = <<>>
  <2>1. Ends
    BY <1>1, <1>9
  <2>2. Typed'
    <3>1. relation' = <<>> /\ wanted' = <<>> /\ pc' = "source"
      BY <2>1 DEF Ends
    <3> QED
      BY <1>1, <1>5, <3>1 DEF Structure, Typed
  <2> QED
    BY <1>1, <1>3, <1>5, <1>7, <1>8, <2>1, <2>2, EndStays DEF Structure, Paired
<1>10. CASE task.distinct # <<>>
  <2>1. /\ task' = [kind |-> "distinct", hands |-> DOMAIN relation, by |-> task.distinct]
        /\ todo' = task.distinct /\ pc' = "read" /\ relation' = relation /\ wanted' = wanted
    BY <1>1, <1>10
  <2>2. Typed' /\ Paired'
    BY <1>1, <1>3, <1>5, <2>1 DEF Structure, Typed, Paired
  <2>3. All' = All /\ task'.kind = "distinct" /\ task'.hands = All
    BY <2>1 DEF All
  <2>4. Tasked'
    BY <2>3 DEF Tasked
  <2>5. Reading'
    <3>1. todo' \in Seq(All)
      BY <1>2, <2>1, RefsFacts
    <3> QED
      BY <1>1, <2>1, <2>3, <2>4, <3>1, SoundRead DEF Reading
  <2>6. Current' = {} /\ Composing' = {}
    BY <2>1, <2>3 DEF Current, Composing
  <2>7. CurrentSound' /\ SharedAlike' /\ ComposingSound'
    BY <2>1, <2>6 DEF CurrentSound, UseIn, SharedAlike, Alike, ComposingSound
  <2>8. DistinctIsStored'
    BY <1>6, <2>1, <2>3, SoundStores DEF DistinctIsStored, All
  <2> QED
    BY <1>7, <1>8, <2>2, <2>5, <2>7, <2>8 DEF Structure
<1> QED
  BY <1>9, <1>10

\* The distinct aggregate of a right delim join ends.
LEMMA DistinctStays ==
    ASSUME Structure, Distinct
    PROVE  Structure'
<1>1. Ends /\ UNCHANGED <<pool, got, moving, cte, built, sorted, dropped>>
  BY DEF Distinct
<1>2. Typed'
  <2>1. relation' = <<>> /\ wanted' = <<>> /\ pc' = "source"
    BY <1>1 DEF Ends
  <2> QED
    BY <1>1, <2>1 DEF Structure, Typed
<1>3. StoresSound'
  <2>1. Lent' = Lent /\ Hashed' = Hashed /\ Kept' = Kept
    BY <1>1 DEF Lent, Hashed, Kept
  <2> QED
    BY <1>1, <2>1 DEF Structure, StoresSound
<1> QED
  BY <1>1, <1>2, <1>3, EndStays DEF Structure, Paired

\* The query ends.
LEMMA CollectedStays ==
    ASSUME Structure, Collected
    PROVE  Structure'
<1>1. pc = "read" /\ task.kind = "collect" /\ pc' = "done"
      /\ UNCHANGED <<pool, relation, wanted, task, todo, got, moving, cte, built, sorted, dropped>>
  BY DEF Collected, HasRead
<1>2. Typed' /\ Paired' /\ BaseIn(pool')
  BY <1>1 DEF Structure, Typed, Paired
<1>3. Reading'
  <2>1. Tasked /\ All' = All
    BY <1>1, SoundRead DEF All
  <2>2. Tasked'
    BY <1>1, <2>1 DEF Tasked, IsPart
  <2> QED
    BY <1>1, <2>2 DEF Reading
<1>4. Lent' = Lent /\ Hashed' = Hashed /\ Kept' = Kept /\ Current' = {} /\ Composing' = {}
  BY <1>1 DEF Lent, Hashed, Kept, Current, Composing
<1>5. StoresSound' /\ CurrentSound'
  BY <1>1, <1>4 DEF Structure, StoresSound, CurrentSound, UseIn
<1>6. DistinctIsStored' /\ SharedAlike' /\ ComposingSound'
  BY <1>1 DEF DistinctIsStored, SharedAlike, ComposingSound
<1> QED
  BY <1>2, <1>3, <1>5, <1>6 DEF Structure

\* The columns of a sort are there.
LEMMA SortHas ==
    ASSUME Structure, pc = "read", task.kind = "sort"
    PROVE  /\ task.by.cols \in Seq(Nat) /\ task.by.n \in Nat /\ task.by.offset \in Nat /\ task.by.key \in All
           /\ Len(task.by.cols) \in Nat /\ DOMAIN task.by.cols = 1 .. Len(task.by.cols)
           /\ \A i \in 1 .. Len(task.by.cols) : task.by.cols[i] \in All
<1>1. task.by \in Sorts /\ ToSet(task.by.cols) \cup {task.by.key} \subseteq All
  BY SoundRead DEF Tasked
<1>2. task.by.cols \in Seq(Nat) /\ task.by.n \in Nat /\ task.by.offset \in Nat
  BY <1>1, LateMaterializationAssumption
<1> QED
  BY <1>1, <1>2, SeqFacts

\* A sort stores its result in new blocks.
LEMMA SortedStays ==
    ASSUME Structure, Sorted
    PROVE  Structure'
<1> DEFINE s == task.by
           n == Len(s.cols)
           order == Slice(Order(Denotes(pool, got[s.key].col)), s.n, s.offset)
           meant == Slice(Order(wanted[s.key].rows), s.n, s.offset)
           state == IF s.offset > 0 THEN "inner" ELSE "kept"
           block(i) == [state |-> state, tag |-> got[s.cols[i]].tag,
                        rows |-> Pick(Denotes(pool, got[s.cols[i]].col), order)]
           blocks == [i \in DOMAIN s.cols |-> block(i)]
           at(i) == IF order = <<>> THEN Empty ELSE Column(Len(pool) + i, Len(order))
           cols == [i \in DOMAIN s.cols |-> at(i)]
           means(i) == Narrow(wanted, meant)[s.cols[i]]
           want == [i \in DOMAIN s.cols |-> means(i)]
<1>1. /\ pc = "read" /\ task.kind = "sort" /\ Ends /\ UNCHANGED <<got, moving, cte, built, dropped>>
      /\ pool' = pool \o blocks
      /\ sorted' = [Nothing EXCEPT !.cols = cols, !.want = want]
  BY DEF Sorted, HasRead
<1>2. /\ n \in Nat /\ DOMAIN s.cols = 1 .. n /\ \A i \in 1 .. n : s.cols[i] \in All
      /\ s.n \in Nat /\ s.offset \in Nat /\ s.key \in All
  BY <1>1, SortHas
<1> HIDE DEF n
<1>3. /\ pool \in Seq(Blocks) /\ Len(pool) \in Nat /\ DOMAIN pool = 1 .. Len(pool)
  BY SoundStores, SeqFacts
<1>4. \A i \in All : /\ Denotes(pool, got[i].col) \in Seq(Int) /\ got[i].tag \in Int /\ got[i].tag # Ids
                     /\ wanted[i].rows \in Seq(Int)
  BY <1>1, <1>3, SoundRead, DenotesFacts
<1>5. \E T : order \in Seq(T)
  <2> DEFINE key == Denotes(pool, got[s.key].col)
  <2>1. key \in Seq(Int)
    BY <1>2, <1>4
  <2> HIDE DEF key
  <2>2. Order(key) \in Seq(Placed(key))
    BY <2>1, OrderFacts
  <2>3. Slice(Order(key), s.n, s.offset) \in Seq(Placed(key))
    BY <1>2, <2>2, PageFacts
  <2> QED
    BY <2>3 DEF key
<1>6. \E T : meant \in Seq(T)
  <2> DEFINE key == wanted[s.key].rows
  <2>1. key \in Seq(Int)
    BY <1>2, <1>4
  <2> HIDE DEF key
  <2>2. Order(key) \in Seq(Placed(key))
    BY <2>1, OrderFacts
  <2>3. Slice(Order(key), s.n, s.offset) \in Seq(Placed(key))
    BY <1>2, <2>2, PageFacts
  <2> QED
    BY <2>3 DEF key
<1> HIDE DEF order, meant
<1>7. Len(order) \in Nat
  BY <1>5, SeqFacts
<1>8. ASSUME NEW i \in 1 .. n
      PROVE  block(i) \in Blocks /\ block(i).state # "live" /\ block(i).state # "free" /\ block(i).tag # Ids
  <2>1. Pick(Denotes(pool, got[s.cols[i]].col), order) \in Seq(Int)
    BY <1>2, <1>4, <1>5, PickFacts
  <2> QED
    BY <1>2, <1>4, <2>1 DEF Blocks
<1> HIDE DEF block
<1>9. blocks \in Seq(Blocks) /\ Len(blocks) = n /\ \A i \in 1 .. n : blocks[i] = block(i)
  <2>1. DOMAIN blocks = 1 .. n /\ blocks \in [1 .. n -> Blocks] /\ \A i \in 1 .. n : blocks[i] = block(i)
    BY <1>2, <1>8
  <2> HIDE DEF blocks
  <2> QED
    BY <1>2, <2>1, IsSeq
<1> HIDE DEF blocks
<1>10. /\ pool' \in Seq(Blocks) /\ Grows(pool, pool')
       /\ \A i \in 1 .. n : Len(pool) + i \in DOMAIN pool' /\ pool'[Len(pool) + i] = block(i)
  BY <1>1, <1>3, <1>9, MoreFacts
<1>11. ASSUME NEW i \in 1 .. n
       PROVE  at(i) \in Cols /\ Sound(pool', at(i)) /\ Settled(pool', at(i))
  <2>1. CASE order = <<>>
    BY <2>1, EmptyFacts
  <2>2. CASE order # <<>>
    <3> DEFINE b == Len(pool) + i
    <3>1. b \in Nat /\ b # Null /\ b \in DOMAIN pool' /\ pool'[b] = block(i)
      BY <1>2, <1>3, <1>10 DEF Null
    <3>2. at(i) = Column(b, Len(order))
      BY <2>2
    <3> HIDE DEF b, at
    <3>3. pool'[b].state # "live" /\ pool'[b].state # "free" /\ pool'[b].tag # Ids
      BY <1>8, <3>1
    <3>4. at(i) \in Cols /\ at(i).data = b /\ at(i).ids = Null /\ Sound(pool', at(i))
      BY <1>7, <3>1, <3>2, <3>3, ColumnFacts
    <3>5. Settled(pool', at(i))
      BY <3>3, <3>4 DEF Settled
    <3> QED
      BY <3>4, <3>5
  <2> QED
    BY <2>1, <2>2
<1> HIDE DEF at
<1>12. cols \in Seq(Cols) /\ Len(cols) = n /\ \A c \in ToSet(cols) : \E i \in 1 .. n : c = at(i)
  <2>1. DOMAIN cols = 1 .. n /\ cols \in [1 .. n -> Cols] /\ \A i \in 1 .. n : cols[i] = at(i)
    BY <1>2, <1>11
  <2> HIDE DEF cols
  <2>2. cols \in Seq(Cols) /\ Len(cols) = n
    BY <1>2, <2>1, IsSeq
  <2>3. \A c \in ToSet(cols) : \E i \in DOMAIN cols : c = cols[i]
    BY <2>2, SeqFacts
  <2> QED
    BY <2>1, <2>2, <2>3
<1>13. want \in Seq(Wants) /\ Len(want) = n
  <2>1. \A i \in 1 .. n : means(i) \in Wants
    <3>1. Narrow(wanted, meant) \in Seq(Wants) /\ Len(Narrow(wanted, meant)) = Len(relation) /\ All = 1 .. Len(relation)
      BY <1>1, <1>6, SoundRead, NarrowFacts
    <3> DEFINE w == Narrow(wanted, meant)
    <3> HIDE DEF w
    <3>2. \A i \in All : w[i] \in Wants
      BY <3>1, SeqFacts DEF w
    <3> QED
      BY <1>2, <3>2 DEF w
  <2> HIDE DEF means
  <2>2. DOMAIN want = 1 .. n /\ want \in [1 .. n -> Wants]
    BY <1>2, <2>1
  <2> HIDE DEF want
  <2> QED
    BY <1>2, <2>2, IsSeq
<1> HIDE DEF cols, want
<1>14. sorted' \in Stores /\ sorted'.cols = cols /\ sorted'.want = want
  BY <1>1, <1>12, <1>13, EmptyFacts DEF Stores, Nothing
<1>15. Lent' = Lent /\ Hashed' = Hashed /\ Kept' = ToSet(cols)
  BY <1>1, <1>14 DEF Lent, Hashed, Kept
<1>16. StoresSound'
  <2>1. StoresIn(pool', cte.once, Lent, Hashed, Kept)
    BY <1>10, StoresGrow DEF Structure, StoresSound
  <2>2. StoresIn(pool', cte.once, Lent, Hashed, ToSet(cols))
    BY <1>11, <1>12, <2>1 DEF StoresIn
  <2> QED
    BY <1>1, <1>15, <2>2 DEF StoresSound
<1>17. BaseIn(pool')
  BY <1>10, BaseGrows DEF Structure
<1>18. Typed'
  <2>1. relation' = <<>> /\ wanted' = <<>> /\ pc' = "source"
    BY <1>1 DEF Ends
  <2> QED
    BY <1>1, <1>10, <1>14, <2>1 DEF Structure, Typed
<1> QED
  BY <1>1, <1>12, <1>13, <1>14, <1>16, <1>17, <1>18, EndStays DEF Structure, Paired

-----------------------------------------------------------------------------
(* Every step *)

\* Every step keeps the blocks apart unless it rereads.
LEMMA NextStays ==
    ASSUME Structure, Next, ~reread'
    PROVE  Structure' /\ (pc' = "thrown" => pc = "thrown" \/ \E b \in DOMAIN pool' : pool'[b].state = "inner")
<1>1. CASE \E s \in Scans : TableScan(s)
  BY <1>1, TableScanStays DEF TableScan, Starts
<1>2. CASE CTEScan
  BY <1>2, CTEScanStays DEF CTEScan, Starts
<1>3. CASE SortScan
  BY <1>3, SortScanStays DEF SortScan, Starts
<1>4. CASE Materialise
  BY <1>4, MaterialiseStays
<1>5. CASE Compose
  BY <1>5, ComposeStays, ComposeCases
<1>6. CASE Composed
  BY <1>6, ComposedStays DEF Composed
<1>7. CASE \E f \in Filters : Filter(f)
  <2>1. PICK f \in Filters : Filter(f)
    BY <1>7
  <2> QED
    BY <2>1, FilterReads, FilterEmptyStays DEF Filter, Begin
<1>8. CASE Select
  BY <1>8, SelectStays DEF Select, Narrowing
<1>9. CASE \E items \in Projections : Project(items)
  BY <1>9, ProjectStays DEF Project, Begin
<1>10. CASE Compute
  BY <1>10, ComputeStays DEF Compute
<1>11. CASE \E l \in Limits : Limit(l)
  BY <1>11, LimitStays DEF Limit, Begin
<1>12. CASE Limited
  BY <1>12, LimitedStays DEF Limited
<1>13. CASE \E key \in DOMAIN relation : Probe(key)
  BY <1>13, ProbeStays DEF Probe, Begin
<1>14. CASE \E key \in DOMAIN relation : \E refs \in Aggregates \cup {<<>>} : Build(key, refs)
  BY <1>14, BuildStays DEF Build, Begin
<1>15. CASE Join
  BY <1>15, JoinStays DEF Join, Narrowing
<1>16. CASE Built
  BY <1>16, BuiltStays DEF Built, HasRead, Ends
<1>17. CASE Distinct
  BY <1>17, DistinctStays DEF Distinct, Ends
<1>18. CASE CTESink
  BY <1>18, CTESinkStays DEF CTESink, Ends
<1>19. CASE \E refs \in Aggregates : DelimSink(refs)
  BY <1>19, DelimSinkStays DEF DelimSink, Begin
<1>20. CASE Cached
  BY <1>20, CachedStays DEF Cached, Ends
<1>21. CASE \E s \in Sorts : Sort(s)
  BY <1>21, SortStays DEF Sort, Begin
<1>22. CASE Sorted
  BY <1>22, SortedStays DEF Sorted, Ends
<1>23. CASE \E refs \in Aggregates \cup {[i \in DOMAIN relation |-> i]} : Collect("collect", refs)
  BY <1>23, CollectStays DEF Collect, Begin
<1>24. CASE Collected
  BY <1>24, CollectedStays DEF Collected
<1>25. CASE \E key \in DOMAIN relation : Probe(key) \/ \E refs \in Aggregates \cup {<<>>} : Build(key, refs)
  BY <1>13, <1>14, <1>25
<1> QED
  BY <1>1, <1>2, <1>3, <1>4, <1>5, <1>6, <1>7, <1>8, <1>9, <1>10, <1>11, <1>12, <1>15, <1>16, <1>17, <1>18,
     <1>19, <1>20, <1>21, <1>22, <1>23, <1>24, <1>25 DEF Next

\* A query that threw does not go on, and reread stays.
LEMMA NextRuns ==
    ASSUME Next
    PROVE  pc # "thrown" /\ (reread => reread')
<1>1. CASE \E s \in Scans : TableScan(s)
  BY <1>1 DEF TableScan, Starts
<1>2. CASE CTEScan \/ SortScan
  BY <1>2 DEF CTEScan, SortScan, Starts
<1>3. CASE Materialise
  <2>1. pc = "read"
    BY <1>3 DEF Materialise
  <2>2. reread' = reread \/ \E b : reread' = (reread \/ b)
    <3>1. CASE UNCHANGED reread
      BY <3>1
    <3>2. CASE reread' = (reread \/ (pool[relation[Head(todo)].data].state # "kept" /\ relation[Head(todo)].data \in InUse(relation')))
      <4> DEFINE b == pool[relation[Head(todo)].data].state # "kept" /\ relation[Head(todo)].data \in InUse(relation')
      <4>1. reread' = (reread \/ b)
        BY <3>2
      <4> HIDE DEF b
      <4> QED
        BY <4>1, Zenon
    <3>3. UNCHANGED reread \/ reread' = (reread \/ (pool[relation[Head(todo)].data].state # "kept" /\ relation[Head(todo)].data \in InUse(relation')))
      BY <1>3, Zenon DEF Materialise
    <3> QED
      BY <3>1, <3>2, <3>3
  <2>3. reread => reread'
    BY <2>2, Zenon
  <2> QED
    BY <2>1, <2>3
<1>4. CASE Compose \/ Composed
  BY <1>4 DEF Compose, Composed
<1>5. CASE \E f \in Filters : Filter(f)
  BY <1>5 DEF Filter, Begin
<1>6. CASE Select \/ Compute \/ Limited \/ Join
  <2>1. pc = "read" /\ UNCHANGED reread
    BY <1>6, Zenon DEF Select, Compute, Limited, Join, HasRead
  <2> QED
    BY <2>1, Zenon
<1>7. CASE (\E items \in Projections : Project(items)) \/ \E l \in Limits : Limit(l)
  <2>1. pc = "ready" /\ UNCHANGED reread
    BY <1>7, Zenon DEF Project, Limit, Begin
  <2> QED
    BY <2>1, Zenon
<1>8. CASE \E key \in DOMAIN relation : Probe(key) \/ \E refs \in Aggregates \cup {<<>>} : Build(key, refs)
  BY <1>8 DEF Probe, Build, Begin
<1>9. CASE Built \/ Distinct \/ CTESink \/ Cached \/ Sorted \/ Collected
  <2>1. (pc = "read" \/ pc = "ready") /\ UNCHANGED reread
    BY <1>9, Zenon DEF Built, Distinct, CTESink, Cached, Sorted, Collected, HasRead
  <2> QED
    BY <2>1, Zenon
<1>10. CASE (\E refs \in Aggregates : DelimSink(refs)) \/ \E s \in Sorts : Sort(s)
  BY <1>10 DEF DelimSink, Sort, Begin
<1>11. CASE \E refs \in Aggregates \cup {[i \in DOMAIN relation |-> i]} : Collect("collect", refs)
  BY <1>11 DEF Collect, Begin
<1> QED
  BY <1>1, <1>2, <1>3, <1>4, <1>5, <1>6, <1>7, <1>8, <1>9, <1>10, <1>11 DEF Next

-----------------------------------------------------------------------------
(* The theorems *)

BlocksInv == reread \/ (Structure /\ (pc = "thrown" => \E a \in DOMAIN pool : pool[a].state = "inner"))

\* The invariant is inductive.
LEMMA BlocksInvStays ==
    ASSUME BlocksInv, [Next]_vars
    PROVE  BlocksInv'
<1>1. CASE Next
  <2>1. CASE reread'
    BY <2>1 DEF BlocksInv
  <2>2. CASE ~reread'
    <3>1. pc # "thrown" /\ ~reread
      BY <1>1, <2>2, NextRuns
    <3>2. Structure
      BY <3>1 DEF BlocksInv
    <3> QED
      BY <1>1, <2>2, <3>1, <3>2, NextStays DEF BlocksInv
  <2> QED
    BY <2>1, <2>2
<1>2. CASE UNCHANGED vars
  <2>1. UNCHANGED <<pool, relation, wanted, pc, task, todo, got, moving, cte, built, sorted, reread, dropped>>
    BY <1>2 DEF vars
  <2>2. Lent' = Lent /\ Hashed' = Hashed /\ Kept' = Kept /\ All' = All /\ InHand' = InHand
    BY <2>1 DEF Lent, Hashed, Kept, All, InHand
  <2>3. Current' = Current /\ Composing' = Composing
    BY <2>1, <2>2 DEF Current, Composing
  <2>4. Typed' = Typed /\ Paired' = Paired /\ BaseIn(pool') = BaseIn(pool)
    BY <2>1 DEF Typed, Paired
  <2>5. Tasked' = Tasked
    BY <2>1, <2>2 DEF Tasked, IsPart
  <2>6. Reading' = Reading
    BY <2>1, <2>2, <2>5 DEF Reading
  <2>7. /\ StoresSound' = StoresSound /\ CurrentSound' = CurrentSound /\ DistinctIsStored' = DistinctIsStored
        /\ SharedAlike' = SharedAlike /\ ComposingSound' = ComposingSound
    BY <2>1, <2>2, <2>3 DEF StoresSound, CurrentSound, DistinctIsStored, SharedAlike, ComposingSound
  <2>8. Structure' = Structure
    BY <2>1, <2>4, <2>6, <2>7 DEF Structure
  <2> QED
    BY <2>1, <2>8 DEF BlocksInv
<1> QED
  BY <1>1, <1>2

(***************************************************************************)
(* Every column the operators or a store still use points into a block     *)
(* that has not been freed, and what selects its rows is a block of row    *)
(* ids: until HandleMaterializeExpression frees a block that another       *)
(* column in use is in, whatever the plan and the reuse of addresses.      *)
(***************************************************************************)
THEOREM ColumnsInUseAreAllocated == Spec => [](~reread => Structure)
<1>1. Init => BlocksInv
  BY StructureFirst DEF BlocksInv, Init
<1>2. BlocksInv /\ [Next]_vars => BlocksInv'
  BY BlocksInvStays
<1>3. BlocksInv => (~reread => Structure)
  BY DEF BlocksInv
<1> QED
  BY <1>1, <1>2, <1>3, PTL DEF Spec

(***************************************************************************)
(* customCudaFree throws "Pointer not found in allocation table" only      *)
(* after a block was freed under a column in use, or for a column of a     *)
(* sort result that points into the middle of its block: composing row ids *)
(* that several columns share never frees them twice.                      *)
(***************************************************************************)
THEOREM FreesAreKnown == Spec => []NoStrayFree
<1>1. Init => BlocksInv
  BY StructureFirst DEF BlocksInv, Init
<1>2. BlocksInv /\ [Next]_vars => BlocksInv'
  BY BlocksInvStays
<1>3. BlocksInv => NoStrayFree
  BY DEF BlocksInv, NoStrayFree
<1> QED
  BY <1>1, <1>2, <1>3, PTL DEF Spec
=============================================================================
