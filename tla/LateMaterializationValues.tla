--------------------- MODULE LateMaterializationValues ---------------------
(***************************************************************************)
(* Proofs about LateMaterialization: what the columns stand for.           *)
(*                                                                         *)
(* LateMaterializationProofs shows that the blocks of columns in use are   *)
(* not freed; here each such column is shown to stand for the column of    *)
(* the plan in its place, through selections, the composition of row ids,  *)
(* projections, limits, sorts and joins.                                   *)
(***************************************************************************)
EXTENDS LateMaterializationProofs

-----------------------------------------------------------------------------
(* The invariant *)

Uniform(want) == \A i, j \in DOMAIN want : Len(want[i].rows) = Len(want[j].rows)
Fitting(c) == c.data # Null /\ c.ids # Null /\ c.count > 0 => c.len > 0
Right(p, c, w) ==
    /\ Denotes(p, c) = w.rows
    /\ w.rows # <<>> => p[c.data].tag = w.tag
    /\ Fitting(c)
AllRight(p, cols, want) == Uniform(want) /\ \A i \in DOMAIN cols : Right(p, cols[i], want[i])

StoresRight ==
    /\ AllRight(pool, cte.cols, cte.want)
    /\ AllRight(pool, built.cols, built.want)
    /\ AllRight(pool, sorted.cols, sorted.want)
    /\ Denotes(pool, built.key) = built.keyRows
    /\ \A i \in DOMAIN built.want : Len(built.want[i].rows) = Len(built.keyRows)

ReadyRight == pc = "ready" => AllRight(pool, relation, wanted)

\* What the operator in hand takes from the columns it has read.
Computes(i) == ~task.by[i].pass /\ ~Skipped(task.by[i])
Needed ==
    CASE task.kind = "filter"  -> {task.by.refs[1]}
      [] task.kind = "project" -> {task.by[i].refs[1] : i \in {j \in DOMAIN task.by : Computes(j)}}
      [] task.kind = "limit"   -> All
      [] task.kind = "probe"   -> {task.by}
      [] task.kind = "build"   -> {task.by}
      [] task.kind = "sort"    -> ToSet(task.by.cols) \cup {task.by.key}
      [] task.kind = "collect" -> ToSet(task.by)
      [] OTHER -> {}

GotRight(p, g, w) ==
    /\ Right(p, g.col, w)
    /\ g.rows = w.rows /\ (w.rows # <<>> => g.tag = w.tag)
    /\ g.col.len >= Len(w.rows)

ReadRight ==
    pc = "read" /\ task.kind # "distinct" =>
        /\ Uniform(wanted)
        /\ \A j \in InHand : Right(pool, relation[j], wanted[j])
        /\ \A i \in Needed : i \in ToSet(todo) \/ GotRight(pool, got[i], wanted[i])
        /\ task.kind = "project" => \A i \in DOMAIN task.by :
               ~task.by[i].pass /\ Skipped(task.by[i]) => wanted[task.by[i].refs[1]].rows = <<>>

\* A column that is still to be narrowed to the rows `at` selects.
NarrowsTo(p, c, at, w) ==
    /\ Pick(Denotes(p, c), p[at].rows) = w.rows
    /\ c.data # Null => p[c.data].tag = w.tag
    /\ \A k \in DOMAIN p[at].rows : p[at].rows[k] \in 1 .. Len(Denotes(p, c))
    /\ Fitting(c)

\* A column with new row ids.
WithIds(c, ids, n) == [c EXCEPT !.ids = ids, !.count = n]

StillRight(p, mv, c, w) ==
    IF c.ids \in DOMAIN mv.moved THEN Right(p, WithIds(c, mv.moved[c.ids], Len(p[mv.at].rows)), w)
    ELSE NarrowsTo(p, c, mv.at, w)

ComposeRight ==
    pc = "compose" =>
        /\ Uniform(wanted) /\ Null \notin DOMAIN moving.moved
        /\ pool[moving.at].rows # <<>> /\ (moving.right # <<>> => pool[moving.rightAt].rows # <<>>)
        /\ \A i \in DOMAIN moving.out : Right(pool, moving.out[i], wanted[i])
        /\ \A k \in DOMAIN moving.from : StillRight(pool, moving, moving.from[k], wanted[Len(moving.out) + k])
        /\ \A k \in DOMAIN moving.right :
               NarrowsTo(pool, moving.right[k], moving.rightAt,
                         wanted[Len(moving.out) + Len(moving.from) + k])

Values == StoresRight /\ ReadyRight /\ ReadRight /\ ComposeRight /\ AnswerIsWanted

-----------------------------------------------------------------------------
(* Steps that leave what columns in use stand for *)

Same(p, q) ==
    /\ p \in Seq(Blocks) /\ q \in Seq(Blocks)
    /\ \A b \in DOMAIN p : p[b].state # "free" =>
          b \in DOMAIN q /\ q[b].tag = p[b].tag /\ q[b].rows = p[b].rows

\* Allocating and locking change no value.
LEMMA SameGrows ==
    ASSUME NEW p, NEW q, Grows(p, q)
    PROVE  Same(p, q)
  BY GrowsFacts DEF Grows, Same

\* Freeing changes no value; it is reuse that does.
LEMMA SameFreed ==
    ASSUME NEW p, NEW q, Same(p, q), NEW a \in DOMAIN q
    PROVE  Same(p, Freed(q, a))
<1>1. q \in Seq(Blocks) /\ p \in Seq(Blocks)
  BY DEF Same
<1>2. /\ Freed(q, a) \in Seq(Blocks) /\ DOMAIN Freed(q, a) = DOMAIN q
      /\ \A b \in DOMAIN q : Freed(q, a)[b].tag = q[b].tag /\ Freed(q, a)[b].rows = q[b].rows
  BY <1>1, FreedFacts
<1> QED
  BY <1>1, <1>2 DEF Same

\* A sound column stands for the same values.
LEMMA SameValue ==
    ASSUME NEW p, NEW q, Same(p, q), NEW c, Sound(p, c)
    PROVE  /\ Denotes(q, c) = Denotes(p, c)
           /\ c.data # Null => q[c.data].tag = p[c.data].tag /\ q[c.data].rows = p[c.data].rows
           /\ c.ids # Null => q[c.ids].rows = p[c.ids].rows
<1>1. c.data # Null => q[c.data].tag = p[c.data].tag /\ q[c.data].rows = p[c.data].rows
  BY DEF Same, Sound, SoundData
<1>2. c.ids # Null => q[c.ids].rows = p[c.ids].rows
  BY DEF Same, Sound, SoundIds
<1>3. Denotes(q, c) = Denotes(p, c)
  BY <1>1, <1>2 DEF Denotes
<1> QED
  BY <1>1, <1>2, <1>3

\* A column that stands for something points to data.
LEMMA SomeData ==
    ASSUME NEW p, NEW c, Denotes(p, c) # <<>>
    PROVE  c.data # Null
  BY DEF Denotes

\* A right column stays right while the values of the blocks in use stay.
LEMMA RightSame ==
    ASSUME NEW p, NEW q, Same(p, q), NEW c, Sound(p, c), NEW w, Right(p, c, w)
    PROVE  Right(q, c, w)
<1>1. Denotes(q, c) = Denotes(p, c) /\ (c.data # Null => q[c.data].tag = p[c.data].tag)
  BY SameValue
<1>2. w.rows # <<>> => c.data # Null
  BY SomeData DEF Right
<1> QED
  BY <1>1, <1>2 DEF Right

\* So do all the columns of a relation.
LEMMA AllRightSame ==
    ASSUME NEW p, NEW q, Same(p, q), NEW cols, NEW want, \A i \in DOMAIN cols : Sound(p, cols[i]), AllRight(p, cols, want)
    PROVE  AllRight(q, cols, want)
<1>1. \A i \in DOMAIN cols : Right(q, cols[i], want[i])
  BY RightSame DEF AllRight
<1> QED
  BY <1>1 DEF AllRight

\* An empty column is right where the plan means nothing, and an empty store is right.
LEMMA EmptyRight ==
    /\ \A p, w : w.rows = <<>> => Right(p, Empty, w)
    /\ \A p : AllRight(p, Nothing.cols, Nothing.want)
<1>1. \A p, w : w.rows = <<>> => Right(p, Empty, w)
  BY EmptyFacts DEF Right, Fitting
<1>2. DOMAIN Nothing.cols = {} /\ DOMAIN Nothing.want = {}
  BY EmptyFacts
<1> QED
  BY <1>1, <1>2 DEF AllRight, Uniform

\* The stores after a step that changes no value and puts nothing in them.
LEMMA StoresRightSame ==
    ASSUME Structure, StoresRight, Same(pool, pool')
    PROVE  /\ AllRight(pool', cte.cols, cte.want) /\ AllRight(pool', built.cols, built.want)
           /\ AllRight(pool', sorted.cols, sorted.want)
           /\ Denotes(pool', built.key) = built.keyRows
<1>1. /\ \A i \in DOMAIN cte.cols : Sound(pool, cte.cols[i])
      /\ \A i \in DOMAIN built.cols : Sound(pool, built.cols[i])
      /\ \A i \in DOMAIN sorted.cols : Sound(pool, sorted.cols[i])
      /\ Sound(pool, built.key)
  <2>1. cte \in Stores /\ built \in Stores /\ sorted \in Stores
    BY DEF Structure, Typed
  <2>2. /\ \A i \in DOMAIN cte.cols : cte.cols[i] \in Lent
        /\ \A i \in DOMAIN built.cols : built.cols[i] \in Hashed
        /\ \A i \in DOMAIN sorted.cols : sorted.cols[i] \in Kept
        /\ built.key \in Hashed
    BY <2>1, StoreFacts DEF Lent, Hashed, Kept
  <2> QED
    BY <2>2, SoundStores
<1>2. /\ AllRight(pool, cte.cols, cte.want) /\ AllRight(pool, built.cols, built.want)
      /\ AllRight(pool, sorted.cols, sorted.want) /\ Denotes(pool, built.key) = built.keyRows
  BY DEF StoresRight
<1>3. AllRight(pool', cte.cols, cte.want)
  BY <1>1, <1>2, AllRightSame
<1>4. AllRight(pool', built.cols, built.want)
  BY <1>1, <1>2, AllRightSame
<1>5. AllRight(pool', sorted.cols, sorted.want)
  BY <1>1, <1>2, AllRightSame
<1>6. Denotes(pool', built.key) = built.keyRows
  BY <1>1, <1>2, SameValue
<1> QED
  BY <1>3, <1>4, <1>5, <1>6

\* The stores stay right in a step that keeps or clears each of them and changes no value in use.
LEMMA StoresRightStay ==
    ASSUME Structure, StoresRight, Same(pool, pool'),
           cte' = cte \/ cte' = Nothing, built' = built \/ built' = Nothing, sorted' = sorted \/ sorted' = Nothing
    PROVE  StoresRight'
<1>1. /\ AllRight(pool', cte.cols, cte.want) /\ AllRight(pool', built.cols, built.want)
      /\ AllRight(pool', sorted.cols, sorted.want)
      /\ Denotes(pool', built.key) = built.keyRows
  BY StoresRightSame
<1>2. AllRight(pool', cte'.cols, cte'.want)
  BY <1>1, EmptyRight
<1>3. AllRight(pool', sorted'.cols, sorted'.want)
  BY <1>1, EmptyRight
<1>4. CASE built' = built
  BY <1>1, <1>2, <1>3, <1>4 DEF StoresRight
<1>5. CASE built' = Nothing
  <2>1. AllRight(pool', built'.cols, built'.want)
    BY <1>5, EmptyRight
  <2>2. Denotes(pool', built'.key) = built'.keyRows /\ DOMAIN built'.want = {}
    BY <1>5, EmptyFacts
  <2> QED
    BY <1>2, <1>3, <2>1, <2>2 DEF StoresRight
<1> QED
  BY <1>4, <1>5

\* What is left to show of a step that ends with no operator in hand.
LEMMA OtherValues ==
    ASSUME StoresRight', pc' \notin {"read", "compose", "done"}, ReadyRight'
    PROVE  Values'
  BY DEF Values, ReadRight, ComposeRight, AnswerIsWanted

\* Nothing is meant by an empty relation.
LEMMA NothingMeant ==
    ASSUME NEW n \in Nat, NEW cols, cols = [i \in 1 .. n |-> Empty], NEW want, DOMAIN want = 1 .. n,
           \A i \in 1 .. n : want[i].rows = <<>>, NEW p
    PROVE  AllRight(p, cols, want)
<1>1. \A i \in 1 .. n : Right(p, cols[i], want[i])
  BY EmptyRight
<1>2. Uniform(want)
  BY DEF Uniform
<1> QED
  BY <1>1, <1>2 DEF AllRight

-----------------------------------------------------------------------------
(* Sources *)

\* The numbers up to n, listed.
LEMMA ListedAll ==
    ASSUME NEW n \in Nat
    PROVE  Listed(1 .. n) = [r \in 1 .. n |-> r]
<1> DEFINE K == 1 .. n
<1> DEFINE base == [r \in 1 .. n |-> r]
<1>1. K \in SUBSET Int /\ IsFiniteSet(K) /\ Cardinality(K) = n
  BY FS_Interval
<1>2. Listed(K) \in Seq(K) /\ Len(Listed(K)) = Cardinality(K)
  BY <1>1, ListedFacts
<1>3. \A i \in K : Listed(K)[i] = i
  <2> TAKE i \in K
  <2>1. Listed(K)[Cardinality({k \in K : k <= i})] = i
    BY <1>1, ListedFacts
  <2>2. {k \in K : k <= i} = 1 .. i
    OBVIOUS
  <2>3. Cardinality(1 .. i) = i
    BY FS_Interval
  <2> QED
    BY <2>1, <2>2, <2>3
<1>4. DOMAIN base = 1 .. n /\ base \in [1 .. n -> Int] /\ \A r \in 1 .. n : base[r] = r
  OBVIOUS
<1> HIDE DEF base
<1>5. base \in Seq(Int) /\ Len(base) = n
  BY <1>4, IsSeq
<1>6. Listed(K) = base
  BY <1>1, <1>2, <1>3, <1>4, <1>5, SameSeq
<1> QED
  BY <1>6 DEF base

\* The column of a table of which a scan keeps some rows.
LEMMA ScanValue ==
    ASSUME NEW s \in Scans, NEW p \in Seq(Blocks), NEW c \in Cols, c.data # Null, c.len = Rows,
           p[c.data].rows = [r \in 1 .. Rows |-> r],
           IF s.filtered THEN /\ c.ids # Null /\ p[c.ids].rows = Scanned(s)
                              /\ c.count = Len(Scanned(s))
           ELSE c.ids = Null
    PROVE  Denotes(p, c) = Scanned(s) /\ Fitting(c)
<1> DEFINE base == [r \in 1 .. Rows |-> r]
<1>1. Rows \in Nat
  BY LateMaterializationAssumption
<1>2. DOMAIN base = 1 .. Rows /\ base \in [1 .. Rows -> Int] /\ \A r \in 1 .. Rows : base[r] = r
  OBVIOUS
<1>3. p[c.data].rows = base
  OBVIOUS
<1> HIDE DEF base
<1>4. base \in Seq(Int) /\ Len(base) = Rows
  BY <1>1, <1>2, IsSeq
<1>5. Scanned(s) \in Seq(1 .. Rows) /\ Scanned(s) \in Seq(Int) /\ c.count \in Nat /\ c.ids \in Nat
  BY ScannedFacts DEF Cols
<1> DEFINE kept == Scanned(s)
<1>20. kept \in Seq(1 .. Rows)
  BY <1>5
<1>6. Len(kept) \in Nat /\ (kept = <<>> <=> Len(kept) = 0) /\ \A i \in 1 .. Len(kept) : kept[i] \in 1 .. Rows
  <2> DEFINE T == 1 .. Rows
  <2>1. kept \in Seq(T)
    BY <1>20
  <2> HIDE DEF kept, T
  <2>2. Len(kept) \in Nat /\ (kept = <<>> <=> Len(kept) = 0) /\ DOMAIN kept = 1 .. Len(kept) /\ \A i \in DOMAIN kept : kept[i] \in T
    BY <2>1, SeqFacts
  <2> QED
    BY <2>2 DEF T
<1>7. CASE ~s.filtered
  <2>1. kept = base
    BY <1>1, <1>7, ListedAll DEF Scanned, base
  <2>2. Take(base, Rows) = base
    BY <1>1, <1>4, TakeFacts
  <2> QED
    BY <1>3, <1>7, <2>1, <2>2 DEF Denotes, Fitting
<1>8. CASE s.filtered
  <2>1. c.ids # Null /\ p[c.ids].rows = kept /\ c.count = Len(kept)
    BY <1>8
  <2>2. CASE c.count = 0
    <3>1. kept = <<>>
      BY <1>6, <2>1, <2>2
    <3> QED
      BY <2>1, <2>2, <3>1 DEF Denotes, Fitting
  <2>3. CASE c.count # 0
    <3>1. Take(kept, Len(kept)) = kept
      BY <1>5, <1>6, TakeFacts
    <3>2. /\ Pick(base, kept) \in Seq(Int) /\ Len(Pick(base, kept)) = Len(kept)
          /\ \A i \in 1 .. Len(kept) : Pick(base, kept)[i] = IF kept[i] \in 1 .. Len(base) THEN base[kept[i]] ELSE 0
      BY <1>4, <1>5, PickFacts
    <3>3. \A i \in 1 .. Len(kept) : Pick(base, kept)[i] = kept[i]
      BY <1>2, <1>4, <1>6, <3>2
    <3>4. Pick(base, kept) = kept
      BY <1>5, <3>2, <3>3, SameSeq
    <3>5. Denotes(p, c) = Pick(base, Take(kept, Len(kept)))
      BY <1>3, <2>1, <2>3 DEF Denotes
    <3>6. Rows > 0
      <4>1. 1 \in 1 .. Len(kept)
        BY <1>6, <2>1, <2>3
      <4> QED
        BY <1>1, <1>6, <4>1
    <3> QED
      BY <3>1, <3>4, <3>5, <3>6 DEF Fitting
  <2> QED
    BY <2>2, <2>3
<1> QED
  BY <1>7, <1>8

\* The columns of a table scan stand for the rows it keeps.
LEMMA TableScanRight ==
    ASSUME Structure, Structure', Values, NEW s \in Scans, TableScan(s)
    PROVE  Values'
<1>1. pc' = "ready" /\ cte' = cte /\ built' = built /\ sorted' = sorted
  BY DEF TableScan, Starts
<1>2. PICK q, ids, count, b :
              /\ q \in Seq(Blocks) /\ Grows(pool, q) /\ Grows(q, pool') /\ count \in Nat /\ ids \in Nat
              /\ IF s.filtered THEN /\ ids \in Places(pool) /\ SoundIds(q, ids) /\ ids # Null
                                    /\ q[ids].rows = Scanned(s) /\ count = Len(Scanned(s))
                 ELSE ids = Null /\ count = 0
              /\ IF s.rowId
                 THEN /\ b \in Places(q) /\ b \in Nat /\ b # Null /\ b \in DOMAIN pool' /\ pool'[b].state = "live"
                      /\ pool'[b].tag = RowId /\ pool'[b].rows = [r \in 1 .. Rows |-> r]
                      /\ relation' = Append(ScanColumns(s, ids, count),
                                            [data |-> b, ids |-> ids, len |-> Rows, count |-> count])
                 ELSE relation' = ScanColumns(s, ids, count)
  BY ScanBlocks
<1>3. relation' = ScanResult(s, ids, count, b) /\ (s.rowId => b \in Nat)
  BY <1>2 DEF ScanResult, ScanColumn
<1>4. /\ relation' \in Seq(Cols) /\ Len(relation') = Columns + (IF s.rowId THEN 1 ELSE 0)
      /\ \A i \in DOMAIN relation' : \/ i \in 1 .. Columns /\ relation'[i] = ScanColumn(ids, count, i)
                                     \/ s.rowId /\ i = Columns + 1 /\ relation'[i] = ScanColumn(ids, count, b)
  <2> DEFINE rel == ScanResult(s, ids, count, b)
  <2>1. count \in Nat /\ ids \in Nat
    BY <1>2
  <2>2. /\ rel \in Seq(Cols) /\ Len(rel) = Columns + (IF s.rowId THEN 1 ELSE 0)
        /\ \A i \in DOMAIN rel : \/ i \in 1 .. Columns /\ rel[i] = ScanColumn(ids, count, i)
                                 \/ s.rowId /\ i = Columns + 1 /\ rel[i] = ScanColumn(ids, count, b)
    BY <1>3, <2>1, ScanRelation
  <2> QED
    BY <1>3, <2>2
<1>5. Grows(pool, pool') /\ pool' \in Seq(Blocks) /\ Columns \in Nat
  BY <1>2, GrowsOn, GrowsFacts, LateMaterializationAssumption
<1>6. \A i \in DOMAIN relation' : relation'[i] \in Cols /\ i \in 1 .. Columns + (IF s.rowId THEN 1 ELSE 0)
  BY <1>4, SeqFacts
<1>7. /\ DOMAIN wanted' = 1 .. Columns + (IF s.rowId THEN 1 ELSE 0)
      /\ \A c \in 1 .. Columns + (IF s.rowId THEN 1 ELSE 0) :
             wanted'[c].tag = (IF c > Columns THEN RowId ELSE c) /\ wanted'[c].rows = Scanned(s)
  BY ScanWants
<1>8. s.filtered => ids # Null /\ pool'[ids].rows = Scanned(s) /\ count = Len(Scanned(s))
  BY <1>2, SoundGrows
<1>9. \A i \in DOMAIN relation' : Right(pool', relation'[i], wanted'[i])
  <2> SUFFICES ASSUME NEW i \in DOMAIN relation' PROVE Right(pool', relation'[i], wanted'[i])
    OBVIOUS
  <2> DEFINE c == relation'[i]
  <2>1. /\ c \in Cols /\ c.len = Rows /\ c.ids = ids /\ c.count = count /\ c.data # Null
        /\ c.data \in DOMAIN pool' /\ pool'[c.data].rows = [r \in 1 .. Rows |-> r] /\ pool'[c.data].tag = wanted'[i].tag
    <3>1. CASE i \in 1 .. Columns /\ relation'[i] = ScanColumn(ids, count, i)
      <4>1. i \in DOMAIN pool' /\ pool'[i].tag = i /\ pool'[i].rows = [r \in 1 .. Rows |-> r]
        BY <3>1, BaseFacts DEF Structure
      <4>2. wanted'[i].tag = i /\ i # Null
        BY <1>5, <1>6, <1>7, <3>1 DEF Null
      <4>3. c \in Cols /\ c.len = Rows /\ c.ids = ids /\ c.count = count /\ c.data = i
        BY <1>6, <3>1 DEF ScanColumn
      <4> HIDE DEF c
      <4> QED
        BY <4>1, <4>2, <4>3
    <3>2. CASE s.rowId /\ i = Columns + 1 /\ relation'[i] = ScanColumn(ids, count, b)
      <4>1. b \in DOMAIN pool' /\ pool'[b].tag = RowId /\ pool'[b].rows = [r \in 1 .. Rows |-> r] /\ b # Null
        BY <1>2, <3>2
      <4>2. wanted'[i].tag = RowId
        BY <1>5, <1>6, <1>7, <3>2
      <4>3. c \in Cols /\ c.len = Rows /\ c.ids = ids /\ c.count = count /\ c.data = b
        BY <1>6, <3>2 DEF ScanColumn
      <4> HIDE DEF c
      <4> QED
        BY <4>1, <4>2, <4>3
    <3> QED
      BY <1>4, <3>1, <3>2
  <2> HIDE DEF c
  <2>2. Denotes(pool', c) = Scanned(s) /\ Fitting(c)
    BY <1>2, <1>5, <1>8, <2>1, ScanValue
  <2>3. wanted'[i].rows = Scanned(s)
    BY <1>6, <1>7
  <2>4. Right(pool', c, wanted'[i])
    BY <2>1, <2>2, <2>3 DEF Right
  <2> QED
    BY <2>4 DEF c
<1>10. Uniform(wanted')
  BY <1>7 DEF Uniform
<1>11. ReadyRight'
  BY <1>9, <1>10 DEF ReadyRight, AllRight
<1>12. StoresRight'
  BY <1>1, <1>5, SameGrows, StoresRightStay DEF Values
<1> QED
  BY <1>1, <1>11, <1>12, OtherValues

\* A column without the row ids it does not have stands for the same.
LEMMA WholeColumn ==
    ASSUME NEW p, NEW c, c.ids = Null
    PROVE  Denotes(p, Column(c.data, c.len)) = Denotes(p, c)
  BY DEF Denotes, Column

\* What is lent without row ids is what the working table stands for.
LEMMA LentRight ==
    ASSUME NEW p, NEW cols, NEW want, AllRight(p, cols, want), \A i \in DOMAIN cols : cols[i].ids = Null,
           \A i \in DOMAIN cols : cols[i] \in Cols
    PROVE  AllRight(p, [i \in DOMAIN cols |-> Column(cols[i].data, cols[i].len)], want)
<1> DEFINE lent(i) == Column(cols[i].data, cols[i].len)
<1>1. \A i \in DOMAIN cols : Right(p, lent(i), want[i])
  <2> TAKE i \in DOMAIN cols
  <2>1. Right(p, cols[i], want[i]) /\ Denotes(p, lent(i)) = Denotes(p, cols[i])
    BY WholeColumn DEF AllRight
  <2>2. lent(i).data = cols[i].data /\ lent(i).ids = Null
    BY ColumnFacts DEF Cols
  <2> HIDE DEF lent
  <2> QED
    BY <2>1, <2>2 DEF Right, Fitting
<1>2. [i \in DOMAIN cols |-> Column(cols[i].data, cols[i].len)] = [i \in DOMAIN cols |-> lent(i)]
  OBVIOUS
<1> HIDE DEF lent
<1> QED
  BY <1>1, <1>2 DEF AllRight

\* A CTE scan of columns without row ids.
LEMMA CTEScanRight ==
    ASSUME Structure, Structure', Values, CTEScan, ~dropped'
    PROVE  Values'
<1>1. /\ pc' = "ready" /\ pool' = pool /\ built' = built /\ sorted' = sorted /\ wanted' = cte.want
      /\ relation' = [i \in DOMAIN cte.cols |-> Column(cte.cols[i].data, cte.cols[i].len)]
      /\ cte' = cte \/ cte' = Nothing
  BY DEF CTEScan, Starts
<1>2. \A i \in DOMAIN cte.cols : cte.cols[i].ids = Null
  <2> DEFINE b == \E i \in DOMAIN cte.cols : cte.cols[i].ids # Null
  <2>1. dropped' = (dropped \/ b)
    BY DEF CTEScan
  <2>2. ~b
    <3> HIDE DEF b
    <3> QED
      BY <2>1, Zenon
  <2> QED
    BY <2>2
<1>3. cte \in Stores /\ pool \in Seq(Blocks)
  BY DEF Structure, Typed
<1>4. \A i \in DOMAIN cte.cols : cte.cols[i] \in Cols
  BY <1>3, StoreFacts
<1>5. AllRight(pool, cte.cols, cte.want)
  BY DEF Values, StoresRight
<1>6. AllRight(pool', relation', wanted')
  BY <1>1, <1>2, <1>4, <1>5, LentRight
<1>7. StoresRight'
  BY <1>1, <1>3, GrowsSelf, SameGrows, StoresRightStay DEF Values
<1>8. ReadyRight'
  BY <1>6 DEF ReadyRight
<1> QED
  BY <1>1, <1>7, <1>8, OtherValues

\* The result of a sort is handed on.
LEMMA SortScanRight ==
    ASSUME Structure, Structure', Values, SortScan
    PROVE  Values'
<1>1. /\ pc' = "ready" /\ pool' = pool /\ built' = built /\ cte' = cte /\ sorted' = Nothing
      /\ wanted' = sorted.want /\ relation' = sorted.cols
  BY DEF SortScan, Starts
<1>2. pool \in Seq(Blocks)
  BY DEF Structure, Typed
<1>3. AllRight(pool', relation', wanted')
  BY <1>1 DEF Values, StoresRight
<1>4. StoresRight'
  BY <1>1, <1>2, GrowsSelf, SameGrows, StoresRightStay DEF Values
<1>5. ReadyRight'
  BY <1>3 DEF ReadyRight
<1> QED
  BY <1>1, <1>4, <1>5, OtherValues

-----------------------------------------------------------------------------
(* Operators that begin to read *)

\* A column of nothing, or without data, stands for nothing.
LEMMA EmptyColumn ==
    ASSUME NEW p \in Seq(Blocks), NEW c \in Cols, Sound(p, c),
           c.data = Null \/ (IF c.ids = Null THEN c.len ELSE c.count) = 0
    PROVE  Denotes(p, c) = <<>>
<1>1. CASE c.data = Null \/ (c.ids # Null /\ c.count = 0)
  BY <1>1 DEF Denotes
<1>2. CASE c.data # Null /\ c.ids = Null /\ c.len = 0
  <2>1. c.data \in DOMAIN p
    BY <1>2 DEF Sound, SoundData
  <2>2. p[c.data].rows \in Seq(Int)
    BY <2>1, BlockRows
  <2>3. Take(p[c.data].rows, 0) \in Seq(Int) /\ Len(Take(p[c.data].rows, 0)) = 0
    <3>1. Len(p[c.data].rows) \in Nat
      BY <2>2, SeqFacts
    <3> QED
      BY <2>2, <3>1, TakeFacts
  <2>4. Take(p[c.data].rows, 0) = <<>>
    BY <2>3, SeqFacts
  <2> QED
    BY <1>2, <2>4 DEF Denotes
<1> QED
  BY <1>1, <1>2

\* Where an operator finds nothing to compute from, the plan means nothing.
LEMMA EmptyMeans ==
    ASSUME Structure, Values, pc = "ready", EmptyInput \/ \E r \in All : relation[r].data = Null
    PROVE  \A i \in All : wanted[i].rows = <<>>
<1>1. /\ Uniform(wanted) /\ DOMAIN wanted = All
      /\ \A i \in All : /\ Right(pool, relation[i], wanted[i]) /\ wanted[i] \in Wants
                        /\ relation[i] \in Cols /\ Sound(pool, relation[i])
  BY SoundReady, SoundStores DEF Values, ReadyRight, AllRight, All
<1>2. pool \in Seq(Blocks)
  BY DEF Structure, Typed
<1>3. CASE EmptyInput
  <2>1. \A i \in All : Denotes(pool, relation[i]) = <<>>
    BY <1>1, <1>2, <1>3, EmptyColumn DEF EmptyInput, All
  <2> QED
    BY <1>1, <2>1 DEF Right
<1>4. CASE \E r \in All : relation[r].data = Null
  <2>1. PICK r \in All : relation[r].data = Null
    BY <1>4
  <2>2. wanted[r].rows = <<>>
    BY <1>1, <2>1 DEF Right, Denotes
  <2> SUFFICES ASSUME NEW i \in All PROVE wanted[i].rows = <<>>
    OBVIOUS
  <2>3. wanted[i].rows \in Seq(Int) /\ Len(wanted[i].rows) = Len(wanted[r].rows)
    BY <1>1 DEF Uniform, Wants
  <2>4. Len(wanted[i].rows) = 0
    BY <2>2, <2>3
  <2> QED
    BY <2>3, <2>4, SeqFacts
<1> QED
  BY <1>3, <1>4

\* What is left to show of an operator that begins to read.
LEMMA BeginRight ==
    ASSUME Structure, Structure', Values, NEW operator, NEW refs, Begin(operator, refs), BeginLeaves,
           operator.kind # "distinct", Needed' \subseteq ToSet(refs),
           operator.kind = "project" => \A i \in DOMAIN operator.by :
               ~operator.by[i].pass /\ Skipped(operator.by[i]) => wanted[operator.by[i].refs[1]].rows = <<>>
    PROVE  Values'
<1> USE DEF BeginLeaves
<1>1. pc = "ready" /\ pc' = "read" /\ task' = operator /\ todo' = refs
  BY DEF Begin
<1>2. pool \in Seq(Blocks) /\ Same(pool, pool')
  BY GrowsSelf, SameGrows DEF Structure, Typed
<1>3. StoresRight'
  BY <1>2, StoresRightStay DEF Values
<1>4. \A j \in InHand' : j \in All'
  <2>1. todo' \in Seq(All') /\ task'.hands \subseteq All'
    BY <1>1 DEF Structure, Reading
  <2> QED
    BY <2>1, SeqFacts DEF InHand
<1>5. Uniform(wanted) /\ \A j \in All : Right(pool, relation[j], wanted[j])
  BY <1>1 DEF Values, ReadyRight, AllRight, All
<1>6. \A j \in InHand' : Right(pool', relation'[j], wanted'[j])
  BY <1>4, <1>5 DEF All
<1>7. task'.kind = "project" => \A i \in DOMAIN task'.by :
               ~task'.by[i].pass /\ Skipped(task.by[i])' => wanted'[task'.by[i].refs[1]].rows = <<>>
  BY <1>1 DEF Skipped, EmptyInput
<1>8. ReadRight'
  BY <1>1, <1>5, <1>6, <1>7 DEF ReadRight
<1> QED
  BY <1>1, <1>3, <1>8 DEF Values, ReadyRight, ComposeRight, AnswerIsWanted

\* A filter needs the column it selects by.
LEMMA FilterReadsRight ==
    ASSUME Structure, Structure', Values, NEW f \in Filters, Filter(f), pc' = "read"
    PROVE  Values'
<1>1. Begin([kind |-> "filter", hands |-> DOMAIN relation, by |-> f], f.refs) /\ BeginLeaves
  BY DEF Filter, BeginLeaves
<1>2. f.refs \in Seq(Nat) /\ f.refs # <<>>
  BY LateMaterializationAssumption
<1>3. Needed' \subseteq ToSet(f.refs)
  <2>1. 1 \in DOMAIN f.refs
    BY <1>2, SeqFacts
  <2>2. f.refs[1] \in ToSet(f.refs)
    BY <1>2, <2>1, SeqFacts
  <2>3. Needed' = {f.refs[1]}
    BY <1>1 DEF Needed, Begin
  <2> QED
    BY <2>2, <2>3
<1> DEFINE operator == [kind |-> "filter", hands |-> DOMAIN relation, by |-> f]
<1>4. operator.kind = "filter"
  OBVIOUS
<1> HIDE DEF operator
<1> QED
  BY <1>1, <1>3, <1>4, BeginRight DEF operator

\* A projection needs the columns it computes from.
LEMMA ProjectRight ==
    ASSUME Structure, Structure', Values, NEW items \in Projections, Project(items)
    PROVE  Values'
<1> DEFINE hands == {items[i].refs[1] : i \in {j \in DOMAIN items : items[j].pass}}
           operator == [kind |-> "project", hands |-> hands, by |-> items]
<1>1. Begin(operator, Reads(items)) /\ BeginLeaves /\ pc = "ready"
  BY DEF Project, BeginLeaves, Reads, Begin
<1>2. \A i \in DOMAIN items : ToSet(items[i].refs) \subseteq All
  BY DEF Project, All
<1>3. /\ \A i \in DOMAIN items : ~items[i].pass /\ ~Skipped(items[i])
                                   => items[i].refs[1] \in ToSet(Reads(items))
      /\ \A i \in DOMAIN items : items[i].refs[1] \in All
  BY <1>2, ProjectReads
<1>4. operator.kind = "project" /\ operator.by = items
  OBVIOUS
<1> HIDE DEF operator, hands
<1>5. task' = operator /\ relation' = relation
  BY <1>1 DEF Begin, BeginLeaves
<1>6. Needed' = {items[i].refs[1] : i \in {j \in DOMAIN items : ~items[j].pass /\ ~Skipped(items[j])}}
  <2>1. \A i \in DOMAIN items : Computes(i)' <=> ~items[i].pass /\ ~Skipped(items[i])
    BY <1>4, <1>5 DEF Computes, Skipped, EmptyInput
  <2>2. Needed' = {task'.by[i].refs[1] : i \in {j \in DOMAIN task'.by : Computes(j)'}}
    BY <1>4, <1>5 DEF Needed
  <2> QED
    BY <1>4, <1>5, <2>1, <2>2
<1>7. Needed' \subseteq ToSet(Reads(items))
  BY <1>3, <1>6
<1>8. \A i \in DOMAIN items : Skipped(items[i]) => wanted[items[i].refs[1]].rows = <<>>
  <2> SUFFICES ASSUME NEW i \in DOMAIN items, Skipped(items[i]) PROVE wanted[items[i].refs[1]].rows = <<>>
    OBVIOUS
  <2>1. EmptyInput \/ \E r \in All : relation[r].data = Null
    BY <1>2 DEF Skipped
  <2> QED
    BY <1>1, <1>3, <2>1, EmptyMeans
<1> QED
  BY <1>1, <1>4, <1>7, <1>8, BeginRight

\* A limit needs every column.
LEMMA LimitRight ==
    ASSUME Structure, Structure', Values, NEW l \in Limits, Limit(l)
    PROVE  Values'
<1> DEFINE operator == [kind |-> "limit", hands |-> {}, by |-> l]
<1>1. Begin(operator, AllRefs) /\ BeginLeaves
  BY DEF Limit, BeginLeaves, AllRefs
<1>2. operator.kind = "limit"
  OBVIOUS
<1> HIDE DEF operator
<1>3. Needed' = All
  BY <1>1, <1>2 DEF Needed, Begin, BeginLeaves, All
<1> QED
  BY <1>1, <1>2, <1>3, AllRefsFacts, BeginRight

\* A probe needs its key.
LEMMA ProbeRight ==
    ASSUME Structure, Structure', Values, NEW key \in DOMAIN relation, Probe(key)
    PROVE  Values'
<1> DEFINE operator == [kind |-> "probe", hands |-> DOMAIN relation, by |-> key]
<1>1. Begin(operator, <<key>>) /\ BeginLeaves
  BY DEF Probe, BeginLeaves
<1>2. operator.kind = "probe" /\ operator.by = key
  OBVIOUS
<1> HIDE DEF operator
<1>3. Needed' = {key}
  BY <1>1, <1>2 DEF Needed, Begin
<1> QED
  BY <1>1, <1>2, <1>3, OneRef, BeginRight

\* A build needs its key.
LEMMA BuildRight ==
    ASSUME Structure, Structure', Values, NEW key \in DOMAIN relation, NEW refs \in Aggregates \cup {<<>>}, Build(key, refs)
    PROVE  Values'
<1> DEFINE operator == [kind |-> "build", hands |-> DOMAIN relation, by |-> key, distinct |-> refs]
<1>1. Begin(operator, <<key>>) /\ BeginLeaves
  BY DEF Build, BeginLeaves
<1>2. operator.kind = "build" /\ operator.by = key
  OBVIOUS
<1> HIDE DEF operator
<1>3. Needed' = {key}
  BY <1>1, <1>2 DEF Needed, Begin
<1> QED
  BY <1>1, <1>2, <1>3, OneRef, BeginRight

\* What a delim join has cached needs no read of its distinct aggregate.
LEMMA DelimSinkRight ==
    ASSUME Structure, Structure', Values, NEW refs \in Aggregates, DelimSink(refs)
    PROVE  Values'
<1> DEFINE operator == [kind |-> "delim", hands |-> DOMAIN relation, by |-> refs]
<1>1. Begin(operator, refs) /\ BeginLeaves
  BY DEF DelimSink, BeginLeaves
<1>2. operator.kind = "delim"
  OBVIOUS
<1> HIDE DEF operator
<1>3. Needed' = {}
  BY <1>1, <1>2 DEF Needed, Begin
<1> QED
  BY <1>1, <1>2, <1>3, BeginRight

\* A sort needs the columns it hands on and its key.
LEMMA SortRight ==
    ASSUME Structure, Structure', Values, NEW s \in Sorts, Sort(s)
    PROVE  Values'
<1> DEFINE operator == [kind |-> "sort", hands |-> {}, by |-> s]
           refs == Append(s.cols, s.key)
<1>1. Begin(operator, refs) /\ BeginLeaves
  BY DEF Sort, BeginLeaves
<1>2. operator.kind = "sort" /\ operator.by = s
  OBVIOUS
<1>3. s.cols \in Seq(Nat) /\ s.key \in Nat
  BY LateMaterializationAssumption
<1>4. ToSet(s.cols) \cup {s.key} \subseteq ToSet(refs)
  BY <1>3, AppendFacts
<1> HIDE DEF operator, refs
<1>5. Needed' = ToSet(s.cols) \cup {s.key}
  BY <1>1, <1>2 DEF Needed, Begin
<1> QED
  BY <1>1, <1>2, <1>4, <1>5, BeginRight

\* The result collector needs what it collects.
LEMMA CollectRight ==
    ASSUME Structure, Structure', Values, NEW refs \in Aggregates \cup {[i \in DOMAIN relation |-> i]}, Collect("collect", refs)
    PROVE  Values'
<1> DEFINE operator == [kind |-> "collect", hands |-> {}, by |-> refs]
<1>1. Begin(operator, refs) /\ BeginLeaves
  BY DEF Collect, BeginLeaves
<1>2. operator.kind = "collect" /\ operator.by = refs
  OBVIOUS
<1> HIDE DEF operator
<1>3. Needed' = ToSet(refs)
  BY <1>1, <1>2 DEF Needed, Begin
<1> QED
  BY <1>1, <1>2, <1>3, BeginRight

-----------------------------------------------------------------------------
(* Materialising *)

\* What an operator needs is there.
LEMMA NeededIn ==
    ASSUME Structure, pc = "read"
    PROVE  Needed \subseteq All
<1>1. Tasked
  BY SoundRead
<1>2. CASE task.kind = "filter"
  <2>1. task.by.refs \in Seq(Nat) \ {<<>>} /\ IsPart(task.by.refs)
    BY <1>1, <1>2, LateMaterializationAssumption DEF Tasked
  <2> DEFINE refs == task.by.refs
  <2>2. 1 \in DOMAIN refs /\ refs[1] \in ToSet(refs)
    <3>1. refs \in Seq(Nat) /\ refs # <<>>
      BY <2>1
    <3> HIDE DEF refs
    <3> QED
      BY <3>1, SeqFacts
  <2> QED
    BY <1>2, <2>1, <2>2 DEF Needed, IsPart
<1>3. CASE task.kind = "project"
  <2>1. \A i \in DOMAIN task.by : task.by[i].refs[1] \in All
    BY <1>3, <1>1, ProjectHands
  <2> QED
    BY <1>3, <2>1 DEF Needed
<1>4. CASE task.kind = "sort"
  BY <1>1, <1>4 DEF Needed, Tasked
<1>5. CASE task.kind = "collect"
  BY <1>1, <1>5 DEF Needed, Tasked, IsPart
<1>6. CASE task.kind \in {"limit", "probe", "build"}
  BY <1>1, <1>6 DEF Needed, Tasked
<1>7. CASE task.kind \notin {"filter", "project", "sort", "collect", "limit", "probe", "build"}
  BY <1>7 DEF Needed
<1> QED
  BY <1>2, <1>3, <1>4, <1>5, <1>6, <1>7

\* A read does not change what is needed.
LEMMA NeededStays ==
    ASSUME Structure, pc = "read", todo # <<>>, NEW col, NEW rows, NEW tag, HasColumn(Head(todo), col, rows, tag)
    PROVE  /\ Needed' = Needed
           /\ task.kind = "project" => \A item : Skipped(item)' = Skipped(item)
<1>1. task' = task /\ All' = All /\ (task.kind # "sort" => relation' = relation)
  BY ReadFacts DEF HasColumn, All
<1>2. ASSUME task.kind = "project" PROVE \A item : Skipped(item)' = Skipped(item)
  BY <1>1, <1>2 DEF Skipped, EmptyInput
<1>3. CASE task.kind = "project"
  <2>1. \A i : Computes(i)' = Computes(i)
    BY <1>1, <1>2, <1>3 DEF Computes
  <2>2. /\ Needed = {task.by[i].refs[1] : i \in {j \in DOMAIN task.by : Computes(j)}}
        /\ Needed' = {task.by[i].refs[1] : i \in {j \in DOMAIN task.by : Computes(j)'}}
    BY <1>1, <1>3 DEF Needed
  <2>3. Needed' = Needed
    BY <2>1, <2>2
  <2> QED
    BY <1>2, <2>3
<1>4. CASE task.kind # "project"
  BY <1>1, <1>4 DEF Needed
<1> QED
  BY <1>3, <1>4

\* What is left to show of a step that reads a column.
LEMMA ColumnRight ==
    ASSUME Structure, Structure', Values, pc = "read", todo # <<>>, NEW col, NEW rows, NEW tag,
           HasColumn(Head(todo), col, rows, tag), Same(pool, pool'), pc' \in {"read", "thrown"},
           task.kind # "distinct" =>
               /\ Right(pool', col, wanted[Head(todo)]) /\ rows = wanted[Head(todo)].rows
               /\ wanted[Head(todo)].rows # <<>> => tag = wanted[Head(todo)].tag
               /\ col.len >= Len(wanted[Head(todo)].rows)
    PROVE  Values'
<1> DEFINE at == Head(todo)
<1>1. task' = task /\ wanted' = wanted /\ moving' = moving /\ cte' = cte /\ built' = built /\ sorted' = sorted
  BY DEF HasColumn
<1>2. StoresRight'
  BY <1>1, StoresRightStay DEF Values
<1>3. ASSUME pc' = "read", task.kind # "distinct"
      PROVE  /\ Uniform(wanted')
             /\ \A j \in InHand' : Right(pool', relation'[j], wanted'[j])
             /\ \A i \in Needed' : i \in ToSet(todo') \/ GotRight(pool', got'[i], wanted'[i])
             /\ task.kind = "project" => \A i \in DOMAIN task.by :
                   ~task.by[i].pass /\ Skipped(task.by[i])' => wanted'[task.by[i].refs[1]].rows = <<>>
  <2>1. /\ Uniform(wanted)
        /\ \A j \in InHand : Right(pool, relation[j], wanted[j])
        /\ \A i \in Needed : i \in ToSet(todo) \/ GotRight(pool, got[i], wanted[i])
        /\ task.kind = "project" => \A i \in DOMAIN task.by :
              ~task.by[i].pass /\ Skipped(task.by[i]) => wanted[task.by[i].refs[1]].rows = <<>>
    BY <1>3 DEF Values, ReadRight
  <2>2. /\ at \in All /\ \A j \in All : relation'[j] = relation[j] \/ (j = at /\ relation'[j] = col)
        /\ \A j \in InHand' : j \in InHand
    BY ReadFacts
  <2>3. /\ got'[at] = [col |-> col, rows |-> rows, tag |-> tag]
        /\ \A i \in All : i # at => got'[i] = got[i]
        /\ ToSet(todo) = {at} \cup ToSet(todo')
    BY ReadFacts
  <2>4. /\ \A j \in InHand : j \in All /\ Sound(pool, relation[j])
        /\ \A i \in All : Sound(pool, got[i].col)
    BY <1>3, SoundRead
  <2>5. /\ Right(pool', col, wanted[at]) /\ rows = wanted[at].rows
        /\ wanted[at].rows # <<>> => tag = wanted[at].tag
        /\ col.len >= Len(wanted[at].rows)
    BY <1>3
  <2> HIDE DEF at
  <2>6. \A j \in InHand' : Right(pool', relation'[j], wanted'[j])
    <3> SUFFICES ASSUME NEW j \in InHand' PROVE Right(pool', relation'[j], wanted[j])
      BY <1>1
    <3>1. j \in InHand /\ j \in All
      BY <2>2, <2>4
    <3>2. CASE relation'[j] = relation[j]
      <4>1. Right(pool, relation[j], wanted[j]) /\ Sound(pool, relation[j])
        BY <2>1, <2>4, <3>1
      <4> QED
        BY <3>2, <4>1, RightSame
    <3>3. CASE j = at /\ relation'[j] = col
      BY <2>5, <3>3
    <3> QED
      BY <2>2, <3>1, <3>2, <3>3
  <2>7. Needed' = Needed /\ (task.kind = "project" => \A item : Skipped(item)' = Skipped(item))
    BY NeededStays
  <2>8. \A i \in Needed' : i \in ToSet(todo') \/ GotRight(pool', got'[i], wanted'[i])
    <3> SUFFICES ASSUME NEW i \in Needed, i \notin ToSet(todo') PROVE GotRight(pool', got'[i], wanted[i])
      BY <1>1, <2>7
    <3>1. CASE i = at
      BY <2>3, <2>5, <3>1 DEF GotRight
    <3>2. CASE i # at
      <4>1. i \in All /\ got'[i] = got[i] /\ GotRight(pool, got[i], wanted[i]) /\ Sound(pool, got[i].col)
        BY <2>1, <2>3, <2>4, <3>2, NeededIn
      <4>2. Right(pool', got[i].col, wanted[i])
        BY <4>1, RightSame DEF GotRight
      <4> QED
        BY <4>1, <4>2 DEF GotRight
    <3> QED
      BY <3>1, <3>2
  <2> QED
    BY <1>1, <2>1, <2>6, <2>7, <2>8
<1>4. ReadRight'
  BY <1>1, <1>3 DEF ReadRight
<1> QED
  BY <1>2, <1>4 DEF Values, ReadyRight, ComposeRight, AnswerIsWanted

\* A late column stands for as many values as it has row ids.
LEMMA LateLength ==
    ASSUME NEW p \in Seq(Blocks), NEW c \in Cols, Sound(p, c), c.data # Null, c.ids # Null, c.count # 0
    PROVE  /\ Denotes(p, c) = Pick(p[c.data].rows, Take(p[c.ids].rows, c.count))
           /\ Denotes(p, c) \in Seq(Int) /\ Len(Denotes(p, c)) \in Nat /\ Len(Denotes(p, c)) <= c.count
           /\ Take(Denotes(p, c), c.count) = Denotes(p, c)
           /\ p[c.data].rows \in Seq(Int) /\ p[c.ids].rows \in Seq(Int)
           /\ Len(Denotes(p, c)) = Len(Take(p[c.ids].rows, c.count)) /\ Take(p[c.ids].rows, c.count) \in Seq(Int)
<1> DEFINE data == p[c.data].rows
           all == p[c.ids].rows
           ids == Take(all, c.count)
<1>1. data \in Seq(Int) /\ all \in Seq(Int) /\ c.count \in Nat
  <2>1. c.data \in DOMAIN p /\ c.ids \in DOMAIN p
    BY DEF Sound, SoundData, SoundIds
  <2> QED
    BY <2>1, BlockRows DEF Cols
<1>2. Denotes(p, c) = Pick(data, ids)
  BY DEF Denotes
<1> HIDE DEF data, all
<1>3. ids \in Seq(Int) /\ Len(ids) = (IF c.count < Len(all) THEN c.count ELSE Len(all)) /\ Len(all) \in Nat
  BY <1>1, TakeFacts, SeqFacts
<1> HIDE DEF ids
<1>4. Pick(data, ids) \in Seq(Int) /\ Len(Pick(data, ids)) = Len(ids)
  BY <1>1, <1>3, PickFacts
<1>5. Len(ids) \in Nat /\ Len(ids) <= c.count
  BY <1>1, <1>3
<1>6. Take(Pick(data, ids), c.count) = Pick(data, ids)
  BY <1>1, <1>4, <1>5, TakeFacts
<1> QED
  BY <1>1, <1>2, <1>3, <1>4, <1>5, <1>6 DEF data, all, ids

\* What is gathered is what the late column stands for.
LEMMA LateRight ==
    ASSUME Structure, Structure', Values, pc = "read", todo # <<>>, NEW a \in Places(pool), LateRead(relation[Head(todo)], a)
    PROVE  Values'
<1> DEFINE at == Head(todo)
           c == relation[at]
           filled == Put(pool, a, "live", pool[c.data].tag, Denotes(pool, c))
           col == Column(a, c.count)
<1>1. /\ filled \in Seq(Blocks) /\ Grows(pool, filled) /\ c.data # Null
      /\ c.data \in DOMAIN filled /\ a # Null
      /\ filled[a].tag = pool[c.data].tag /\ filled[a].rows = Denotes(pool, c)
      /\ col.data = a /\ col.ids = Null /\ col.len = c.count
  BY LatePool
<1>2. Sound(filled, col) /\ HasColumn(at, col, Denotes(filled, col), filled[a].tag)
  BY LatePool
<1>3. at \in InHand /\ c \in Cols /\ Sound(pool, c) /\ pool \in Seq(Blocks)
  BY HeadSound, SoundStores
<1>4. c.ids # Null /\ c.count # 0 /\ pool' = Freed(filled, c.data) /\ pc' \in {"read", "thrown"}
  BY DEF LateRead, NothingToRead
<1> HIDE DEF at, c, filled, col
<1>5. Same(pool, filled) /\ Same(filled, filled)
  BY <1>1, GrowsSelf, SameGrows
<1>6. Same(pool, pool') /\ Same(filled, pool')
  BY <1>1, <1>4, <1>5, SameFreed
<1>7. Denotes(filled, col) = Denotes(pool, c)
  <2>1. Take(Denotes(pool, c), c.count) = Denotes(pool, c)
    BY <1>1, <1>3, <1>4, LateLength
  <2> QED
    BY <1>1, <2>1 DEF Denotes
<1>8. Denotes(pool', col) = Denotes(pool, c) /\ pool'[col.data].tag = pool[c.data].tag
  <2>1. Denotes(pool', col) = Denotes(filled, col) /\ (col.data # Null => pool'[col.data].tag = filled[col.data].tag)
    BY <1>2, <1>6, SameValue
  <2> QED
    BY <1>1, <1>7, <2>1
<1>9. ASSUME task.kind # "distinct"
      PROVE  /\ Right(pool', col, wanted[at]) /\ Denotes(filled, col) = wanted[at].rows
             /\ wanted[at].rows # <<>> => filled[a].tag = wanted[at].tag
             /\ col.len >= Len(wanted[at].rows)
  <2>1. Right(pool, c, wanted[at])
    BY <1>3, <1>9 DEF Values, ReadRight, c
  <2>2. Len(Denotes(pool, c)) <= c.count
    BY <1>1, <1>3, <1>4, LateLength
  <2> QED
    BY <1>1, <1>7, <1>8, <2>1, <2>2 DEF Right, Fitting
<1>10. task.kind # "distinct" =>
               /\ Right(pool', col, wanted[Head(todo)]) /\ Denotes(filled, col) = wanted[Head(todo)].rows
               /\ wanted[Head(todo)].rows # <<>> => filled[a].tag = wanted[Head(todo)].tag
               /\ col.len >= Len(wanted[Head(todo)].rows)
  BY <1>9 DEF at
<1>11. HasColumn(Head(todo), col, Denotes(filled, col), filled[a].tag)
  BY <1>2 DEF at
<1> QED
  BY <1>4, <1>6, <1>10, <1>11, ColumnRight

\* A step of HandleMaterializeExpression reads what the plan means.
LEMMA MaterialiseRight ==
    ASSUME Structure, Structure', Values, Materialise
    PROVE  Values'
<1> DEFINE at == Head(todo)
           c == relation[at]
           col == Column(c.data, c.len)
<1>1. pc = "read" /\ todo # <<>>
  BY MaterialiseCases
<1>2. at \in InHand /\ c \in Cols /\ Sound(pool, c) /\ pool \in Seq(Blocks)
  BY <1>1, HeadSound, SoundStores
<1>3. task.kind # "distinct" => Right(pool, c, wanted[at])
  BY <1>1, <1>2 DEF Values, ReadRight
<1>4. Same(pool, pool)
  BY <1>2, GrowsSelf, SameGrows
<1>5. CASE /\ pool' = pool /\ pc' = pc /\ NothingToRead(c)
           /\ HasColumn(at, Empty, Denotes(pool, Empty), 0)
  <2>1. NothingToRead(c) /\ (task.kind # "distinct" => Right(pool, c, wanted[at]))
    BY <1>3, <1>5
  <2>2. Denotes(pool, Empty) = <<>> /\ Empty.len = 0
    BY EmptyFacts
  <2>3. task.kind # "distinct" => wanted[at].rows = <<>>
    <3> SUFFICES ASSUME task.kind # "distinct" PROVE wanted[at].rows = <<>>
      OBVIOUS
    <3>1. c.data = Null \/ (IF c.ids = Null THEN c.len ELSE c.count) = 0
      <4> HIDE DEF c
      <4> QED
        BY <1>2, <2>1 DEF NothingToRead, Right, Fitting, Cols
    <3>2. Denotes(pool, c) = <<>>
      <4> HIDE DEF c
      <4> QED
        BY <1>2, <3>1, EmptyColumn
    <3> QED
      BY <2>1, <3>2 DEF Right
  <2>4. task.kind # "distinct" => Right(pool', Empty, wanted[at]) /\ Len(wanted[at].rows) = 0
    BY <2>3, EmptyRight
  <2> QED
    BY <1>1, <1>4, <1>5, <2>2, <2>3, <2>4, ColumnRight
<1>6. CASE /\ pool' = pool /\ pc' = pc /\ c.ids = Null /\ ~NothingToRead(c)
           /\ HasColumn(at, col, Denotes(pool, col), pool[c.data].tag)
  <2>1. Denotes(pool, col) = Denotes(pool, c) /\ col.data = c.data /\ col.ids = Null /\ col.len = c.len /\ c.len \in Nat
    <3> HIDE DEF c
    <3> QED
      BY <1>2, <1>6, WholeColumn, ColumnFacts DEF Cols
  <2>2. c.data # Null
    BY <1>6 DEF NothingToRead
  <2>3. Len(Denotes(pool, c)) <= c.len
    <3>1. c.data \in DOMAIN pool
      BY <1>2, <2>2 DEF Sound, SoundData
    <3>2. pool[c.data].rows \in Seq(Int)
      BY <1>2, <3>1, BlockRows
    <3> DEFINE rows == pool[c.data].rows
    <3>3. Denotes(pool, c) = Take(rows, c.len)
      BY <1>6, <2>2 DEF Denotes
    <3> HIDE DEF rows, c
    <3>4. Len(Take(rows, c.len)) = (IF c.len < Len(rows) THEN c.len ELSE Len(rows)) /\ Len(rows) \in Nat
      BY <2>1, <3>2, TakeFacts, SeqFacts DEF rows
    <3> QED
      BY <2>1, <3>3, <3>4
  <2> HIDE DEF c, col
  <2>4. task.kind # "distinct" =>
               /\ Right(pool', col, wanted[at]) /\ Denotes(pool, col) = wanted[at].rows
               /\ wanted[at].rows # <<>> => pool[c.data].tag = wanted[at].tag
               /\ col.len >= Len(wanted[at].rows)
    <3> SUFFICES ASSUME task.kind # "distinct"
                 PROVE  /\ Right(pool, col, wanted[at]) /\ Denotes(pool, col) = wanted[at].rows
                        /\ wanted[at].rows # <<>> => pool[c.data].tag = wanted[at].tag
                        /\ col.len >= Len(wanted[at].rows)
      BY <1>6
    <3>1. Right(pool, c, wanted[at])
      BY <1>3
    <3>2. Len(wanted[at].rows) <= c.len
      BY <2>3, <3>1 DEF Right
    <3> HIDE DEF at
    <3> QED
      BY <2>1, <2>2, <3>1, <3>2 DEF Right, Fitting
  <2> QED
    BY <1>1, <1>4, <1>6, <2>4, ColumnRight
<1>7. CASE \E a \in Places(pool) : LateRead(c, a)
  <2>1. PICK a \in Places(pool) : LateRead(c, a)
    BY <1>7
  <2> QED
    BY <1>1, <2>1, LateRight
<1>8. \/ pool' = pool /\ pc' = pc /\ NothingToRead(c) /\ HasColumn(at, Empty, Denotes(pool, Empty), 0)
      \/ /\ pool' = pool /\ pc' = pc /\ c.ids = Null /\ ~NothingToRead(c)
         /\ HasColumn(at, col, Denotes(pool, col), pool[c.data].tag)
      \/ \E a \in Places(pool) : LateRead(c, a)
  BY MaterialiseCases
<1> HIDE DEF at, c, col
<1> QED
  BY <1>5, <1>6, <1>7, <1>8

-----------------------------------------------------------------------------
(* Composing row ids *)

\* A gather of a gather gathers by the composed row ids.
LEMMA PickPick ==
    ASSUME NEW data \in Seq(Int), NEW ids \in Seq(Int), NEW at \in Seq(Int), NEW n \in Nat,
           \A k \in 1 .. Len(at) : at[k] \in 1 .. Len(Take(ids, n))
    PROVE  Pick(data, Take(Pick(ids, at), Len(at))) = Pick(Pick(data, Take(ids, n)), at)
<1> DEFINE first == Take(ids, n)
           both == Pick(ids, at)
           some == Pick(data, first)
<1>1. Len(ids) \in Nat /\ Len(at) \in Nat
  BY SeqFacts
<1>2. /\ first \in Seq(Int) /\ Len(first) <= Len(ids) /\ Len(first) \in Nat
      /\ \A i \in 1 .. Len(first) : first[i] = ids[i]
  BY <1>1, TakeFacts
<1>3. both \in Seq(Int) /\ Len(both) = Len(at) /\ \A k \in 1 .. Len(at) : both[k] = IF at[k] \in 1 .. Len(ids) THEN ids[at[k]] ELSE 0
  BY PickFacts
<1>4. \A k \in 1 .. Len(at) : at[k] \in 1 .. Len(first)
  OBVIOUS
<1> HIDE DEF first, both
<1>5. \A k \in 1 .. Len(at) : both[k] = first[at[k]]
  <2> TAKE k \in 1 .. Len(at)
  <2>1. at[k] \in 1 .. Len(first)
    BY <1>4
  <2>2. at[k] \in 1 .. Len(ids) /\ first[at[k]] = ids[at[k]]
    <3> DEFINE x == at[k]
    <3>1. x \in 1 .. Len(first)
      BY <2>1
    <3> HIDE DEF x
    <3>2. x \in 1 .. Len(ids)
      BY <1>1, <1>2, <3>1
    <3>3. first[x] = ids[x]
      BY <1>2, <3>1
    <3> QED
      BY <3>2, <3>3 DEF x
  <2> QED
    BY <1>3, <2>2
<1>6. Take(both, Len(at)) = both
  BY <1>1, <1>3, TakeFacts
<1>7. some \in Seq(Int) /\ Len(some) = Len(first) /\ \A i \in 1 .. Len(first) : some[i] = IF first[i] \in 1 .. Len(data) THEN data[first[i]] ELSE 0
  BY <1>2, PickFacts
<1> HIDE DEF some
<1> DEFINE l == Pick(data, both)
           r == Pick(some, at)
<1>12. both \in Seq(Int) /\ some \in Seq(Int)
  BY <1>3, <1>7
<1>8. l \in Seq(Int) /\ Len(l) = Len(at) /\ \A k \in 1 .. Len(at) : l[k] = IF both[k] \in 1 .. Len(data) THEN data[both[k]] ELSE 0
  <2>1. l \in Seq(Int) /\ Len(l) = Len(both)
    BY <1>12, PickFacts
  <2>2. \A k \in 1 .. Len(both) : l[k] = IF both[k] \in 1 .. Len(data) THEN data[both[k]] ELSE 0
    BY <1>12, PickFacts
  <2> QED
    BY <1>3, <2>1, <2>2
<1>9. r \in Seq(Int) /\ Len(r) = Len(at) /\ \A k \in 1 .. Len(at) : r[k] = IF at[k] \in 1 .. Len(some) THEN some[at[k]] ELSE 0
  BY <1>12, PickFacts
<1> HIDE DEF l, r
<1>10. \A k \in 1 .. Len(at) : l[k] = r[k]
  <2> TAKE k \in 1 .. Len(at)
  <2>1. r[k] = some[at[k]] /\ at[k] \in 1 .. Len(first)
    BY <1>4, <1>7, <1>9
  <2>2. some[at[k]] = IF first[at[k]] \in 1 .. Len(data) THEN data[first[at[k]]] ELSE 0
    BY <1>7, <2>1
  <2> QED
    BY <1>5, <1>8, <2>1, <2>2
<1>11. l = r
  BY <1>8, <1>9, <1>10, SameSeq
<1> QED
  BY <1>6, <1>11 DEF l, r, some, first, both

\* A gather of what is kept of a column gathers from the column.
LEMMA PickTake ==
    ASSUME NEW data \in Seq(Int), NEW at \in Seq(Int), NEW n \in Nat,
           \A k \in 1 .. Len(at) : at[k] \in 1 .. Len(Take(data, n))
    PROVE  Pick(data, Take(at, Len(at))) = Pick(Take(data, n), at)
<1> DEFINE first == Take(data, n)
           l == Pick(data, at)
           r == Pick(first, at)
<1>1. Len(data) \in Nat /\ Len(at) \in Nat
  BY SeqFacts
<1>2. /\ first \in Seq(Int) /\ Len(first) <= Len(data) /\ Len(first) \in Nat
      /\ \A i \in 1 .. Len(first) : first[i] = data[i]
  BY <1>1, TakeFacts
<1>3. \A k \in 1 .. Len(at) : at[k] \in 1 .. Len(first)
  OBVIOUS
<1>4. Take(at, Len(at)) = at
  BY <1>1, TakeFacts
<1> HIDE DEF first
<1>5. l \in Seq(Int) /\ Len(l) = Len(at) /\ \A k \in 1 .. Len(at) : l[k] = IF at[k] \in 1 .. Len(data) THEN data[at[k]] ELSE 0
  BY PickFacts
<1>6. r \in Seq(Int) /\ Len(r) = Len(at) /\ \A k \in 1 .. Len(at) : r[k] = IF at[k] \in 1 .. Len(first) THEN first[at[k]] ELSE 0
  BY <1>2, PickFacts
<1> HIDE DEF l, r
<1>7. \A k \in 1 .. Len(at) : l[k] = r[k]
  <2> TAKE k \in 1 .. Len(at)
  <2>1. at[k] \in 1 .. Len(first)
    BY <1>3
  <2>2. at[k] \in 1 .. Len(data) /\ first[at[k]] = data[at[k]]
    BY <1>1, <1>2, <2>1
  <2> QED
    BY <1>5, <1>6, <2>1, <2>2
<1>8. l = r
  BY <1>5, <1>6, <1>7, SameSeq
<1> QED
  BY <1>4, <1>8 DEF l, r, first

\* What is to be narrowed is there, and not empty.
LEMMA NarrowsFacts ==
    ASSUME NEW p \in Seq(Blocks), NEW c \in Cols, Sound(p, c), NEW at, at \in DOMAIN p, p[at].rows # <<>>,
           NEW w, NarrowsTo(p, c, at, w)
    PROVE  /\ c.data # Null /\ p[c.data].tag = w.tag /\ (c.ids # Null => c.count # 0) /\ c.len > 0
           /\ w.rows = Pick(Denotes(p, c), p[at].rows)
           /\ \A k \in 1 .. Len(p[at].rows) : p[at].rows[k] \in 1 .. Len(Denotes(p, c))
           /\ p[at].rows \in Seq(Int) /\ Len(p[at].rows) \in Nat /\ Len(p[at].rows) # 0
<1> DEFINE rows == p[at].rows
           d == Denotes(p, c)
<1>1. rows \in Seq(Int)
  BY BlockRows
<1>2. rows # <<>> /\ Pick(d, rows) = w.rows /\ \A k \in DOMAIN rows : rows[k] \in 1 .. Len(d)
  BY DEF NarrowsTo
<1>3. d \in Seq(Int)
  BY DenotesFacts
<1>4. Denotes(p, c) # <<>> /\ Len(rows) \in Nat /\ Len(rows) # 0 /\ DOMAIN rows = 1 .. Len(rows)
  <2> HIDE DEF rows
  <2>1. Len(rows) \in Nat /\ Len(rows) # 0 /\ DOMAIN rows = 1 .. Len(rows)
    BY <1>1, <1>2, SeqFacts
  <2>2. rows[1] \in 1 .. Len(d)
    BY <1>2, <2>1
  <2> HIDE DEF d
  <2>3. d # <<>>
    BY <1>3, <2>2, SeqFacts
  <2> QED
    BY <2>1, <2>3 DEF d
<1>5. c.data # Null /\ (c.ids # Null => c.count # 0)
  BY <1>4 DEF Denotes
<1>6. p[c.data].tag = w.tag
  BY <1>5 DEF NarrowsTo
<1>7. c.len > 0
  <2>1. CASE c.ids # Null
    BY <1>5, <2>1 DEF NarrowsTo, Fitting, Cols
  <2>2. CASE c.ids = Null
    <3>1. c.len # 0
      BY <1>4, <2>2, EmptyColumn
    <3> QED
      BY <3>1 DEF Cols
  <2> QED
    BY <2>1, <2>2
<1> QED
  BY <1>1, <1>2, <1>4, <1>5, <1>6, <1>7

\* It stays so when blocks are added or freed elsewhere.
LEMMA NarrowsSame ==
    ASSUME NEW p, NEW q, Same(p, q), NEW c, Sound(p, c), NEW at, at # Null, SoundIds(p, at), NEW w, NarrowsTo(p, c, at, w)
    PROVE  NarrowsTo(q, c, at, w)
<1>1. Denotes(q, c) = Denotes(p, c) /\ (c.data # Null => q[c.data].tag = p[c.data].tag)
  BY SameValue
<1>2. q[at].rows = p[at].rows
  BY DEF Same, SoundIds
<1> QED
  BY <1>1, <1>2 DEF NarrowsTo

\* A column without row ids takes those that select.
LEMMA TakesIds ==
    ASSUME NEW p \in Seq(Blocks), NEW c \in Cols, Sound(p, c), NEW at \in DOMAIN p, at # Null, p[at].rows # <<>>,
           NEW w, NarrowsTo(p, c, at, w), c.ids = Null
    PROVE  Right(p, WithIds(c, at, Len(p[at].rows)), w)
<1> DEFINE rows == p[at].rows
           new == WithIds(c, at, Len(rows))
           data == p[c.data].rows
<1>1. /\ c.data # Null /\ p[c.data].tag = w.tag /\ c.len > 0 /\ w.rows = Pick(Denotes(p, c), rows)
      /\ \A k \in 1 .. Len(rows) : rows[k] \in 1 .. Len(Denotes(p, c))
      /\ rows \in Seq(Int) /\ Len(rows) \in Nat /\ Len(rows) # 0
  BY NarrowsFacts
<1>2. new.data = c.data /\ new.ids = at /\ new.count = Len(rows) /\ new.len = c.len
  BY DEF WithIds, Cols
<1>3. data \in Seq(Int) /\ c.len \in Nat
  <2>1. c.data \in DOMAIN p
    BY <1>1 DEF Sound, SoundData
  <2> QED
    BY <2>1, BlockRows DEF Cols
<1>4. Denotes(p, c) = Take(data, c.len)
  BY <1>1 DEF Denotes
<1>5. Denotes(p, new) = Pick(data, Take(rows, Len(rows)))
  <2> HIDE DEF new
  <2> QED
    BY <1>1, <1>2 DEF Denotes
<1> HIDE DEF rows, new, data
<1>6. Denotes(p, new) = w.rows
  BY <1>1, <1>3, <1>4, <1>5, PickTake
<1>7. Right(p, new, w)
  BY <1>1, <1>2, <1>6 DEF Right, Fitting
<1> QED
  BY <1>7 DEF new, rows

\* A late column takes the composed row ids.
LEMMA TakesComposed ==
    ASSUME NEW p \in Seq(Blocks), NEW q, Same(p, q), NEW c \in Cols, Sound(p, c), NEW at \in DOMAIN p, p[at].rows # <<>>,
           NEW w, NarrowsTo(p, c, at, w), c.ids # Null,
           NEW a, a # Null, q[a].rows = Pick(p[c.ids].rows, p[at].rows)
    PROVE  Right(q, WithIds(c, a, Len(p[at].rows)), w)
<1> DEFINE rows == p[at].rows
           new == WithIds(c, a, Len(rows))
           data == p[c.data].rows
           ids == p[c.ids].rows
<1>1. /\ c.data # Null /\ p[c.data].tag = w.tag /\ c.len > 0 /\ w.rows = Pick(Denotes(p, c), rows) /\ c.count # 0
      /\ \A k \in 1 .. Len(rows) : rows[k] \in 1 .. Len(Denotes(p, c))
      /\ rows \in Seq(Int) /\ Len(rows) \in Nat /\ Len(rows) # 0
  BY NarrowsFacts
<1>2. new.data = c.data /\ new.ids = a /\ new.count = Len(rows) /\ new.len = c.len
  BY DEF WithIds, Cols
<1>3. /\ Denotes(p, c) = Pick(data, Take(ids, c.count)) /\ data \in Seq(Int) /\ ids \in Seq(Int)
      /\ Len(Denotes(p, c)) = Len(Take(ids, c.count)) /\ c.count \in Nat
  BY <1>1, LateLength DEF Cols
<1>4. q[c.data].rows = data /\ q[c.data].tag = p[c.data].tag /\ q[a].rows = Pick(ids, rows)
  BY <1>1, SameValue
<1>5. Denotes(q, new) = Pick(data, Take(Pick(ids, rows), Len(rows)))
  <2> HIDE DEF new
  <2> QED
    BY <1>1, <1>2, <1>4 DEF Denotes
<1> HIDE DEF rows, new, data, ids
<1>6. \A k \in 1 .. Len(rows) : rows[k] \in 1 .. Len(Take(ids, c.count))
  BY <1>1, <1>3
<1>7. Denotes(q, new) = Pick(Pick(data, Take(ids, c.count)), rows)
  BY <1>1, <1>3, <1>5, <1>6, PickPick
<1>8. Denotes(q, new) = w.rows
  BY <1>1, <1>3, <1>7
<1>9. Right(q, new, w)
  BY <1>1, <1>2, <1>4, <1>8 DEF Right, Fitting
<1> QED
  BY <1>9 DEF new, rows

\* What Structure says of the columns that still have to be narrowed.
LEMMA FromSound ==
    ASSUME Structure, pc = "compose"
    PROVE  /\ pool \in Seq(Blocks) /\ moving.at \in DOMAIN pool /\ moving.at # Null /\ SoundIds(pool, moving.at)
           /\ moving.right # <<>> => moving.rightAt # Null /\ SoundIds(pool, moving.rightAt)
           /\ \A m \in DOMAIN moving.moved : SoundIds(pool, moving.moved[m]) /\ moving.moved[m] # Null
           /\ Len(moving.from) \in Nat /\ DOMAIN moving.from = 1 .. Len(moving.from)
           /\ Len(moving.out) \in Nat /\ DOMAIN moving.out = 1 .. Len(moving.out)
           /\ Len(moving.right) \in Nat /\ DOMAIN moving.right = 1 .. Len(moving.right)
           /\ \A i \in DOMAIN moving.from :
                 /\ moving.from[i] \in Cols /\ SoundData(pool, moving.from[i])
                 /\ moving.from[i].ids \notin DOMAIN moving.moved => Sound(pool, moving.from[i])
           /\ \A i \in DOMAIN moving.out : moving.out[i] \in Cols /\ Sound(pool, moving.out[i])
           /\ \A i \in DOMAIN moving.right : moving.right[i] \in Cols /\ Sound(pool, moving.right[i])
<1>1. /\ pool \in Seq(Blocks) /\ moving.from \in Seq(Cols) /\ moving.out \in Seq(Cols) /\ moving.right \in Seq(Cols)
      /\ ComposingIn(pool, moving, Lent \cup Hashed)
      /\ UseIn(pool, ToSet(moving.out) \cup ToSet(moving.right), ToSet(moving.from), Lent \cup Hashed)
  BY SoundCompose
<1>2. /\ moving.at # Null /\ SoundIds(pool, moving.at)
      /\ moving.right # <<>> => moving.rightAt # Null /\ SoundIds(pool, moving.rightAt)
      /\ \A m \in DOMAIN moving.moved : SoundIds(pool, moving.moved[m]) /\ moving.moved[m] # Null
  BY <1>1 DEF ComposingIn, NewIds
<1>3. moving.at \in DOMAIN pool
  BY <1>2 DEF SoundIds
<1>4. \A c \in ToSet(moving.from) : SoundData(pool, c) /\ (c.ids \notin DOMAIN moving.moved => SoundIds(pool, c.ids))
  BY <1>1 DEF ComposingIn, OldIds
<1>5. \A c \in ToSet(moving.out) \cup ToSet(moving.right) : Sound(pool, c)
  BY <1>1 DEF UseIn
<1>6. Len(moving.from) \in Nat /\ DOMAIN moving.from = 1 .. Len(moving.from) /\ \A i \in DOMAIN moving.from : moving.from[i] \in Cols /\ moving.from[i] \in ToSet(moving.from)
  BY <1>1, SeqFacts
<1>7. Len(moving.out) \in Nat /\ DOMAIN moving.out = 1 .. Len(moving.out) /\ \A i \in DOMAIN moving.out : moving.out[i] \in Cols /\ moving.out[i] \in ToSet(moving.out)
  BY <1>1, SeqFacts
<1>8. Len(moving.right) \in Nat /\ DOMAIN moving.right = 1 .. Len(moving.right) /\ \A i \in DOMAIN moving.right : moving.right[i] \in Cols /\ moving.right[i] \in ToSet(moving.right)
  BY <1>1, SeqFacts
<1>9. \A i \in DOMAIN moving.from : moving.from[i].ids \notin DOMAIN moving.moved => Sound(pool, moving.from[i])
  BY <1>4, <1>6 DEF Sound
<1> QED
  BY <1>1, <1>2, <1>3, <1>4, <1>5, <1>6, <1>7, <1>8, <1>9

\* A column that waits keeps what it stands for when its row ids are not composed.
LEMMA WaitsRight ==
    ASSUME NEW p \in Seq(Blocks), NEW q, Same(p, q), NEW mv, NEW nv, nv.at = mv.at, mv.at # Null, SoundIds(p, mv.at),
           \A m \in DOMAIN mv.moved : m \in DOMAIN nv.moved /\ nv.moved[m] = mv.moved[m] /\ SoundIds(p, mv.moved[m]),
           NEW c \in Cols, NEW w, StillRight(p, mv, c, w), SoundData(p, c),
           c.ids \notin DOMAIN mv.moved => Sound(p, c) /\ c.ids \notin DOMAIN nv.moved
    PROVE  StillRight(q, nv, c, w)
<1>1. q[mv.at].rows = p[mv.at].rows
  BY DEF Same, SoundIds
<1>2. CASE c.ids \in DOMAIN mv.moved
  <2> DEFINE new == WithIds(c, mv.moved[c.ids], Len(p[mv.at].rows))
  <2>1. Right(p, new, w)
    BY <1>2 DEF StillRight
  <2>2. new.data = c.data /\ new.ids = mv.moved[c.ids]
    BY DEF WithIds, Cols
  <2>3. new = WithIds(c, nv.moved[c.ids], Len(q[nv.at].rows))
    BY <1>1, <1>2
  <2> HIDE DEF new
  <2>4. Sound(p, new)
    BY <1>2, <2>2 DEF Sound, SoundData
  <2>5. Right(q, new, w)
    BY <2>1, <2>4, RightSame
  <2> QED
    BY <1>2, <2>3, <2>5 DEF StillRight
<1>3. CASE c.ids \notin DOMAIN mv.moved
  <2>1. NarrowsTo(p, c, mv.at, w) /\ Sound(p, c)
    BY <1>3 DEF StillRight
  <2>2. NarrowsTo(q, c, mv.at, w)
    BY <2>1, NarrowsSame
  <2> QED
    BY <1>3, <2>2 DEF StillRight
<1> QED
  BY <1>2, <1>3

\* What is left to show of a step that gives one column its row ids.
LEMMA MovedRight ==
    ASSUME Structure, Structure', Values, pc = "compose", moving.from # <<>>, NEW ids \in Nat, NEW p, NEW moved,
           Moved(ids, p, moved), pc' = "compose", MovingLeaves, Same(pool, p), Null \notin DOMAIN moved,
           Right(p, MovedTo(Head(moving.from), ids), wanted[Len(moving.out) + 1]),
           \A k \in 2 .. Len(moving.from) : StillRight(p, moving', moving.from[k], wanted[Len(moving.out) + k])
    PROVE  Values'
<1> DEFINE c == Head(moving.from)
           new == MovedTo(c, ids)
           o == Len(moving.out)
           f == Len(moving.from)
           r == Len(moving.right)
<1>1. pool' = p /\ moving'.moved = moved /\ moving'.at = moving.at
  BY MovedFacts
<1>2. moving'.right = moving.right /\ moving'.rightAt = moving.rightAt
  BY MovedFacts
<1>3. Len(moving'.out) = o + 1 /\ Len(moving'.from) = f - 1 /\ o \in Nat /\ f \in Nat /\ r \in Nat
  BY MovedFacts
<1>4. /\ \A i \in 1 .. o : moving'.out[i] = moving.out[i]
      /\ moving'.out[o + 1] = new
      /\ \A i \in 1 .. f - 1 : moving'.from[i] = moving.from[i + 1]
  BY MovedFacts
<1>5. DOMAIN moving'.out = 1 .. o + 1 /\ DOMAIN moving'.from = 1 .. f - 1
  <2>1. moving' \in Movings(moved)
    BY MovedFacts
  <2>2. moving'.out \in Seq(Cols) /\ moving'.from \in Seq(Cols)
    BY <2>1 DEF Movings
  <2> QED
    BY <1>3, <2>2, SeqFacts
<1>6. wanted' = wanted /\ cte' = cte /\ built' = built /\ sorted' = sorted
  BY DEF MovingLeaves
<1>7. /\ Uniform(wanted) /\ pool[moving.at].rows # <<>> /\ (moving.right # <<>> => pool[moving.rightAt].rows # <<>>)
      /\ \A i \in DOMAIN moving.out : Right(pool, moving.out[i], wanted[i])
      /\ \A k \in DOMAIN moving.right : NarrowsTo(pool, moving.right[k], moving.rightAt, wanted[o + f + k])
  BY DEF Values, ComposeRight
<1>8. /\ moving.at # Null /\ SoundIds(pool, moving.at)
      /\ moving.right # <<>> => moving.rightAt # Null /\ SoundIds(pool, moving.rightAt)
      /\ DOMAIN moving.right = 1 .. r /\ DOMAIN moving.out = 1 .. o
      /\ \A i \in DOMAIN moving.right : Sound(pool, moving.right[i])
      /\ \A i \in DOMAIN moving.out : Sound(pool, moving.out[i])
  BY FromSound
<1>9. pool'[moving'.at].rows # <<>> /\ (moving'.right # <<>> => pool'[moving'.rightAt].rows # <<>>)
  BY <1>1, <1>2, <1>7, <1>8 DEF Same, SoundIds
<1>10. \A k \in 2 .. f : StillRight(p, moving', moving.from[k], wanted[o + k])
  OBVIOUS
<1>11. Right(p, new, wanted[o + 1])
  OBVIOUS
<1>12. \A k \in DOMAIN moving.right : moving.right # <<>>
  <2>1. moving.right = <<>> => r = 0
    OBVIOUS
  <2> QED
    BY <1>8, <2>1
<1> HIDE DEF o, f, r, new
<1>13. \A i \in DOMAIN moving'.out : Right(pool', moving'.out[i], wanted'[i])
  <2> SUFFICES ASSUME NEW i \in 1 .. o + 1 PROVE Right(p, moving'.out[i], wanted[i])
    BY <1>1, <1>5, <1>6
  <2>1. CASE i = o + 1
    BY <1>4, <1>11, <2>1
  <2>2. CASE i # o + 1
    <3>1. i \in 1 .. o
      BY <1>3, <2>2
    <3>2. Right(pool, moving.out[i], wanted[i]) /\ Sound(pool, moving.out[i]) /\ moving'.out[i] = moving.out[i]
      BY <1>4, <1>7, <1>8, <3>1
    <3> QED
      BY <3>2, RightSame
  <2> QED
    BY <2>1, <2>2
<1>14. \A k \in DOMAIN moving'.from : StillRight(pool', moving', moving'.from[k], wanted'[Len(moving'.out) + k])
  <2> SUFFICES ASSUME NEW k \in 1 .. f - 1 PROVE StillRight(p, moving', moving'.from[k], wanted[Len(moving'.out) + k])
    BY <1>1, <1>5, <1>6
  <2>1. k + 1 \in 2 .. f /\ Len(moving'.out) + k = o + (k + 1) /\ moving'.from[k] = moving.from[k + 1]
    BY <1>3, <1>4
  <2> QED
    BY <1>10, <2>1
<1>15. \A k \in DOMAIN moving'.right :
          NarrowsTo(pool', moving'.right[k], moving'.rightAt, wanted'[Len(moving'.out) + Len(moving'.from) + k])
  <2> SUFFICES ASSUME NEW k \in 1 .. r
               PROVE  NarrowsTo(p, moving.right[k], moving.rightAt, wanted[Len(moving'.out) + Len(moving'.from) + k])
    BY <1>1, <1>2, <1>6, <1>8
  <2>1. Len(moving'.out) + Len(moving'.from) + k = o + f + k
    BY <1>3
  <2>2. /\ NarrowsTo(pool, moving.right[k], moving.rightAt, wanted[o + f + k]) /\ Sound(pool, moving.right[k])
        /\ moving.rightAt # Null /\ SoundIds(pool, moving.rightAt)
    BY <1>7, <1>8, <1>12
  <2>3. NarrowsTo(p, moving.right[k], moving.rightAt, wanted[o + f + k])
    BY <2>2, NarrowsSame
  <2> QED
    BY <2>1, <2>3
<1>16. ComposeRight'
  BY <1>1, <1>6, <1>7, <1>9, <1>13, <1>14, <1>15 DEF ComposeRight
<1>17. StoresRight'
  BY <1>1, <1>6, StoresRightStay DEF Values
<1> QED
  BY <1>16, <1>17 DEF Values, ReadyRight, ReadRight, AnswerIsWanted

\* What waits and what is given row ids, before the step.
LEMMA WaitingFacts ==
    ASSUME Structure, Values, pc = "compose", moving.from # <<>>
    PROVE  LET c == Head(moving.from)
           IN  /\ c = moving.from[1] /\ c \in Cols /\ 1 \in DOMAIN moving.from
               /\ StillRight(pool, moving, c, wanted[Len(moving.out) + 1])
               /\ SoundData(pool, c) /\ (c.ids \notin DOMAIN moving.moved => Sound(pool, c))
               /\ Null \notin DOMAIN moving.moved /\ pool[moving.at].rows # <<>>
               /\ \A ids : MovedTo(c, ids) = WithIds(c, ids, Len(pool[moving.at].rows))
<1> DEFINE c == Head(moving.from)
<1>1. c = moving.from[1] /\ 1 \in DOMAIN moving.from
  <2>1. moving.from \in Seq(Cols)
    BY SoundCompose
  <2> QED
    BY <2>1, TailFacts, SeqFacts
<1>2. c \in Cols /\ SoundData(pool, c) /\ (c.ids \notin DOMAIN moving.moved => Sound(pool, c))
  BY <1>1, FromSound
<1>3. /\ StillRight(pool, moving, c, wanted[Len(moving.out) + 1])
      /\ Null \notin DOMAIN moving.moved /\ pool[moving.at].rows # <<>>
  BY <1>1 DEF Values, ComposeRight
<1> QED
  BY <1>1, <1>2, <1>3 DEF MovedTo, WithIds

\* The others wait on when no row ids are composed.
LEMMA WaitingStays ==
    ASSUME Structure, Values, pc = "compose", moving.from # <<>>, NEW q, Same(pool, q), NEW nv, nv.at = moving.at,
           \A m \in DOMAIN moving.moved : m \in DOMAIN nv.moved /\ nv.moved[m] = moving.moved[m],
           NEW k \in DOMAIN moving.from, moving.from[k].ids \in DOMAIN nv.moved => moving.from[k].ids \in DOMAIN moving.moved
    PROVE  StillRight(q, nv, moving.from[k], wanted[Len(moving.out) + k])
<1>1. StillRight(pool, moving, moving.from[k], wanted[Len(moving.out) + k])
  BY DEF Values, ComposeRight
<1>2. /\ pool \in Seq(Blocks) /\ moving.at # Null /\ SoundIds(pool, moving.at)
      /\ \A m \in DOMAIN moving.moved : SoundIds(pool, moving.moved[m])
      /\ moving.from[k] \in Cols /\ SoundData(pool, moving.from[k])
      /\ moving.from[k].ids \notin DOMAIN moving.moved => Sound(pool, moving.from[k])
  BY FromSound
<1> QED
  BY <1>1, <1>2, WaitsRight

\* The selecting row ids are taken as they are, or those composed before.
LEMMA ComposeSharedRight ==
    ASSUME Structure, Structure', Values, pc = "compose", moving.from # <<>>, NEW ids, Moved(ids, pool, moving.moved),
           pc' = pc, MovingLeaves,
           \/ Head(moving.from).ids = Null /\ ids = moving.at
           \/ Head(moving.from).ids \in DOMAIN moving.moved /\ ids = moving.moved[Head(moving.from).ids]
    PROVE  Values'
<1> DEFINE c == Head(moving.from)
           w == wanted[Len(moving.out) + 1]
           n == Len(pool[moving.at].rows)
<1>1. /\ c \in Cols /\ StillRight(pool, moving, c, w) /\ (c.ids \notin DOMAIN moving.moved => Sound(pool, c))
      /\ Null \notin DOMAIN moving.moved /\ pool[moving.at].rows # <<>>
      /\ MovedTo(c, ids) = WithIds(c, ids, n)
  BY WaitingFacts
<1>2. pool \in Seq(Blocks) /\ moving.at \in DOMAIN pool /\ moving.at # Null
      /\ DOMAIN moving.from = 1 .. Len(moving.from) /\ Len(moving.from) \in Nat
  BY FromSound
<1>3. ids \in Nat
  BY SoundCompose
<1>4. Same(pool, pool)
  BY <1>2, GrowsSelf, SameGrows
<1>5. pool' = pool /\ moving'.at = moving.at /\ moving'.moved = moving.moved
  BY <1>3, MovedFacts
<1>6. Right(pool, MovedTo(c, ids), w)
  <2> HIDE DEF c, w
  <2>1. CASE c.ids = Null /\ ids = moving.at
    <3>1. NarrowsTo(pool, c, moving.at, w) /\ Sound(pool, c)
      BY <1>1, <2>1 DEF StillRight
    <3> QED
      BY <1>1, <1>2, <2>1, <3>1, TakesIds
  <2>2. CASE c.ids \in DOMAIN moving.moved /\ ids = moving.moved[c.ids]
    BY <1>1, <2>2 DEF StillRight
  <2> QED
    BY <2>1, <2>2 DEF c
<1>7. \A k \in 2 .. Len(moving.from) : StillRight(pool, moving', moving.from[k], wanted[Len(moving.out) + k])
  <2> TAKE k \in 2 .. Len(moving.from)
  <2>1. k \in DOMAIN moving.from
    BY <1>2
  <2> QED
    BY <1>4, <1>5, <2>1, WaitingStays
<1> QED
  BY <1>1, <1>3, <1>4, <1>6, <1>7, MovedRight

\* Row ids that several columns share are composed once, for all of them.
LEMMA ComposeNewRight ==
    ASSUME Structure, Structure', Values, pc = "compose", moving.from # <<>>,
           Head(moving.from).ids # Null, Head(moving.from).ids \notin DOMAIN moving.moved,
           NEW a \in Places(pool),
           LET prev == Head(moving.from).ids
           IN  Moved(a, Freed(Composes(prev, a), prev), NewMoved(prev, a)),
           pc' = pc, MovingLeaves
    PROVE  Values'
<1> DEFINE c == Head(moving.from)
           prev == c.ids
           filled == Composes(prev, a)
           q == Freed(filled, prev)
           moved == NewMoved(prev, a)
           rows == pool[moving.at].rows
<1>1. /\ Grows(pool, filled) /\ prev \in DOMAIN filled /\ prev \in Nat /\ a \in Nat /\ a # Null
      /\ a \in DOMAIN q /\ q[a] = filled[a] /\ filled[a].rows = Pick(pool[prev].rows, rows)
  BY ComposesFacts
<1>2. Same(pool, q)
  BY <1>1, SameGrows, SameFreed
<1>3. q[a].rows = Pick(pool[prev].rows, rows)
  BY <1>1
<1>4. /\ c \in Cols /\ 1 \in DOMAIN moving.from /\ Sound(pool, c)
      /\ Null \notin DOMAIN moving.moved /\ rows # <<>>
      /\ MovedTo(c, a) = WithIds(c, a, Len(rows)) /\ c = moving.from[1]
  BY WaitingFacts
<1>5. pool \in Seq(Blocks) /\ moving.at \in DOMAIN pool /\ moving.at # Null /\ SoundIds(pool, moving.at)
      /\ DOMAIN moving.from = 1 .. Len(moving.from) /\ Len(moving.from) \in Nat
  BY FromSound
<1>6. /\ DOMAIN moved = DOMAIN moving.moved \cup {prev} /\ moved[prev] = a
      /\ \A m \in DOMAIN moving.moved : moved[m] = moving.moved[m]
  BY DEF NewMoved
<1>7. Moved(a, q, moved) /\ prev # Null /\ prev \notin DOMAIN moving.moved
  OBVIOUS
<1>8. moving'.at = moving.at /\ moving'.moved = moved
  <2> HIDE DEF q, moved
  <2> QED
    BY <1>1, <1>7, MovedFacts
<1>9. q[moving.at].rows = rows
  BY <1>2, <1>5 DEF Same, SoundIds
<1>10. \A k \in DOMAIN moving.from : moving.from[k].ids = prev
         => Right(q, WithIds(moving.from[k], a, Len(rows)), wanted[Len(moving.out) + k])
  <2> SUFFICES ASSUME NEW k \in DOMAIN moving.from, moving.from[k].ids = prev
               PROVE  Right(q, WithIds(moving.from[k], a, Len(rows)), wanted[Len(moving.out) + k])
    OBVIOUS
  <2> DEFINE d == moving.from[k]
             w == wanted[Len(moving.out) + k]
  <2>1. d \in Cols /\ Sound(pool, d) /\ d.ids = prev
    BY <1>7, FromSound
  <2>2. NarrowsTo(pool, d, moving.at, w)
    <3>1. StillRight(pool, moving, d, w)
      BY DEF Values, ComposeRight
    <3> HIDE DEF d, w, prev
    <3> QED
      BY <1>7, <2>1, <3>1 DEF StillRight
  <2> HIDE DEF d, w, q, prev, c
  <2>3. q[a].rows = Pick(pool[d.ids].rows, pool[moving.at].rows) /\ d.ids # Null
    BY <1>3, <1>7, <2>1
  <2>4. Right(q, WithIds(d, a, Len(pool[moving.at].rows)), w)
    BY <1>1, <1>2, <1>4, <1>5, <2>1, <2>2, <2>3, TakesComposed
  <2> QED
    BY <2>4 DEF d, w
<1>11. Right(q, MovedTo(c, a), wanted[Len(moving.out) + 1])
  BY <1>4, <1>10
<1>12. \A k \in 2 .. Len(moving.from) : StillRight(q, moving', moving.from[k], wanted[Len(moving.out) + k])
  <2> SUFFICES ASSUME NEW k \in DOMAIN moving.from
               PROVE  StillRight(q, moving', moving.from[k], wanted[Len(moving.out) + k])
    BY <1>5
  <2> HIDE DEF q, moved, prev, rows
  <2>1. CASE moving.from[k].ids = prev
    BY <1>6, <1>8, <1>9, <1>10, <2>1 DEF StillRight
  <2>2. CASE moving.from[k].ids # prev
    BY <1>2, <1>6, <1>8, <2>2, WaitingStays
  <2> QED
    BY <2>1, <2>2
<1>13. Null \notin DOMAIN moved
  BY <1>4, <1>6, <1>7
<1> HIDE DEF q, moved, prev, rows
<1> QED
  BY <1>1, <1>2, <1>7, <1>11, <1>12, <1>13, MovedRight

\* A step of HandleMaterializeRowIDs.
LEMMA ComposeStepRight ==
    ASSUME Structure, Structure', Values, Compose
    PROVE  Values'
<1> DEFINE prev == Head(moving.from).ids
<1>1. pc = "compose" /\ moving.from # <<>> /\ MovingLeaves /\ pc' = pc
  BY ComposeCases
<1>2. \/ prev = Null /\ Moved(moving.at, pool, moving.moved)
      \/ prev \in DOMAIN moving.moved /\ Moved(moving.moved[prev], pool, moving.moved)
      \/ /\ prev # Null /\ prev \notin DOMAIN moving.moved
         /\ \E a \in Places(pool) : Moved(a, Freed(Composes(prev, a), prev), NewMoved(prev, a))
  BY ComposeCases
<1>3. CASE prev = Null /\ Moved(moving.at, pool, moving.moved)
  BY <1>1, <1>3, ComposeSharedRight
<1>4. CASE prev \in DOMAIN moving.moved /\ Moved(moving.moved[prev], pool, moving.moved)
  BY <1>1, <1>4, ComposeSharedRight
<1>5. CASE /\ prev # Null /\ prev \notin DOMAIN moving.moved
           /\ \E a \in Places(pool) : Moved(a, Freed(Composes(prev, a), prev), NewMoved(prev, a))
  BY <1>1, <1>5, ComposeNewRight
<1> QED
  BY <1>2, <1>3, <1>4, <1>5

\* All columns of one side have their row ids.
LEMMA ComposedRight ==
    ASSUME Structure, Structure', Values, Composed
    PROVE  Values'
<1>1. pc = "compose" /\ moving.from = <<>> /\ pool' = pool /\ wanted' = wanted /\ cte' = cte /\ built' = built /\ sorted' = sorted
  BY DEF Composed
<1>2. /\ Uniform(wanted) /\ (moving.right # <<>> => pool[moving.rightAt].rows # <<>>)
      /\ \A i \in DOMAIN moving.out : Right(pool, moving.out[i], wanted[i])
      /\ \A k \in DOMAIN moving.right :
            NarrowsTo(pool, moving.right[k], moving.rightAt, wanted[Len(moving.out) + Len(moving.from) + k])
  BY <1>1 DEF Values, ComposeRight
<1>3. StoresRight'
  <2>1. Same(pool, pool')
    BY <1>1, GrowsSelf, SameGrows DEF Structure, Typed
  <2> QED
    BY <1>1, <2>1, StoresRightStay DEF Values
<1>4. CASE moving.right = <<>>
  <2>1. relation' = moving.out /\ pc' = "ready"
    BY <1>4 DEF Composed
  <2>2. ReadyRight'
    BY <1>1, <1>2, <2>1 DEF ReadyRight, AllRight
  <2> QED
    BY <1>3, <2>1, <2>2, OtherValues
<1>5. CASE moving.right # <<>>
  <2> DEFINE none == <<>>
  <2>1. DOMAIN none = {} /\ Len(none) = 0
    OBVIOUS
  <2>2. moving' = [moving EXCEPT !.from = moving.right, !.at = moving.rightAt, !.moved = none, !.right = none] /\ pc' = pc
    BY <1>5 DEF Composed
  <2>3. moving.from = none
    BY <1>1
  <2> HIDE DEF none
  <2>4. moving \in Movings(moving.moved) /\ Len(moving.out) \in Nat
    BY <1>1, SoundCompose, FromSound
  <2>5. /\ moving'.from = moving.right /\ moving'.at = moving.rightAt /\ moving'.moved = none /\ moving'.right = none
        /\ moving'.out = moving.out
    BY <2>2, <2>4 DEF Movings
  <2>6. \A k \in DOMAIN moving.right : NarrowsTo(pool, moving.right[k], moving.rightAt, wanted[Len(moving.out) + k])
    <3> TAKE k \in DOMAIN moving.right
    <3>1. k \in Nat
      BY <1>1, FromSound
    <3>2. NarrowsTo(pool, moving.right[k], moving.rightAt, wanted[Len(moving.out) + Len(moving.from) + k])
      BY <1>2
    <3>3. Len(moving.out) + Len(moving.from) + k = Len(moving.out) + k
      BY <2>1, <2>3, <2>4, <3>1
    <3> QED
      BY <3>2, <3>3
  <2>7. \A k \in DOMAIN moving'.from : StillRight(pool', moving', moving'.from[k], wanted'[Len(moving'.out) + k])
    BY <1>1, <2>1, <2>5, <2>6 DEF StillRight
  <2>8. moving'.right = <<>> /\ DOMAIN moving'.right = {}
    BY <2>1, <2>5 DEF none
  <2>9. ComposeRight'
    BY <1>1, <1>2, <1>5, <2>1, <2>5, <2>7, <2>8 DEF ComposeRight
  <2> QED
    BY <1>1, <1>3, <2>2, <2>9 DEF Values, ReadyRight, ReadRight, AnswerIsWanted
<1> QED
  BY <1>4, <1>5

-----------------------------------------------------------------------------
(* Operators that narrow *)

\* A filter over nothing selects nothing.
LEMMA FilterEmptyRight ==
    ASSUME Structure, Structure', Values, NEW f \in Filters, Filter(f), pc' # "read"
    PROVE  Values'
<1>1. f.refs[1] \in DOMAIN relation /\ ToSet(f.refs) \subseteq DOMAIN relation
  <2> DEFINE refs == f.refs
  <2>1. refs \in Seq(Nat) /\ refs # <<>> /\ ToSet(refs) \subseteq DOMAIN relation
    BY LateMaterializationAssumption DEF Filter
  <2> HIDE DEF refs
  <2>2. 1 \in DOMAIN refs /\ refs[1] \in ToSet(refs)
    BY <2>1, SeqFacts
  <2> QED
    BY <2>1, <2>2 DEF refs
<1>2. /\ pc = "ready" /\ pc' = pc /\ relation' = [i \in DOMAIN relation |-> Empty]
      /\ wanted' = Narrow(wanted, Positions(wanted[f.refs[1]].rows, f.keep))
      /\ UNCHANGED <<pool, cte, built, sorted>>
      /\ EmptyInput \/ \E r \in ToSet(f.refs) : relation[r].data = Null
  BY DEF Filter, Begin
<1>3. \A i \in All : wanted[i].rows = <<>>
  BY <1>1, <1>2, EmptyMeans DEF All
<1>4. DOMAIN relation = 1 .. Len(relation) /\ Len(relation) \in Nat /\ wanted \in Seq(Wants) /\ Len(wanted) = Len(relation)
  BY <1>2, SoundStores, SoundReady
<1> DEFINE none == <<>>
           ids == Positions(none, f.keep)
<1>5. none \in Seq(Int) /\ Len(none) = 0
  OBVIOUS
<1>6. wanted' = Narrow(wanted, ids)
  BY <1>1, <1>2, <1>3 DEF All
<1>7. \A i \in 1 .. Len(relation) : wanted[i].rows = none
  BY <1>3, <1>4 DEF All
<1> HIDE DEF none
<1>8. ids \in Seq(1 .. Len(none)) /\ ids \in Seq(Int)
  BY <1>5, PositionsFacts
<1> HIDE DEF ids
<1>9. ids = <<>>
  <2> DEFINE T == 1 .. Len(none)
  <2>1. ids \in Seq(T) /\ T = {}
    BY <1>5, <1>8
  <2> HIDE DEF T
  <2>2. Len(ids) \in Nat /\ (ids = <<>> <=> Len(ids) = 0) /\ DOMAIN ids = 1 .. Len(ids) /\ \A i \in DOMAIN ids : ids[i] \in T
    BY <2>1, SeqFacts
  <2>3. Len(ids) = 0
    BY <2>1, <2>2
  <2> QED
    BY <2>2, <2>3
<1>10. wanted' \in Seq(Wants) /\ Len(wanted') = Len(relation) /\ \A i \in 1 .. Len(relation) : wanted'[i].rows = Pick(wanted[i].rows, ids)
  BY <1>4, <1>6, <1>8, NarrowFacts
<1>11. DOMAIN wanted' = 1 .. Len(relation)
  BY <1>10, SeqFacts
<1>12. \A i \in 1 .. Len(relation) : wanted'[i].rows = <<>>
  <2>1. Pick(none, ids) = <<>>
    BY <1>5, <1>8, <1>9, PickFacts
  <2> QED
    BY <1>7, <1>10, <2>1
<1>13. AllRight(pool', relation', wanted')
  BY <1>2, <1>4, <1>11, <1>12, NothingMeant
<1>14. StoresRight'
  <2>1. Same(pool, pool')
    BY <1>2, GrowsSelf, SameGrows DEF Structure, Typed
  <2> QED
    BY <1>2, <2>1, StoresRightStay DEF Values
<1>15. ReadyRight'
  BY <1>13 DEF ReadyRight
<1> QED
  BY <1>2, <1>14, <1>15, OtherValues

\* A column whose values the plan means is narrowed to those an operator selects.
LEMMA NarrowsFrom ==
    ASSUME NEW p, NEW q, Same(p, q), NEW c, Sound(p, c), NEW w, w.rows \in Seq(Int), Right(p, c, w),
           NEW ids \in Seq(1 .. Len(w.rows)), ids # <<>>, NEW at, q[at].rows = ids,
           NEW v, v.rows = Pick(w.rows, ids), v.tag = w.tag
    PROVE  NarrowsTo(q, c, at, v)
<1>1. Denotes(q, c) = w.rows /\ (c.data # Null => q[c.data].tag = p[c.data].tag) /\ Fitting(c)
  BY SameValue DEF Right
<1> DEFINE T == 1 .. Len(w.rows)
<1>2. ids \in Seq(T)
  OBVIOUS
<1>3. Len(w.rows) \in Nat
  BY SeqFacts
<1> HIDE DEF T
<1>4. DOMAIN ids = 1 .. Len(ids) /\ Len(ids) \in Nat /\ Len(ids) # 0 /\ \A k \in DOMAIN ids : ids[k] \in T
  BY <1>2, SeqFacts
<1>5. ids[1] \in T
  BY <1>4
<1>6. w.rows # <<>>
  <2>1. Len(w.rows) # 0
    BY <1>3, <1>5 DEF T
  <2> QED
    BY <2>1, SeqFacts
<1>7. c.data # Null => q[c.data].tag = v.tag
  BY <1>1, <1>6 DEF Right
<1>8. \A k \in DOMAIN q[at].rows : q[at].rows[k] \in 1 .. Len(Denotes(q, c))
  BY <1>1, <1>4 DEF T
<1> QED
  BY <1>1, <1>7, <1>8 DEF NarrowsTo

\* What is left to show of an operator that narrows.
LEMMA NarrowingRight ==
    ASSUME Structure, Structure', Values, NEW at \in Nat, NEW right \in Seq(Cols), NEW rightAt \in Nat,
           Narrowing(pool', relation, at, right, rightAt), Same(pool, pool'),
           cte' = cte, built' = built \/ built' = Nothing, sorted' = sorted,
           Len(wanted') = Len(relation) + Len(right), Uniform(wanted'),
           pool'[at].rows = <<>> => \A i \in DOMAIN wanted' : wanted'[i].rows = <<>>,
           pool'[at].rows # <<>> =>
               /\ right # <<>> => pool'[rightAt].rows # <<>>
               /\ \A i \in All : NarrowsTo(pool', relation[i], at, wanted'[i])
               /\ \A k \in DOMAIN right : NarrowsTo(pool', right[k], rightAt, wanted'[Len(relation) + k])
    PROVE  Values'
<1>1. Len(relation) \in Nat /\ Len(right) \in Nat /\ DOMAIN relation = 1 .. Len(relation) /\ DOMAIN right = 1 .. Len(right)
  BY SoundStores, SeqFacts
<1>2. DOMAIN wanted' = 1 .. Len(relation) + Len(right)
  <2>1. wanted' \in Seq(Wants)
    BY DEF Structure, Typed
  <2> QED
    BY <2>1, SeqFacts
<1>3. StoresRight'
  BY StoresRightStay DEF Values
<1>4. CASE pool'[at].rows = <<>>
  <2>1. relation' = [i \in 1 .. (Len(relation) + Len(right)) |-> Empty] /\ pc' = "ready"
    BY <1>4 DEF Narrowing
  <2> DEFINE n == Len(relation) + Len(right)
  <2>2. n \in Nat
    BY <1>1
  <2>3. AllRight(pool', relation', wanted')
    <3> HIDE DEF n
    <3>1. relation' = [i \in 1 .. n |-> Empty] /\ DOMAIN wanted' = 1 .. n /\ \A i \in 1 .. n : wanted'[i].rows = <<>>
      BY <1>2, <1>4, <2>1 DEF n
    <3> QED
      BY <2>2, <3>1, NothingMeant
  <2>4. ReadyRight'
    BY <2>3 DEF ReadyRight
  <2> QED
    BY <1>3, <2>1, <2>4, OtherValues
<1>5. CASE pool'[at].rows # <<>>
  <2> DEFINE none == <<>>
  <2>1. DOMAIN none = {} /\ Len(none) = 0
    OBVIOUS
  <2>2. moving' = [from |-> relation, at |-> at, moved |-> none, out |-> none, right |-> right, rightAt |-> rightAt] /\ pc' = "compose"
    BY <1>5 DEF Narrowing
  <2> HIDE DEF none
  <2>3. /\ moving'.from = relation /\ moving'.at = at /\ moving'.moved = none /\ moving'.out = none /\ moving'.right = right
        /\ moving'.rightAt = rightAt
    BY <2>2
  <2>4. \A i \in All : StillRight(pool', moving', moving'.from[i], wanted'[Len(moving'.out) + i])
    <3> TAKE i \in All
    <3>1. Len(moving'.out) + i = i
      BY <1>1, <2>1, <2>3 DEF All
    <3> QED
      BY <1>5, <2>1, <2>3, <3>1 DEF StillRight
  <2>5. \A k \in DOMAIN right : NarrowsTo(pool', right[k], rightAt, wanted'[Len(moving'.out) + Len(moving'.from) + k])
    <3> TAKE k \in DOMAIN right
    <3>1. Len(moving'.out) + Len(moving'.from) + k = Len(relation) + k
      BY <1>1, <2>1, <2>3
    <3> QED
      BY <1>5, <3>1
  <2>6. ComposeRight'
    BY <1>5, <2>1, <2>3, <2>4, <2>5 DEF ComposeRight, All
  <2> QED
    BY <1>3, <2>2, <2>6 DEF Values, ReadyRight, ReadRight, AnswerIsWanted
<1> QED
  BY <1>4, <1>5

\* What an operator that narrows by every column has in hand.
LEMMA InHandRight ==
    ASSUME Structure, Values, pc = "read", todo = <<>>, task.kind # "distinct", task.hands = All
    PROVE  /\ Uniform(wanted) /\ DOMAIN wanted = All
           /\ \A i \in All : /\ Sound(pool, relation[i]) /\ Right(pool, relation[i], wanted[i])
                             /\ wanted[i].rows \in Seq(Int)
           /\ \A i \in Needed : i \in All /\ GotRight(pool, got[i], wanted[i])
<1>1. ToSet(todo) = {}
  BY DEF ToSet
<1>2. InHand = All
  BY <1>1 DEF InHand
<1>3. /\ Uniform(wanted)
      /\ \A j \in InHand : Right(pool, relation[j], wanted[j])
      /\ \A i \in Needed : i \in ToSet(todo) \/ GotRight(pool, got[i], wanted[i])
  BY DEF Values, ReadRight
<1> QED
  BY <1>1, <1>2, <1>3, SoundRead, NeededIn

\* A filter narrows every column to the rows it keeps.
LEMMA SelectRight ==
    ASSUME Structure, Structure', Values, Select
    PROVE  Values'
<1> DEFINE f == task.by
           first == f.refs[1]
           ids == Positions(got[first].rows, f.keep)
<1>1. /\ pc = "read" /\ task.kind = "filter" /\ todo = <<>> /\ UNCHANGED <<cte, built, sorted>>
      /\ wanted' = Narrow(wanted, Positions(wanted[first].rows, f.keep))
  BY DEF Select, HasRead
<1>2. PICK a \in Places(pool) : pool' = Put(pool, a, "live", Ids, ids) /\ Narrowing(pool', relation, a, <<>>, Null)
  BY DEF Select
<1>3. task.hands = All /\ Needed = {first}
  BY <1>1, SoundRead DEF Tasked, Needed
<1>4. /\ Uniform(wanted) /\ DOMAIN wanted = All /\ first \in All
      /\ \A i \in All : /\ Sound(pool, relation[i]) /\ Right(pool, relation[i], wanted[i])
                        /\ wanted[i].rows \in Seq(Int)
      /\ got[first].rows = wanted[first].rows
  BY <1>1, <1>3, InHandRight DEF GotRight
<1>5. wanted \in Seq(Wants) /\ Len(wanted) = Len(relation) /\ Len(relation) \in Nat /\ All = 1 .. Len(relation)
  BY <1>1, SoundRead
<1>6. ids \in Seq(1 .. Len(wanted[first].rows)) /\ ids \in Seq(Int)
  BY <1>4, PositionsFacts
<1>7. wanted' = Narrow(wanted, ids)
  BY <1>1, <1>4
<1> HIDE DEF ids
<1>8. /\ Len(wanted') = Len(relation) /\ wanted' \in Seq(Wants)
      /\ \A i \in All : /\ wanted'[i].tag = wanted[i].tag /\ wanted'[i].rows = Pick(wanted[i].rows, ids)
                        /\ Len(wanted'[i].rows) = Len(ids)
  <2>1. ids \in Seq(Int) /\ wanted \in Seq(Wants)
    BY <1>5, <1>6
  <2>2. /\ Narrow(wanted, ids) \in Seq(Wants) /\ Len(Narrow(wanted, ids)) = Len(wanted)
        /\ \A i \in 1 .. Len(wanted) : /\ Narrow(wanted, ids)[i].tag = wanted[i].tag
                                        /\ Narrow(wanted, ids)[i].rows = Pick(wanted[i].rows, ids)
                                        /\ Len(Narrow(wanted, ids)[i].rows) = Len(ids)
    BY <2>1, NarrowFacts
  <2> QED
    BY <1>5, <1>7, <2>2
<1>9. pool \in Seq(Blocks)
  BY SoundStores
<1>10. Grows(pool, pool') /\ a \in Nat /\ pool'[a].rows = ids
  BY <1>2, <1>6, <1>9, FreshIds
<1>11. Same(pool, pool')
  BY <1>10, SameGrows
<1>12. DOMAIN wanted' = All
  BY <1>5, <1>8, SeqFacts
<1>13. Uniform(wanted')
  BY <1>8, <1>12 DEF Uniform
<1>14. ids = <<>> => \A i \in DOMAIN wanted' : wanted'[i].rows = <<>>
  <2> SUFFICES ASSUME ids = <<>>, NEW i \in All PROVE wanted'[i].rows = <<>>
    BY <1>12
  <2>1. wanted[i].rows \in Seq(Int) /\ wanted'[i].rows = Pick(wanted[i].rows, ids)
    BY <1>4, <1>8
  <2> QED
    BY <1>6, <2>1, PickFacts
<1>15. ids # <<>> => \A i \in All : NarrowsTo(pool', relation[i], a, wanted'[i])
  <2> SUFFICES ASSUME ids # <<>>, NEW i \in All PROVE NarrowsTo(pool', relation[i], a, wanted'[i])
    OBVIOUS
  <2>1. Len(wanted[i].rows) = Len(wanted[first].rows)
    BY <1>4 DEF Uniform
  <2>2. ids \in Seq(1 .. Len(wanted[i].rows))
    BY <1>6, <2>1
  <2>3. /\ Sound(pool, relation[i]) /\ Right(pool, relation[i], wanted[i]) /\ wanted[i].rows \in Seq(Int)
        /\ wanted'[i].tag = wanted[i].tag /\ wanted'[i].rows = Pick(wanted[i].rows, ids)
    BY <1>4, <1>8
  <2> QED
    BY <1>10, <1>11, <2>2, <2>3, NarrowsFrom
<1> DEFINE none == <<>>
<1>16. none \in Seq(Cols) /\ Len(none) = 0 /\ DOMAIN none = {} /\ Null \in Nat /\ ~(none # <<>>)
  BY DEF Null
<1>17. Narrowing(pool', relation, a, none, Null)
  BY <1>2
<1> HIDE DEF none
<1>18. Len(wanted') = Len(relation) + Len(none)
  BY <1>5, <1>8, <1>16
<1>19. pool'[a].rows # <<>> =>
               /\ none # <<>> => pool'[Null].rows # <<>>
               /\ \A i \in All : NarrowsTo(pool', relation[i], a, wanted'[i])
               /\ \A k \in DOMAIN none : NarrowsTo(pool', none[k], Null, wanted'[Len(relation) + k])
  BY <1>10, <1>15, <1>16
<1> QED
  BY <1>1, <1>10, <1>11, <1>13, <1>14, <1>16, <1>17, <1>18, <1>19, NarrowingRight

\* One side of a join before, and after it is narrowed by its half of the pairs.
SideIn(p, cols, want, len) ==
    /\ want \in Seq(Wants) /\ Len(want) \in Nat
    /\ \A i \in 1 .. Len(want) : Sound(p, cols[i]) /\ Right(p, cols[i], want[i]) /\ Len(want[i].rows) = len
SideOut(p, cols, n, want, at, ids) ==
    /\ want \in Seq(Wants) /\ Len(want) = n
    /\ \A i \in 1 .. n : Len(want[i].rows) = Len(ids)
    /\ ids = <<>> => \A i \in 1 .. n : want[i].rows = <<>>
    /\ ids # <<>> => \A i \in 1 .. n : NarrowsTo(p, cols[i], at, want[i])

\* A join narrows one side by its half of the pairs.
LEMMA SideRight ==
    ASSUME NEW p, NEW q, Same(p, q), NEW cols, NEW want, NEW len, SideIn(p, cols, want, len),
           NEW ids \in Seq(1 .. len), ids \in Seq(Int), NEW at, q[at].rows = ids
    PROVE  SideOut(q, cols, Len(want), Narrow(want, ids), at, ids)
<1> DEFINE n == Len(want)
<1>0. /\ want \in Seq(Wants) /\ n \in Nat
      /\ \A i \in 1 .. n : Sound(p, cols[i]) /\ Right(p, cols[i], want[i]) /\ Len(want[i].rows) = len
  BY DEF SideIn
<1>1. /\ Narrow(want, ids) \in Seq(Wants) /\ Len(Narrow(want, ids)) = n
      /\ \A i \in 1 .. n : /\ Narrow(want, ids)[i].tag = want[i].tag
                           /\ Narrow(want, ids)[i].rows = Pick(want[i].rows, ids)
                           /\ Len(Narrow(want, ids)[i].rows) = Len(ids)
  <2>1. ids \in Seq(Int) /\ want \in Seq(Wants) /\ Len(want) = n
    BY <1>0
  <2>2. /\ Narrow(want, ids) \in Seq(Wants) /\ Len(Narrow(want, ids)) = Len(want)
        /\ \A i \in 1 .. Len(want) : /\ Narrow(want, ids)[i].tag = want[i].tag
                                      /\ Narrow(want, ids)[i].rows = Pick(want[i].rows, ids)
                                      /\ Len(Narrow(want, ids)[i].rows) = Len(ids)
    BY <2>1, NarrowFacts
  <2> QED
    BY <2>1, <2>2
<1>2. \A i \in 1 .. n : want[i].rows \in Seq(Int)
  <2>1. \A i \in 1 .. n : want[i] \in Wants
    BY <1>0, SeqFacts
  <2> QED
    BY <2>1 DEF Wants
<1>3. ids = <<>> => \A i \in 1 .. n : Narrow(want, ids)[i].rows = <<>>
  <2> SUFFICES ASSUME ids = <<>>, NEW i \in 1 .. n PROVE Narrow(want, ids)[i].rows = <<>>
    OBVIOUS
  <2>1. want[i].rows \in Seq(Int) /\ Narrow(want, ids)[i].rows = Pick(want[i].rows, ids)
    BY <1>1, <1>2
  <2>2. Pick(want[i].rows, ids) = <<>>
    BY <2>1, PickFacts
  <2> QED
    BY <2>1, <2>2
<1>4. ids # <<>> => \A i \in 1 .. n : NarrowsTo(q, cols[i], at, Narrow(want, ids)[i])
  <2> SUFFICES ASSUME ids # <<>>, NEW i \in 1 .. n PROVE NarrowsTo(q, cols[i], at, Narrow(want, ids)[i])
    OBVIOUS
  <2>1. Len(want[i].rows) = len
    BY <1>0
  <2>2. ids \in Seq(1 .. Len(want[i].rows))
    BY <2>1
  <2>3. /\ Sound(p, cols[i]) /\ Right(p, cols[i], want[i]) /\ want[i].rows \in Seq(Int)
        /\ Narrow(want, ids)[i].tag = want[i].tag /\ Narrow(want, ids)[i].rows = Pick(want[i].rows, ids)
    BY <1>0, <1>1, <1>2
  <2> QED
    BY <2>2, <2>3, NarrowsFrom
<1> QED
  BY <1>1, <1>3, <1>4 DEF SideOut

\* A join narrows both sides to the pairs whose keys are equal.
LEMMA JoinRight ==
    ASSUME Structure, Structure', Values, Join
    PROVE  Values'
<1> DEFINE by == task.by
           left == Denotes(pool, got[by].col)
           right == Denotes(pool, built.key)
           ones == Side(Pairs(left, right), 1)
           twos == Side(Pairs(left, right), 2)
           locked == Locked(pool, UNION {{c.data, c.ids} : c \in ToSet(built.cols)})

<1>1. /\ pc = "read" /\ task.kind = "probe" /\ todo = <<>> /\ UNCHANGED <<cte, sorted>> /\ built' = Nothing
      /\ wanted' = Narrow(wanted, Side(Pairs(wanted[by].rows, built.keyRows), 1))
                   \o Narrow(built.want, Side(Pairs(wanted[by].rows, built.keyRows), 2))
  BY DEF Join, HasRead
<1>2. task.hands = All /\ Needed = {by}
  BY <1>1, SoundRead DEF Tasked, Needed
<1>3. /\ Uniform(wanted) /\ DOMAIN wanted = All /\ by \in All
      /\ \A i \in All : /\ Sound(pool, relation[i]) /\ Right(pool, relation[i], wanted[i])
                        /\ wanted[i].rows \in Seq(Int)
      /\ Denotes(pool, got[by].col) = wanted[by].rows
  BY <1>1, <1>2, InHandRight DEF GotRight, Right
<1>4. /\ wanted \in Seq(Wants) /\ Len(wanted) = Len(relation) /\ Len(relation) \in Nat /\ All = 1 .. Len(relation)
      /\ pool \in Seq(Blocks)
  BY <1>1, SoundRead, SoundStores
<1>5. /\ built \in Stores /\ built.want \in Seq(Wants) /\ built.cols \in Seq(Cols) /\ Len(built.want) = Len(built.cols)
      /\ built.keyRows \in Seq(Int) /\ Len(built.cols) \in Nat
      /\ DOMAIN built.cols = 1 .. Len(built.cols) /\ DOMAIN built.want = 1 .. Len(built.cols)
      /\ \A i \in 1 .. Len(built.cols) : Sound(pool, built.cols[i])
  <2>1. built \in Stores /\ Len(built.want) = Len(built.cols)
    BY DEF Structure, Typed, Paired
  <2>2. /\ built.want \in Seq(Wants) /\ built.cols \in Seq(Cols) /\ built.keyRows \in Seq(Int) /\ Len(built.cols) \in Nat
        /\ DOMAIN built.cols = 1 .. Len(built.cols) /\ DOMAIN built.want = 1 .. Len(built.want)
        /\ \A i \in DOMAIN built.cols : built.cols[i] \in Hashed
    BY <2>1, StoreFacts DEF Hashed
  <2>3. \A i \in 1 .. Len(built.cols) : Sound(pool, built.cols[i])
    BY <2>2, SoundStores
  <2> QED
    BY <2>1, <2>2, <2>3
<1>6. /\ AllRight(pool, built.cols, built.want) /\ Denotes(pool, built.key) = built.keyRows
      /\ \A i \in DOMAIN built.want : Len(built.want[i].rows) = Len(built.keyRows)
  BY DEF Values, StoresRight
<1>7. left = wanted[by].rows /\ right = built.keyRows
  BY <1>3, <1>6
<1>8. wanted' = Narrow(wanted, ones) \o Narrow(built.want, twos)
  BY <1>1, <1>7
<1>9. PICK l \in Places(locked) : \E r \in Places(Put(locked, l, "live", Ids, ones)) :
         /\ pool' = Put(Put(locked, l, "live", Ids, ones), r, "live", Ids, twos)
         /\ Narrowing(pool', relation, l, built.cols, r)
  BY DEF Join
<1> DEFINE half == Put(locked, l, "live", Ids, ones)
<1>10. PICK r \in Places(half) : /\ pool' = Put(half, r, "live", Ids, twos)
                                 /\ Narrowing(pool', relation, l, built.cols, r)
  BY <1>9
<1>11. left \in Seq(Int) /\ right \in Seq(Int)
  BY <1>3, <1>5, <1>7
<1>12. ones \in Seq(1 .. Len(left)) /\ twos \in Seq(1 .. Len(right)) /\ Len(ones) = Len(twos) /\ Len(left) \in Nat /\ Len(right) \in Nat
  <2> HIDE DEF left, right
  <2> QED
    BY <1>11, PairsFacts, SeqFacts
<1> HIDE DEF ones, twos
<1>13. ones \in Seq(Int) /\ twos \in Seq(Int)
  <2> HIDE DEF left, right
  <2> QED
    BY <1>12, SeqFacts, WiderSeq
<1>14. locked \in Seq(Blocks) /\ Grows(pool, locked)
  BY <1>4, LockedFacts
<1> HIDE DEF locked
<1>15. half \in Seq(Blocks) /\ Grows(locked, half) /\ l \in Nat /\ l # Null /\ half[l].rows = ones /\ SoundIds(half, l)
  BY <1>13, <1>14, FreshIds
<1> HIDE DEF half
<1>16. Grows(half, pool') /\ r \in Nat /\ r # Null /\ pool'[r].rows = twos
  BY <1>10, <1>13, <1>15, FreshIds
<1>17. Grows(pool, pool') /\ pool'[l].rows = ones
  BY <1>14, <1>15, <1>16, GrowsOn, SoundGrows
<1>18. Same(pool, pool')
  BY <1>17, SameGrows
<1> DEFINE a == Narrow(wanted, ones)
           b == Narrow(built.want, twos)
           n == Len(relation)
           m == Len(built.cols)
<1>19. SideOut(pool', relation, n, a, l, ones)
  <2> DEFINE len == Len(wanted[by].rows)
  <2>1. \A i \in 1 .. n : Len(wanted[i].rows) = len
    BY <1>3, <1>4 DEF Uniform
  <2>2. ones \in Seq(1 .. len)
    BY <1>7, <1>12
  <2> HIDE DEF len
  <2>3. SideIn(pool, relation, wanted, len)
    BY <1>3, <1>4, <2>1 DEF SideIn
  <2>4. SideOut(pool', relation, Len(wanted), Narrow(wanted, ones), l, ones)
    BY <1>13, <1>17, <1>18, <2>2, <2>3, SideRight
  <2> QED
    BY <1>4, <2>4
<1>20. SideOut(pool', built.cols, m, b, r, twos)
  <2> DEFINE len == Len(built.keyRows)
  <2>1. \A i \in 1 .. m : Len(built.want[i].rows) = len
    BY <1>5, <1>6
  <2>2. twos \in Seq(1 .. len)
    BY <1>7, <1>12
  <2> HIDE DEF len
  <2>3. SideIn(pool, built.cols, built.want, len)
    BY <1>5, <1>6, <2>1 DEF AllRight, SideIn
  <2>4. SideOut(pool', built.cols, Len(built.want), Narrow(built.want, twos), r, twos)
    BY <1>13, <1>16, <1>18, <2>2, <2>3, SideRight
  <2> QED
    BY <1>5, <2>4
<1>21. wanted' = a \o b
  BY <1>8
<1> HIDE DEF a, b
<1>22. /\ wanted' \in Seq(Wants) /\ Len(wanted') = n + m
       /\ \A j \in 1 .. n : wanted'[j] = a[j]
       /\ \A j \in 1 .. m : wanted'[n + j] = b[j]
  <2>1. a \in Seq(Wants) /\ b \in Seq(Wants) /\ Len(a) = n /\ Len(b) = m
    BY <1>19, <1>20 DEF SideOut
  <2>2. a \o b \in Seq(Wants) /\ Len(a \o b) = Len(a) + Len(b)
    <3>1. a \in Seq(Wants) /\ b \in Seq(Wants)
      BY <2>1
    <3> QED
      BY <3>1, ConcatProperties
  <2>3. \A j \in 1 .. Len(a) : (a \o b)[j] = a[j]
    BY <2>1, ConcatFacts
  <2>4. \A j \in 1 .. Len(b) : (a \o b)[Len(a) + j] = b[j]
    BY <2>1, ConcatFacts
  <2> HIDE DEF n, m
  <2> QED
    BY <1>21, <2>1, <2>2, <2>3, <2>4
<1>23. n \in Nat /\ m \in Nat /\ All = 1 .. n /\ DOMAIN built.cols = 1 .. m
  BY <1>4, <1>5
<1> HIDE DEF n, m
<1>24. DOMAIN wanted' = 1 .. n + m
  BY <1>22, SeqFacts
<1>25. \A i \in 1 .. n + m : i \in 1 .. n \/ \E k \in 1 .. m : i = n + k
  <2> TAKE i \in 1 .. n + m
  <2>1. i \in 1 .. n \/ (i - n \in 1 .. m /\ i = n + (i - n))
    BY <1>23
  <2> QED
    BY <2>1
<1>26. \A i \in 1 .. n + m : Len(wanted'[i].rows) = Len(ones)
  <2> TAKE i \in 1 .. n + m
  <2>1. CASE i \in 1 .. n
    BY <1>19, <1>22, <2>1 DEF SideOut
  <2>2. CASE \E k \in 1 .. m : i = n + k
    BY <1>12, <1>20, <1>22, <2>2 DEF SideOut
  <2> QED
    BY <1>25, <2>1, <2>2
<1>27. Uniform(wanted')
  BY <1>24, <1>26 DEF Uniform
<1>28. Len(ones) \in Nat /\ (ones = <<>> <=> twos = <<>>)
  BY <1>12, <1>13, SeqFacts
<1>29. ones = <<>> => \A i \in 1 .. n + m : wanted'[i].rows = <<>>
  BY <1>19, <1>20, <1>22, <1>25, <1>28 DEF SideOut
<1>30. ones # <<>> => /\ \A i \in 1 .. n : NarrowsTo(pool', relation[i], l, wanted'[i])
                      /\ \A k \in 1 .. m : NarrowsTo(pool', built.cols[k], r, wanted'[n + k])
  BY <1>19, <1>20, <1>22, <1>28 DEF SideOut
<1>31. Len(wanted') = Len(relation) + Len(built.cols) /\ built.cols \in Seq(Cols)
  BY <1>5, <1>22 DEF n, m
<1>32. pool'[l].rows = <<>> => \A i \in DOMAIN wanted' : wanted'[i].rows = <<>>
  BY <1>17, <1>24, <1>29
<1>33. pool'[l].rows # <<>> =>
               /\ built.cols # <<>> => pool'[r].rows # <<>>
               /\ \A i \in All : NarrowsTo(pool', relation[i], l, wanted'[i])
               /\ \A k \in DOMAIN built.cols : NarrowsTo(pool', built.cols[k], r, wanted'[Len(relation) + k])
  BY <1>16, <1>17, <1>23, <1>28, <1>30 DEF n
<1> QED
  BY <1>1, <1>10, <1>15, <1>16, <1>18, <1>27, <1>31, <1>32, <1>33, NarrowingRight

-----------------------------------------------------------------------------
(* The other operators *)

\* A column over a whole block.
LEMMA StoredColumn ==
    ASSUME NEW p, NEW b \in Nat, b # Null, NEW w, w.rows \in Seq(Int), p[b].rows = w.rows, p[b].tag = w.tag
    PROVE  Right(p, Column(b, Len(w.rows)), w)
<1> DEFINE n == Len(w.rows)
<1>1. n \in Nat
  BY SeqFacts
<1>2. Take(w.rows, n) = w.rows
  BY <1>1, TakeFacts
<1>3. Column(b, n).data = b /\ Column(b, n).ids = Null /\ Column(b, n).len = n
  BY <1>1, ColumnFacts
<1>4. Denotes(p, Column(b, n)) = w.rows
  BY <1>2, <1>3 DEF Denotes
<1> QED
  BY <1>3, <1>4 DEF Right, Fitting

\* What an operator has in hand once it has read.
LEMMA HasReadRight ==
    ASSUME Structure, Values, pc = "read", todo = <<>>, task.kind # "distinct"
    PROVE  /\ Uniform(wanted)
           /\ \A j \in InHand : j \in All /\ Sound(pool, relation[j]) /\ Right(pool, relation[j], wanted[j])
           /\ \A i \in Needed : i \in All /\ GotRight(pool, got[i], wanted[i])
           /\ \A i \in All : wanted[i].rows \in Seq(Int) /\ Sound(pool, got[i].col) /\ got[i].col \in Cols
           /\ task.kind = "project" => \A i \in DOMAIN task.by :
                 ~task.by[i].pass /\ Skipped(task.by[i]) => wanted[task.by[i].refs[1]].rows = <<>>
<1>1. ToSet(todo) = {}
  BY DEF ToSet
<1>2. /\ Uniform(wanted)
      /\ \A j \in InHand : Right(pool, relation[j], wanted[j])
      /\ \A i \in Needed : i \in ToSet(todo) \/ GotRight(pool, got[i], wanted[i])
      /\ task.kind = "project" => \A i \in DOMAIN task.by :
               ~task.by[i].pass /\ Skipped(task.by[i]) => wanted[task.by[i].refs[1]].rows = <<>>
  BY DEF Values, ReadRight
<1> QED
  BY <1>1, <1>2, SoundRead, NeededIn

\* What a projection computes has the rows it was computed from.
LEMMA ComputeRight ==
    ASSUME Structure, Structure', Values, Compute
    PROVE  Values'
<1> DEFINE items == task.by
           blocks == Results(items)
           N == Len(items)
           ref(i) == items[i].refs[1]
           at(i) == IF items[i].pass THEN relation[items[i].refs[1]]
                    ELSE IF Skipped(items[i]) THEN Empty
                    ELSE Column(Len(pool) + Rank(items, i), Len(blocks[Rank(items, i)].rows))
           means(i) == IF items[i].pass THEN wanted[items[i].refs[1]]
                       ELSE [tag |-> Computed, rows |-> wanted[items[i].refs[1]].rows]
<1>1. /\ pc = "read" /\ task.kind = "project" /\ todo = <<>> /\ pc' = "ready" /\ UNCHANGED <<cte, built, sorted>>
      /\ pool' = pool \o blocks
      /\ relation' = [i \in DOMAIN items |-> at(i)]
      /\ wanted' = [i \in DOMAIN items |-> means(i)]
  BY DEF Compute, HasRead, Fresh, Rank, Results
<1>2. /\ DOMAIN items = 1 .. N /\ N \in Nat
      /\ \A i \in 1 .. N : /\ ref(i) \in All
                           /\ items[i].pass => ref(i) \in InHand
  BY <1>1, ProjectHands
<1>3. /\ pool \in Seq(Blocks) /\ Len(pool) \in Nat
  BY SoundStores, SeqFacts
<1>4. /\ blocks \in Seq(Blocks)
      /\ \A i \in Fresh(items) :
            /\ Rank(items, i) \in 1 .. Len(blocks)
            /\ blocks[Rank(items, i)] = [state |-> "kept", tag |-> Computed, rows |-> got[ref(i)].rows]
  BY <1>1, ResultsFacts
<1> HIDE DEF blocks
<1>5. /\ Grows(pool, pool')
      /\ \A k \in 1 .. Len(blocks) : Len(pool) + k \in DOMAIN pool' /\ pool'[Len(pool) + k] = blocks[k]
  BY <1>1, <1>3, <1>4, MoreFacts
<1>6. Same(pool, pool')
  BY <1>5, SameGrows
<1>7. /\ Uniform(wanted)
      /\ \A j \in InHand : j \in All /\ Sound(pool, relation[j]) /\ Right(pool, relation[j], wanted[j])
      /\ \A i \in Needed : i \in All /\ GotRight(pool, got[i], wanted[i])
      /\ \A i \in All : wanted[i].rows \in Seq(Int)
      /\ \A i \in DOMAIN items : ~items[i].pass /\ Skipped(items[i]) => wanted[ref(i)].rows = <<>>
  BY <1>1, HasReadRight
<1>8. ASSUME NEW i \in 1 .. N PROVE Right(pool', at(i), means(i))
  <2>1. CASE items[i].pass
    <3>1. at(i) = relation[ref(i)] /\ means(i) = wanted[ref(i)]
      BY <2>1
    <3>2. Sound(pool, relation[ref(i)]) /\ Right(pool, relation[ref(i)], wanted[ref(i)])
      BY <1>2, <1>7, <2>1
    <3> HIDE DEF ref, at, means
    <3> QED
      BY <1>6, <3>1, <3>2, RightSame
  <2>2. CASE ~items[i].pass /\ Skipped(items[i])
    <3>1. at(i) = Empty /\ means(i).rows = wanted[ref(i)].rows
      BY <2>2
    <3>2. wanted[ref(i)].rows = <<>>
      BY <1>2, <1>7, <2>2
    <3> HIDE DEF ref, at, means
    <3> QED
      BY <3>1, <3>2, EmptyRight
  <2>3. CASE ~items[i].pass /\ ~Skipped(items[i])
    <3> DEFINE k == Rank(items, i)
               b == Len(pool) + k
               w == means(i)
    <3>1. i \in Fresh(items) /\ ref(i) \in Needed
      BY <1>1, <1>2, <2>3 DEF Fresh, Needed, Computes
    <3>2. k \in 1 .. Len(blocks) /\ blocks[k] = [state |-> "kept", tag |-> Computed, rows |-> got[ref(i)].rows]
      BY <1>4, <3>1
    <3>3. at(i) = Column(b, Len(blocks[k].rows)) /\ w.rows = wanted[ref(i)].rows /\ w.tag = Computed
      BY <2>3
    <3>4. got[ref(i)].rows = wanted[ref(i)].rows /\ wanted[ref(i)].rows \in Seq(Int)
      BY <1>7, <3>1 DEF GotRight
    <3> HIDE DEF k, w, ref, at, means
    <3>5. pool'[b] = blocks[k] /\ b \in Nat /\ b # Null
      <4>1. Len(blocks) \in Nat
        BY <1>4, SeqFacts
      <4> QED
        BY <1>3, <1>5, <3>2, <4>1 DEF Null
    <3> HIDE DEF b
    <3>6. pool'[b].rows = w.rows /\ pool'[b].tag = w.tag /\ w.rows \in Seq(Int) /\ at(i) = Column(b, Len(w.rows))
      BY <3>2, <3>3, <3>4, <3>5
    <3>7. Right(pool', Column(b, Len(w.rows)), w)
      BY <3>5, <3>6, StoredColumn
    <3> QED
      BY <3>6, <3>7 DEF w
  <2> QED
    BY <2>1, <2>2, <2>3
<1>9. \A i \in 1 .. N : means(i).rows = wanted[ref(i)].rows
  OBVIOUS
<1> HIDE DEF at, means, ref
<1>10. Uniform(wanted')
  <2>1. DOMAIN wanted' = 1 .. N /\ \A i \in 1 .. N : wanted'[i].rows = wanted[ref(i)].rows
    BY <1>1, <1>2, <1>9
  <2>2. DOMAIN wanted = All
    BY <1>1, SoundRead
  <2> QED
    BY <1>2, <1>7, <2>1, <2>2 DEF Uniform
<1>11. \A i \in DOMAIN relation' : Right(pool', relation'[i], wanted'[i])
  BY <1>1, <1>2, <1>8
<1>12. ReadyRight'
  BY <1>10, <1>11 DEF ReadyRight, AllRight
<1>13. StoresRight'
  BY <1>1, <1>6, StoresRightStay DEF Values
<1> QED
  BY <1>1, <1>12, <1>13, OtherValues

\* A shortened column stands for the first of the values it stood for.
LEMMA ShorterRight ==
    ASSUME NEW p \in Seq(Blocks), NEW c \in Cols, Sound(p, c), c.ids = Null, NEW w, w.rows \in Seq(Int), Right(p, c, w),
           c.len >= Len(w.rows), NEW n \in Nat, NEW m \in Nat, m = n \/ (m <= n /\ m >= Len(w.rows)), m <= c.len,
           NEW v, v.rows = Take(w.rows, n), v.tag = w.tag
    PROVE  Right(p, Column(c.data, m), v)
<1>1. c.data \in Nat /\ c.len \in Nat
  BY DEF Cols
<1>2. Column(c.data, m).data = c.data /\ Column(c.data, m).ids = Null /\ Column(c.data, m).len = m
  BY <1>1, ColumnFacts
<1>3. Len(w.rows) \in Nat
  BY SeqFacts
<1>4. v.rows \in Seq(Int) /\ Len(v.rows) = (IF n < Len(w.rows) THEN n ELSE Len(w.rows))
      /\ (\A i \in 1 .. Len(v.rows) : v.rows[i] = w.rows[i])
  <2> DEFINE rows == w.rows
             kept == Take(rows, n)
  <2>1. rows \in Seq(Int) /\ v.rows = kept
    OBVIOUS
  <2>2. /\ kept \in Seq(Int) /\ Len(kept) = (IF n < Len(rows) THEN n ELSE Len(rows))
        /\ \A i \in 1 .. Len(kept) : kept[i] = rows[i]
    <3> HIDE DEF rows
    <3> QED
      BY <2>1, TakeFacts
  <2> HIDE DEF kept
  <2> QED
    BY <2>1, <2>2
<1>5. CASE c.data = Null
  <2>1. w.rows = <<>> /\ Denotes(p, Column(c.data, m)) = <<>>
    BY <1>2, <1>5 DEF Right, Denotes
  <2>2. Len(w.rows) = 0
    BY <2>1
  <2>3. Len(v.rows) = 0
    BY <1>4, <2>2
  <2>4. v.rows = <<>>
    BY <1>4, <2>3, SeqFacts
  <2> QED
    BY <1>2, <2>1, <2>4 DEF Right, Fitting
<1>6. CASE c.data # Null
  <2> DEFINE rows == p[c.data].rows
  <2>1. rows \in Seq(Int)
    <3>1. c.data \in DOMAIN p
      BY <1>6 DEF Sound, SoundData
    <3> QED
      BY <3>1, BlockRows
  <2>2. w.rows = Take(rows, c.len) /\ Denotes(p, Column(c.data, m)) = Take(rows, m)
    BY <1>2, <1>6 DEF Right, Denotes
  <2>3. v.rows # <<>> => p[c.data].tag = v.tag
    <3>1. w.rows = <<>> => v.rows = <<>>
      <4> SUFFICES ASSUME w.rows = <<>> PROVE v.rows = <<>>
        OBVIOUS
      <4>1. Len(w.rows) = 0
        OBVIOUS
      <4>2. Len(v.rows) = 0
        BY <1>4, <4>1
      <4> QED
        BY <1>4, <4>2, SeqFacts
    <3> QED
      BY <3>1 DEF Right
  <2> HIDE DEF rows
  <2>4. /\ Len(w.rows) = (IF c.len < Len(rows) THEN c.len ELSE Len(rows)) /\ Len(rows) \in Nat
        /\ (\A i \in 1 .. Len(w.rows) : w.rows[i] = rows[i])
    BY <1>1, <2>1, <2>2, TakeFacts, SeqFacts
  <2> DEFINE short == Take(rows, m)
  <2>5. /\ short \in Seq(Int) /\ Len(short) = (IF m < Len(rows) THEN m ELSE Len(rows))
        /\ (\A i \in 1 .. Len(short) : short[i] = rows[i])
    BY <2>1, TakeFacts
  <2> HIDE DEF short
  <2>6. Len(short) = Len(v.rows)
    BY <1>1, <1>3, <1>4, <2>4, <2>5
  <2>7. \A i \in 1 .. Len(short) : short[i] = v.rows[i]
    <3> TAKE i \in 1 .. Len(short)
    <3>1. i \in 1 .. Len(v.rows) /\ i \in 1 .. Len(w.rows)
      BY <1>3, <1>4, <2>6
    <3> QED
      BY <1>4, <2>4, <2>5, <3>1
  <2>8. short = v.rows
    <3> DEFINE kept == v.rows
    <3>1. kept \in Seq(Int) /\ Len(short) = Len(kept) /\ \A i \in 1 .. Len(short) : short[i] = kept[i]
      BY <1>4, <2>6, <2>7
    <3> HIDE DEF kept
    <3>2. short = kept
      BY <2>5, <3>1, SameSeq
    <3> QED
      BY <3>2 DEF kept
  <2> QED
    BY <1>2, <2>2, <2>3, <2>8 DEF Right, Fitting, short
<1> QED
  BY <1>5, <1>6

\* A limit without an offset keeps the first rows of every column.
LEMMA LimitedRight ==
    ASSUME Structure, Structure', Values, Limited, ~dropped'
    PROVE  Values'
<1> DEFINE N == Len(relation)
           n == task.by.n
           cols == [i \in DOMAIN got |-> got[i].col]
           lens(i) == {n} \cup {cols[j].len : j \in 1 .. i}
           least(i) == CHOOSE m \in lens(i) : \A k \in lens(i) : m <= k
           at(i) == Column(cols[i].data, least(i))
           paged(i) == [wanted[i] EXCEPT !.rows = Page(@, n, task.by.offset)]
<1>1. /\ pc = "read" /\ task.kind = "limit" /\ todo = <<>> /\ pc' = "ready" /\ pool' = pool /\ UNCHANGED <<cte, built, sorted>>
      /\ relation' = Shorten(task.by, cols)
      /\ wanted' = [i \in DOMAIN wanted |-> paged(i)]
  BY DEF Limited, HasRead
<1>2. n \in Nat /\ task.by.offset \in Nat
  <2>1. task.by \in Limits
    BY <1>1, SoundRead DEF Tasked
  <2> QED
    BY <2>1, LateMaterializationAssumption
<1>3. task.by.offset = 0
  <2> DEFINE b == task.by.offset > 0
  <2>1. dropped' = (dropped \/ b)
    BY DEF Limited
  <2>2. ~b
    <3> HIDE DEF b
    <3> QED
      BY <2>1, Zenon
  <2> QED
    BY <1>2, <2>2
<1>4. /\ DOMAIN got = All /\ N \in Nat /\ All = 1 .. N /\ DOMAIN wanted = All /\ pool \in Seq(Blocks)
      /\ \A i \in 1 .. N : cols[i] = got[i].col /\ cols[i].ids = Null
      /\ \A i \in 1 .. N : wanted[i] \in Wants
  BY <1>1, SoundRead, SoundStores
<1>5. DOMAIN cols = 1 .. N
  BY <1>4
<1>6. /\ Uniform(wanted)
      /\ \A i \in All : GotRight(pool, got[i], wanted[i])
      /\ \A i \in All : wanted[i].rows \in Seq(Int) /\ Sound(pool, got[i].col) /\ got[i].col \in Cols
  BY <1>1, HasReadRight DEF Needed
<1>7. \A i \in 1 .. N : /\ cols[i] \in Cols /\ Sound(pool, cols[i]) /\ Right(pool, cols[i], wanted[i])
                         /\ cols[i].len >= Len(wanted[i].rows)
  BY <1>4, <1>6 DEF GotRight
<1>8. relation' = [i \in 1 .. N |-> at(i)]
  BY <1>1, <1>5 DEF Shorten
<1> HIDE DEF cols
<1>9. ASSUME NEW i \in 1 .. N
      PROVE  /\ least(i) \in Nat /\ least(i) <= cols[i].len
             /\ least(i) = n \/ (least(i) <= n /\ least(i) >= Len(wanted[i].rows))
  <2>1. lens(i) \in SUBSET Nat /\ lens(i) # {}
    <3>1. \A j \in 1 .. i : j \in 1 .. N
      BY <1>4
    <3>2. \A j \in 1 .. i : cols[j] \in Cols
      BY <1>7, <3>1
    <3>3. \A j \in 1 .. i : cols[j].len \in Nat
      BY <3>2 DEF Cols
    <3> QED
      BY <1>2, <3>3
  <2>2. \E m \in lens(i) : \A k \in lens(i) : m <= k
    <3> HIDE DEF lens
    <3> QED
      BY <2>1, LeastNumber
  <2>3. least(i) \in lens(i) /\ \A k \in lens(i) : least(i) <= k
    <3> HIDE DEF lens
    <3> QED
      BY <2>2
  <2> HIDE DEF least
  <2>4. n \in lens(i) /\ cols[i].len \in lens(i)
    BY <1>4
  <2>5. least(i) = n \/ \E j \in 1 .. i : least(i) = cols[j].len
    BY <2>3
  <2>6. ASSUME NEW j \in 1 .. i PROVE cols[j].len >= Len(wanted[i].rows)
    <3>1. j \in 1 .. N
      BY <1>4
    <3>2. Len(wanted[j].rows) = Len(wanted[i].rows)
      BY <1>4, <1>6, <3>1 DEF Uniform
    <3> QED
      BY <1>7, <3>1, <3>2
  <2> HIDE DEF lens
  <2>7. least(i) = n \/ least(i) >= Len(wanted[i].rows)
    BY <2>5, <2>6
  <2> QED
    BY <2>1, <2>3, <2>4, <2>7
<1> HIDE DEF least
<1>10. ASSUME NEW i \in 1 .. N
       PROVE  paged(i).rows = Take(wanted[i].rows, n) /\ paged(i).tag = wanted[i].tag
  <2>1. wanted[i] \in Wants /\ wanted[i].rows \in Seq(Int)
    BY <1>4, <1>6
  <2>2. Page(wanted[i].rows, n, 0) = Take(wanted[i].rows, n)
    BY <1>2, <2>1, PageFacts
  <2> QED
    BY <1>3, <2>1, <2>2 DEF Wants
<1> HIDE DEF n, paged
<1>11. ASSUME NEW i \in 1 .. N PROVE Right(pool, at(i), paged(i))
  <2> DEFINE c == cols[i]
             w == wanted[i]
             m == least(i)
             v == paged(i)
  <2>1. c \in Cols /\ Sound(pool, c) /\ c.ids = Null /\ Right(pool, c, w) /\ c.len >= Len(w.rows) /\ w.rows \in Seq(Int)
    BY <1>4, <1>6, <1>7
  <2>2. m \in Nat /\ (m = n \/ (m <= n /\ m >= Len(w.rows))) /\ m <= c.len
    BY <1>9
  <2>3. v.rows = Take(w.rows, n) /\ v.tag = w.tag
    BY <1>10
  <2>4. at(i) = Column(c.data, m)
    OBVIOUS
  <2> HIDE DEF c, w, m, v, at
  <2>5. Right(pool, Column(c.data, m), v)
    BY <1>2, <1>4, <2>1, <2>2, <2>3, ShorterRight
  <2> QED
    BY <2>4, <2>5 DEF v
<1> HIDE DEF at
<1>12. Uniform(wanted')
  <2>1. DOMAIN wanted' = 1 .. N /\ \A i \in 1 .. N : wanted'[i].rows = Take(wanted[i].rows, n)
    BY <1>1, <1>4, <1>10
  <2>2. \A i \in 1 .. N : Len(Take(wanted[i].rows, n)) = (IF n < Len(wanted[i].rows) THEN n ELSE Len(wanted[i].rows))
    <3> TAKE i \in 1 .. N
    <3>1. wanted[i].rows \in Seq(Int)
      BY <1>4, <1>6
    <3> QED
      BY <1>2, <3>1, TakeFacts
  <2>3. \A i, j \in 1 .. N : Len(wanted[i].rows) = Len(wanted[j].rows)
    BY <1>4, <1>6 DEF Uniform
  <2> QED
    BY <2>1, <2>2, <2>3 DEF Uniform
<1>13. AllRight(pool', relation', wanted')
  BY <1>1, <1>4, <1>8, <1>11, <1>12 DEF AllRight
<1>14. ReadyRight'
  BY <1>13 DEF ReadyRight
<1>15. StoresRight'
  BY <1>1, <1>4, GrowsSelf, SameGrows, StoresRightStay DEF Values
<1> QED
  BY <1>1, <1>14, <1>15, OtherValues

-----------------------------------------------------------------------------
(* A pipeline ends *)

\* What is left to show of a step that ends a pipeline.
LEMMA EndRight ==
    ASSUME StoresRight', Ends
    PROVE  Values'
<1>1. pc' = "source"
  BY DEF Ends
<1> QED
  BY <1>1, OtherValues DEF ReadyRight

\* A CTE lends what the columns without row ids stand for.
LEMMA CTESinkRight ==
    ASSUME Structure, Structure', Values, CTESink, ~dropped'
    PROVE  Values'
<1> DEFINE cols == [i \in DOMAIN relation |-> Column(relation[i].data, relation[i].len)]
<1>1. /\ pc = "ready" /\ Ends /\ UNCHANGED <<built, sorted>>
      /\ cte' = [Nothing EXCEPT !.cols = cols, !.want = wanted]
      /\ pool' = Locked(pool, Lend(relation))
  BY DEF CTESink
<1>2. \A i \in DOMAIN relation : relation[i].ids = Null
  <2> DEFINE b == \E i \in DOMAIN relation : relation[i].ids # Null
  <2>1. dropped' = (dropped \/ b)
    BY DEF CTESink
  <2>2. ~b
    <3> HIDE DEF b
    <3> QED
      BY <2>1, Zenon
  <2> QED
    BY <2>2
<1>3. pool \in Seq(Blocks) /\ \A i \in DOMAIN relation : relation[i] \in Cols /\ Sound(pool, relation[i])
  BY <1>1, SoundStores, SoundReady
<1>4. Same(pool, pool')
  BY <1>1, <1>3, LockedFacts, SameGrows
<1>5. AllRight(pool, relation, wanted)
  BY <1>1 DEF Values, ReadyRight
<1>6. AllRight(pool', relation, wanted)
  BY <1>3, <1>4, <1>5, AllRightSame
<1>7. AllRight(pool', cols, wanted)
  BY <1>2, <1>3, <1>6, LentRight
<1> HIDE DEF cols
<1>8. cte'.cols = cols /\ cte'.want = wanted
  BY <1>1 DEF Nothing
<1>9. /\ AllRight(pool', built.cols, built.want) /\ AllRight(pool', sorted.cols, sorted.want)
      /\ Denotes(pool', built.key) = built.keyRows
  BY <1>4, StoresRightSame DEF Values
<1>10. StoresRight'
  BY <1>1, <1>7, <1>8, <1>9 DEF Values, StoresRight
<1> QED
  BY <1>1, <1>10, EndRight

\* What an operator that reads and hands on every column has.
LEMMA HandsRight ==
    ASSUME Structure, Values, pc = "read", todo = <<>>, task.kind # "distinct", task.hands = All
    PROVE  AllRight(pool, relation, wanted)
<1>1. Uniform(wanted) /\ \A j \in All : Right(pool, relation[j], wanted[j])
  BY InHandRight
<1> QED
  BY <1>1 DEF AllRight, All

\* A delim join caches its columns as they are.
LEMMA CachedRight ==
    ASSUME Structure, Structure', Values, Cached
    PROVE  Values'
<1>1. /\ pc = "read" /\ task.kind = "delim" /\ todo = <<>> /\ Ends /\ UNCHANGED <<pool, built, sorted>>
      /\ cte' = [Nothing EXCEPT !.cols = relation, !.want = wanted, !.once = TRUE]
  BY DEF Cached, HasRead
<1>2. task.hands = All
  BY <1>1, SoundRead DEF Tasked
<1>3. AllRight(pool, relation, wanted)
  BY <1>1, <1>2, HandsRight
<1>4. cte'.cols = relation /\ cte'.want = wanted
  BY <1>1 DEF Nothing
<1>5. StoresRight'
  BY <1>1, <1>3, <1>4 DEF Values, StoresRight
<1> QED
  BY <1>1, <1>5, EndRight

\* The build side keeps its columns and its key as they are.
LEMMA BuiltRight ==
    ASSUME Structure, Structure', Values, Built
    PROVE  Values'
<1> DEFINE key == got[task.by].col
           keyRows == wanted[task.by].rows
<1>1. /\ pc = "read" /\ task.kind = "build" /\ todo = <<>> /\ UNCHANGED <<pool, cte, sorted>>
      /\ built' = [Nothing EXCEPT !.cols = relation, !.want = wanted, !.key = key, !.keyRows = keyRows]
      /\ IF task.distinct = <<>>
         THEN Ends
         ELSE /\ task' = [kind |-> "distinct", hands |-> DOMAIN relation, by |-> task.distinct]
              /\ pc' = pc
  BY DEF Built, HasRead
<1>2. task.hands = All /\ Needed = {task.by}
  BY <1>1, SoundRead DEF Tasked, Needed
<1>3. AllRight(pool, relation, wanted)
  BY <1>1, <1>2, HandsRight
<1>4. Uniform(wanted) /\ DOMAIN wanted = All /\ task.by \in All /\ Denotes(pool, key) = keyRows
  BY <1>1, <1>2, InHandRight DEF GotRight, Right
<1>5. \A i \in DOMAIN wanted : Len(wanted[i].rows) = Len(keyRows)
  BY <1>4 DEF Uniform
<1> HIDE DEF key, keyRows
<1>6. built'.cols = relation /\ built'.want = wanted /\ built'.key = key /\ built'.keyRows = keyRows
  BY <1>1 DEF Nothing
<1>7. StoresRight'
  BY <1>1, <1>3, <1>4, <1>5, <1>6 DEF Values, StoresRight
<1>8. CASE task.distinct = <<>>
  BY <1>1, <1>7, <1>8, EndRight
<1>9. CASE task.distinct # <<>>
  <2>1. pc' = "read" /\ task'.kind = "distinct"
    BY <1>1, <1>9
  <2> QED
    BY <1>7, <2>1 DEF Values, ReadyRight, ReadRight, ComposeRight, AnswerIsWanted
<1> QED
  BY <1>8, <1>9

\* The distinct aggregate of a right delim join ends.
LEMMA DistinctRight ==
    ASSUME Structure, Structure', Values, Distinct
    PROVE  Values'
<1>1. Ends /\ UNCHANGED <<pool, cte, built, sorted>>
  BY DEF Distinct
<1>2. StoresRight'
  BY <1>1 DEF Values, StoresRight
<1> QED
  BY <1>1, <1>2, EndRight

\* The answer of the query is the plan's.
LEMMA CollectedRight ==
    ASSUME Structure, Structure', Values, Collected
    PROVE  Values'
<1>1. /\ pc = "read" /\ task.kind = "collect" /\ todo = <<>> /\ pc' = "done"
      /\ UNCHANGED <<pool, relation, wanted, task, got, cte, built, sorted>>
  BY DEF Collected, HasRead
<1>2. StoresRight'
  BY <1>1 DEF Values, StoresRight
<1>3. Needed = ToSet(task.by)
  BY <1>1 DEF Needed
<1>4. \A i \in ToSet(task.by) : Denotes(pool, got[i].col) = wanted[i].rows
  BY <1>1, <1>3, HasReadRight DEF GotRight, Right
<1>5. AnswerIsWanted'
  BY <1>1, <1>4 DEF AnswerIsWanted
<1> QED
  BY <1>1, <1>2, <1>5 DEF Values, ReadyRight, ReadRight, ComposeRight

\* A sort stores the rows in the order of its key.
LEMMA SortedRight ==
    ASSUME Structure, Structure', Values, Sorted
    PROVE  Values'
<1> DEFINE s == task.by
           n == Len(s.cols)
           order == Slice(Order(Denotes(pool, got[s.key].col)), s.n, s.offset)
           meant == Slice(Order(wanted[s.key].rows), s.n, s.offset)
           state == IF s.offset > 0 THEN "inner" ELSE "kept"
           block(i) == [state |-> state, tag |-> got[s.cols[i]].tag,
                        rows |-> Pick(Denotes(pool, got[s.cols[i]].col), order)]
           blocks == [i \in DOMAIN s.cols |-> block(i)]
           at(i) == IF order = <<>> THEN Empty ELSE Column(Len(pool) + i, Len(order))
           cols == [i \in DOMAIN s.cols |-> at(i)]
           means(i) == Narrow(wanted, meant)[s.cols[i]]
           want == [i \in DOMAIN s.cols |-> means(i)]
<1>1. /\ pc = "read" /\ task.kind = "sort" /\ todo = <<>> /\ Ends /\ UNCHANGED <<cte, built>>
      /\ pool' = pool \o blocks
      /\ sorted' = [Nothing EXCEPT !.cols = cols, !.want = want]
  BY DEF Sorted, HasRead
<1>2. /\ n \in Nat /\ DOMAIN s.cols = 1 .. n /\ \A i \in 1 .. n : s.cols[i] \in All
      /\ s.n \in Nat /\ s.offset \in Nat /\ s.key \in All
  BY <1>1, SortHas
<1>3. pool \in Seq(Blocks) /\ Len(pool) \in Nat
  BY SoundStores, SeqFacts
<1>4. \A i \in Needed : i \in All /\ GotRight(pool, got[i], wanted[i])
  BY <1>1, HasReadRight
<1>5. Uniform(wanted) /\ \A i \in All : wanted[i].rows \in Seq(Int)
  BY <1>1, HasReadRight
<1>6. s.key \in Needed /\ \A i \in 1 .. n : s.cols[i] \in Needed
  <2>1. Needed = ToSet(s.cols) \cup {s.key}
    BY <1>1 DEF Needed
  <2>2. \A i \in 1 .. n : s.cols[i] \in ToSet(s.cols)
    BY <1>2 DEF ToSet
  <2> QED
    BY <2>1, <2>2
<1> HIDE DEF n
<1>7. meant = order
  BY <1>4, <1>6 DEF GotRight, Right
<1>8. order \in Seq(Placed(wanted[s.key].rows))
  <2> DEFINE key == wanted[s.key].rows
  <2>1. key \in Seq(Int) /\ Denotes(pool, got[s.key].col) = key
    BY <1>2, <1>4, <1>5, <1>6 DEF GotRight, Right
  <2> HIDE DEF key
  <2>2. Order(key) \in Seq(Placed(key))
    BY <2>1, OrderFacts
  <2>3. Slice(Order(key), s.n, s.offset) \in Seq(Placed(key))
    BY <1>2, <2>2, PageFacts
  <2> QED
    BY <2>1, <2>3 DEF key
<1> HIDE DEF order, meant
<1>9. order # <<>> => \A i \in All : wanted[i].rows # <<>>
  <2> SUFFICES ASSUME order # <<>>, NEW i \in All PROVE wanted[i].rows # <<>>
    OBVIOUS
  <2> DEFINE key == wanted[s.key].rows
             T == Placed(key)
  <2>1. order \in Seq(T) /\ key \in Seq(Int) /\ wanted[i].rows \in Seq(Int) /\ Len(wanted[i].rows) = Len(key)
    <3>1. DOMAIN wanted = All
      BY <1>1, SoundRead
    <3> QED
      BY <1>2, <1>5, <1>8, <3>1 DEF Uniform
  <2>2. T # {}
    <3> HIDE DEF T
    <3>1. Len(order) \in Nat /\ Len(order) # 0 /\ DOMAIN order = 1 .. Len(order) /\ \A k \in DOMAIN order : order[k] \in T
      BY <2>1, SeqFacts
    <3>2. order[1] \in T
      BY <3>1
    <3> QED
      BY <3>2
  <2>3. DOMAIN key # {}
    BY <2>2 DEF Placed
  <2> HIDE DEF key
  <2>4. Len(key) # 0
    BY <2>1, <2>3, SeqFacts
  <2> QED
    BY <2>1, <2>4
<1>10. wanted \in Seq(Wants) /\ Len(wanted) = Len(relation) /\ All = 1 .. Len(relation)
  BY <1>1, SoundRead
<1>11. \A i \in All : /\ Narrow(wanted, order)[i].tag = wanted[i].tag
                      /\ Narrow(wanted, order)[i].rows = Pick(wanted[i].rows, order)
  <2>1. \A i \in 1 .. Len(wanted) : /\ Narrow(wanted, order)[i].tag = wanted[i].tag
                                    /\ Narrow(wanted, order)[i].rows = Pick(wanted[i].rows, order)
    BY <1>8, <1>10, NarrowFacts
  <2> QED
    BY <1>10, <2>1
<1>12. \A i \in 1 .. n : means(i).tag = wanted[s.cols[i]].tag /\ means(i).rows = Pick(wanted[s.cols[i]].rows, order)
  BY <1>2, <1>7, <1>11
<1>13. \A i \in All : /\ Pick(wanted[i].rows, order) \in Seq(Int) /\ Len(Pick(wanted[i].rows, order)) = Len(order)
                      /\ (Pick(wanted[i].rows, order) = <<>> <=> order = <<>>)
  BY <1>5, <1>8, PickFacts
<1>14. \A i \in 1 .. n : block(i).rows = Pick(wanted[s.cols[i]].rows, order) /\ block(i).tag = got[s.cols[i]].tag
  BY <1>4, <1>6 DEF GotRight, Right
<1>15. \A i \in All : got[i].tag \in Int
  BY <1>1, SoundRead
<1>16. \A i \in 1 .. n : block(i) \in Blocks
  <2> TAKE i \in 1 .. n
  <2>1. block(i).rows \in Seq(Int) /\ got[s.cols[i]].tag \in Int
    BY <1>2, <1>13, <1>14, <1>15
  <2>2. state \in {"kept", "live", "free", "inner"}
    OBVIOUS
  <2> HIDE DEF state
  <2> QED
    BY <2>1, <2>2 DEF Blocks
<1> HIDE DEF block, means
<1>17. blocks \in Seq(Blocks) /\ Len(blocks) = n /\ \A i \in 1 .. n : blocks[i] = block(i)
  <2>1. DOMAIN blocks = 1 .. n /\ blocks \in [1 .. n -> Blocks] /\ \A i \in 1 .. n : blocks[i] = block(i)
    BY <1>2, <1>16
  <2> HIDE DEF blocks
  <2> QED
    BY <1>2, <2>1, IsSeq
<1> HIDE DEF blocks
<1>18. /\ Grows(pool, pool')
       /\ \A i \in 1 .. n : Len(pool) + i \in DOMAIN pool' /\ pool'[Len(pool) + i] = block(i)
  BY <1>1, <1>3, <1>17, MoreFacts
<1>19. Same(pool, pool')
  BY <1>18, SameGrows
<1>20. \A i \in 1 .. n : Len(means(i).rows) = Len(order)
  <2> TAKE i \in 1 .. n
  <2>1. means(i).rows = Pick(wanted[s.cols[i]].rows, order) /\ s.cols[i] \in All
    BY <1>2, <1>12
  <2>2. Len(Pick(wanted[s.cols[i]].rows, order)) = Len(order)
    BY <1>13, <2>1
  <2> QED
    BY <2>1, <2>2
<1>21. ASSUME NEW i \in 1 .. n PROVE Right(pool', at(i), means(i))
  <2> DEFINE w == means(i)
             c == s.cols[i]
  <2>1. /\ w.rows \in Seq(Int) /\ Len(w.rows) = Len(order) /\ (w.rows = <<>> <=> order = <<>>)
        /\ w.tag = wanted[c].tag
    BY <1>2, <1>12, <1>13, <1>20
  <2>2. CASE order = <<>>
    <3>1. at(i) = Empty /\ w.rows = <<>>
      BY <2>1, <2>2
    <3> HIDE DEF at, w
    <3> QED
      BY <3>1, EmptyRight DEF w
  <2>3. CASE order # <<>>
    <3> DEFINE b == Len(pool) + i
    <3>1. at(i) = Column(b, Len(w.rows))
      BY <2>1, <2>3
    <3>2. b \in Nat /\ b # Null /\ pool'[b] = block(i)
      BY <1>2, <1>3, <1>18 DEF Null
    <3>3. block(i).rows = w.rows /\ block(i).tag = w.tag
      <4>1. wanted[c].rows # <<>> /\ GotRight(pool, got[c], wanted[c])
        BY <1>2, <1>4, <1>6, <1>9, <2>3
      <4>2. got[c].tag = wanted[c].tag
        BY <4>1 DEF GotRight
      <4> QED
        BY <1>12, <1>14, <2>1, <4>2
    <3> HIDE DEF b, at, w
    <3>4. Right(pool', Column(b, Len(w.rows)), w)
      BY <2>1, <3>2, <3>3, StoredColumn
    <3> QED
      BY <3>1, <3>4 DEF w
  <2> QED
    BY <2>2, <2>3
<1> HIDE DEF at
<1>22. AllRight(pool', cols, want)
  <2>1. DOMAIN cols = 1 .. n /\ DOMAIN want = 1 .. n /\ \A i \in 1 .. n : cols[i] = at(i) /\ want[i] = means(i)
    BY <1>2
  <2> HIDE DEF cols, want
  <2> QED
    BY <1>20, <1>21, <2>1 DEF AllRight, Uniform
<1> HIDE DEF cols, want
<1>23. sorted'.cols = cols /\ sorted'.want = want
  BY <1>1 DEF Nothing
<1>24. /\ AllRight(pool', built.cols, built.want) /\ AllRight(pool', cte.cols, cte.want)
       /\ Denotes(pool', built.key) = built.keyRows
  BY <1>19, StoresRightSame DEF Values
<1>25. StoresRight'
  BY <1>1, <1>22, <1>23, <1>24 DEF Values, StoresRight
<1> QED
  BY <1>1, <1>25, EndRight

-----------------------------------------------------------------------------
(* Every step *)

\* Before the first scan nothing is meant.
LEMMA ValuesFirst ==
    ASSUME Init
    PROVE  Values
<1>1. pc = "source" /\ cte = Nothing /\ built = Nothing /\ sorted = Nothing
  BY DEF Init
<1>2. StoresRight
  BY <1>1, EmptyRight, EmptyFacts DEF StoresRight
<1> QED
  BY <1>1, <1>2 DEF Values, ReadyRight, ReadRight, ComposeRight, AnswerIsWanted

\* Row ids or an offset that were lost stay lost.
LEMMA DroppedStays ==
    ASSUME Next, dropped
    PROVE  dropped'
<1>1. CASE UNCHANGED dropped
  BY <1>1, Zenon
<1>2. CASE \E b : dropped' = (dropped \/ b)
  BY <1>2, Zenon
<1>3. CASE (\E s \in Scans : TableScan(s)) \/ SortScan
  BY <1>1, <1>3 DEF TableScan, SortScan
<1>4. CASE CTEScan
  <2> DEFINE b == \E i \in DOMAIN cte.cols : cte.cols[i].ids # Null
  <2>1. dropped' = (dropped \/ b)
    BY <1>4 DEF CTEScan
  <2> HIDE DEF b
  <2> QED
    BY <2>1, Zenon
<1>5. CASE Materialise \/ Compose \/ Composed
  BY <1>1, <1>5 DEF Materialise, Compose, Composed
<1>6. CASE (\E f \in Filters : Filter(f)) \/ (\E items \in Projections : Project(items)) \/ (\E l \in Limits : Limit(l))
  BY <1>1, <1>6, Zenon DEF Filter, Project, Limit
<1>7. CASE Select \/ Compute \/ Join \/ Built \/ Distinct
  BY <1>1, <1>7, Zenon DEF Select, Compute, Join, Built, Distinct
<1>8. CASE Limited
  <2> DEFINE b == task.by.offset > 0
  <2>1. dropped' = (dropped \/ b)
    BY <1>8 DEF Limited
  <2> HIDE DEF b
  <2> QED
    BY <2>1, Zenon
<1>9. CASE \E key \in DOMAIN relation : Probe(key) \/ \E refs \in Aggregates \cup {<<>>} : Build(key, refs)
  BY <1>1, <1>9, Zenon DEF Probe, Build
<1>10. CASE CTESink
  <2> DEFINE b == \E i \in DOMAIN relation : relation[i].ids # Null
  <2>1. dropped' = (dropped \/ b)
    BY <1>10 DEF CTESink
  <2> HIDE DEF b
  <2> QED
    BY <2>1, Zenon
<1>11. CASE (\E refs \in Aggregates : DelimSink(refs)) \/ Cached \/ (\E s \in Sorts : Sort(s)) \/ Sorted \/ Collected
  BY <1>1, <1>11, Zenon DEF DelimSink, Cached, Sort, Sorted, Collected
<1>12. CASE \E refs \in Aggregates \cup {[i \in DOMAIN relation |-> i]} : Collect("collect", refs)
  BY <1>1, <1>12, Zenon DEF Collect
<1> QED
  BY <1>3, <1>4, <1>5, <1>6, <1>7, <1>8, <1>9, <1>10, <1>11, <1>12 DEF Next

\* Every step keeps what the columns stand for.
LEMMA NextRight ==
    ASSUME Structure, Structure', Values, Next, ~dropped'
    PROVE  Values'
<1>1. CASE \E s \in Scans : TableScan(s)
  BY <1>1, TableScanRight
<1>2. CASE CTEScan
  BY <1>2, CTEScanRight
<1>3. CASE SortScan
  BY <1>3, SortScanRight
<1>4. CASE Materialise
  BY <1>4, MaterialiseRight
<1>5. CASE Compose
  BY <1>5, ComposeStepRight
<1>6. CASE Composed
  BY <1>6, ComposedRight
<1>7. CASE \E f \in Filters : Filter(f)
  BY <1>7, FilterReadsRight, FilterEmptyRight
<1>8. CASE Select
  BY <1>8, SelectRight
<1>9. CASE \E items \in Projections : Project(items)
  BY <1>9, ProjectRight
<1>10. CASE Compute
  BY <1>10, ComputeRight
<1>11. CASE \E l \in Limits : Limit(l)
  BY <1>11, LimitRight
<1>12. CASE Limited
  BY <1>12, LimitedRight
<1>13. CASE \E key \in DOMAIN relation : Probe(key) \/ \E refs \in Aggregates \cup {<<>>} : Build(key, refs)
  BY <1>13, ProbeRight, BuildRight
<1>14. CASE Join
  BY <1>14, JoinRight
<1>15. CASE Built
  BY <1>15, BuiltRight
<1>16. CASE Distinct
  BY <1>16, DistinctRight
<1>17. CASE CTESink
  BY <1>17, CTESinkRight
<1>18. CASE \E refs \in Aggregates : DelimSink(refs)
  BY <1>18, DelimSinkRight
<1>19. CASE Cached
  BY <1>19, CachedRight
<1>20. CASE \E s \in Sorts : Sort(s)
  BY <1>20, SortRight
<1>21. CASE Sorted
  BY <1>21, SortedRight
<1>22. CASE \E refs \in Aggregates \cup {[i \in DOMAIN relation |-> i]} : Collect("collect", refs)
  BY <1>22, CollectRight
<1>23. CASE Collected
  BY <1>23, CollectedRight
<1> QED
  BY <1>1, <1>2, <1>3, <1>4, <1>5, <1>6, <1>7, <1>8, <1>9, <1>10, <1>11, <1>12, <1>13, <1>14, <1>15, <1>16, <1>17,
     <1>18, <1>19, <1>20, <1>21, <1>22, <1>23 DEF Next

-----------------------------------------------------------------------------
(* The theorems *)

ValuesInv == BlocksInv /\ (Excused \/ Values)

\* The invariant is inductive.
LEMMA ValuesInvStays ==
    ASSUME ValuesInv, [Next]_vars
    PROVE  ValuesInv'
<1>1. BlocksInv'
  BY BlocksInvStays DEF ValuesInv
<1>2. CASE Next
  <2>1. CASE reread' \/ dropped'
    BY <1>1, <2>1 DEF ValuesInv, Excused
  <2>2. CASE ~reread' /\ ~dropped'
    <3>1. ~reread /\ ~dropped
      BY <1>2, <2>2, NextRuns, DroppedStays
    <3>2. Structure /\ Values
      BY <3>1 DEF ValuesInv, BlocksInv, Excused
    <3>3. Structure'
      BY <1>1, <2>2 DEF BlocksInv
    <3>4. Values'
      BY <1>2, <2>2, <3>2, <3>3, NextRight
    <3> QED
      BY <1>1, <3>4 DEF ValuesInv
  <2> QED
    BY <2>1, <2>2
<1>3. CASE UNCHANGED vars
  <2>1. UNCHANGED <<pool, relation, wanted, pc, task, todo, got, moving, cte, built, sorted, reread, dropped>>
    BY <1>3 DEF vars
  <2>2. StoresRight' = StoresRight /\ ReadyRight' = ReadyRight
    BY <2>1 DEF StoresRight, ReadyRight
  <2>3. All' = All /\ InHand' = InHand
    BY <2>1 DEF All, InHand
  <2>4. \A item : Skipped(item)' = Skipped(item)
    BY <2>1 DEF Skipped, EmptyInput
  <2>5. \A i : Computes(i)' = Computes(i)
    BY <2>1, <2>4 DEF Computes
  <2>6. Needed' = Needed
    BY <2>1, <2>3, <2>5 DEF Needed
  <2>7. ReadRight' = ReadRight
    BY <2>1, <2>3, <2>4, <2>6 DEF ReadRight
  <2>8. ComposeRight' = ComposeRight
    BY <2>1 DEF ComposeRight
  <2>9. AnswerIsWanted' = AnswerIsWanted /\ Excused' = Excused
    BY <2>1 DEF AnswerIsWanted, Excused
  <2> QED
    BY <1>1, <2>2, <2>7, <2>8, <2>9 DEF ValuesInv, Values
<1> QED
  BY <1>2, <1>3

\* The invariant holds from the first state on.
LEMMA ValuesInvHolds == Spec => []ValuesInv
<1>1. Init => ValuesInv
  BY StructureFirst, ValuesFirst DEF ValuesInv, BlocksInv, Init
<1>2. ValuesInv /\ [Next]_vars => ValuesInv'
  BY ValuesInvStays
<1> QED
  BY <1>1, <1>2, PTL DEF Spec

\* Columns that are all right hold what the plan means.
LEMMA RightHolds ==
    ASSUME NEW cols, NEW want, AllRight(pool, cols, want), Len(cols) = Len(want)
    PROVE  Holds(cols, want)
  BY DEF AllRight, Right, Holds

(***************************************************************************)
(* Between two operators every column of the relation stands for the       *)
(* values the plan means, through any selections, compositions of row ids  *)
(* (gpu_materialize.cpp:120), projections, sorts and joins, and any reuse  *)
(* of freed addresses; until a block is freed under a column in use, or a  *)
(* working table or a limit drops what selects its rows.                   *)
(***************************************************************************)
THEOREM RelationHoldsItsValues == Spec => []RelationIsCurrent
<1>1. ValuesInv => RelationIsCurrent
  <2> SUFFICES ASSUME ValuesInv, pc = "ready", ~Excused PROVE Holds(relation, wanted)
    BY DEF RelationIsCurrent
  <2>1. Structure /\ Values
    BY DEF ValuesInv, BlocksInv, Excused
  <2>2. AllRight(pool, relation, wanted) /\ Len(relation) = Len(wanted)
    BY <2>1 DEF Values, ReadyRight, Structure, Paired
  <2> QED
    BY <2>2, RightHolds
<1> QED
  BY <1>1, ValuesInvHolds, PTL

(***************************************************************************)
(* What a CTE lends, a delim join caches, the build side of a join keeps   *)
(* (lockAllocation, gpu_buffer_manager.cpp:356) and a sort has stored      *)
(* stands for the same values until it is used, whatever the pipelines     *)
(* that run in between materialise, free and allocate.                     *)
(***************************************************************************)
THEOREM StoresHoldTheirValues == Spec => []StoredColumnsStay
<1>1. ValuesInv => StoredColumnsStay
  <2> SUFFICES ASSUME ValuesInv, ~Excused, NEW store \in {cte, built, sorted} PROVE Holds(store.cols, store.want)
    BY DEF StoredColumnsStay
  <2>1. Structure /\ Values
    BY DEF ValuesInv, BlocksInv, Excused
  <2>2. AllRight(pool, store.cols, store.want) /\ Len(store.cols) = Len(store.want)
    BY <2>1 DEF Values, StoresRight, Structure, Paired
  <2> QED
    BY <2>2, RightHolds
<1> QED
  BY <1>1, ValuesInvHolds, PTL

(***************************************************************************)
(* The columns the result collector or an aggregate has materialised at    *)
(* the end of the query hold the rows of the plan's answer.                *)
(***************************************************************************)
THEOREM AnswersAreThePlans == Spec => []AnswerIsWanted
<1>1. ValuesInv => AnswerIsWanted
  BY DEF ValuesInv, Values, AnswerIsWanted
<1> QED
  BY <1>1, ValuesInvHolds, PTL
=============================================================================
