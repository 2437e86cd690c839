------------------------------ MODULE InnerJoin ------------------------------
(* INNER joins, which never read Sirius's hash table: from the conditions of a  *)
(* LogicalComparisonJoin to the operator that is planned for them, the keys its *)
(* Sink and Execute prepare, and the pairs of rows that cuDF or the nested-loop *)
(* kernels find.                                                                *)
(* A condition is [cmp, left, right, casts]: a comparison, the columns it       *)
(* compares and the sides on which a cast stands above the column.  A column is *)
(* [type, values], with Null for a cleared mask bit.  projections holds the     *)
(* left and the right projection map; an empty one stands for all columns.      *)
(* unique holds the right columns that have is_unique.                           *)
EXTENDS Integers, Sequences, FiniteSets, FiniteSetsExt, Functions, SequencesExt

CONSTANTS
    Families,       \* sets of inputs [conditions, small, left, right, projections, unique]
    BlockThreads,   \* BLOCK_THREADS: rows of a block of the kernels
    Wrap,           \* 2^64, or a small number in its place
    Null,           \* SQL's NULL
    Unspecified     \* a value nothing in the code determines

VARIABLES
    input,       \* the join and the relations sunk into it and streamed through it
    phase,       \* "logical", "planned", "count", "write", "paired", "answered" or "thrown"
    conditions,  \* the operator's conditions
    kept,        \* hash_table_result or right_temp_data
    offset,      \* offset_each_thread, for the rows of the blocks that have counted
    total,       \* the counter that blocks add to
    pairs,       \* row_ids_left and row_ids_right, by place
    answer       \* the rows of output_relation
joinVars == <<conditions, kept, offset, total, pairs, answer>>
vars == <<input, phase, joinVars>>

Equalities == {"=", "IS NOT DISTINCT FROM"}
Inequalities == {"<>", "IS DISTINCT FROM"}
Ranges == {"<", ">", "<=", ">="}

Rows(relation) == DOMAIN relation[1].values
Column(type, values) == [type |-> type, values |-> values]

-------------------------------------------------------------------------------
(* Planning.                                                                     *)

Some(cs, cmps) == \E i \in DOMAIN cs : cs[i].cmp \in cmps
IsHashJoin == Some(input.conditions, Equalities)

\* Without an equality, ranges over large inputs would be a merge join.
CanMerge == Some(input.conditions, Ranges) /\ ~input.small
PlanThrows == input.conditions = <<>> \/ (~IsHashJoin /\ CanMerge)

Only(cs, cmps) == SelectSeq(cs, LAMBDA c : c.cmp \in cmps)

\* Equalities come first; a nested-loop join turns the others around.
Reordered ==
    LET others == Only(input.conditions, Inequalities \cup Ranges)
    IN  Only(input.conditions, Equalities) \o IF IsHashJoin THEN others ELSE Reverse(others)

PlanComparisonJoin ==
    /\ phase = "logical"
    /\ phase' = IF PlanThrows THEN "thrown" ELSE "planned"
    /\ conditions' = Reordered
    /\ UNCHANGED <<input, kept, offset, total, pairs, answer>>

-------------------------------------------------------------------------------
(* Sink.                                                                         *)

Conditions == DOMAIN conditions

\* The key of a build row must be a column; a hash join has one place per column of
\* its conditions and one per condition is asked for.
SinkThrows ==
    \/ \E i \in Conditions : "right" \in conditions[i].casts
    \/ IsHashJoin /\ \E i, j \in Conditions : i # j /\ conditions[i].right = conditions[j].right

IsKey(c) == \E i \in Conditions : conditions[i].right = c
ProjectionOf(map, relation) == IF map = <<>> THEN [c \in DOMAIN relation |-> c] ELSE map
LeftOutput == ProjectionOf(input.projections[1], input.left)
RightOutput == ProjectionOf(input.projections[2], input.right)

\* A hash join keeps its keys by condition and then the projected columns that are no
\* keys; a nested-loop join keeps every column.
Layout == IF IsHashJoin
          THEN [i \in Conditions |-> conditions[i].right] \o SelectSeq(RightOutput, LAMBDA c : ~IsKey(c))
          ELSE [c \in DOMAIN input.right |-> c]

\* A faulty variant, for mutation: a column's place in the output is taken for its
\* place among the columns that are no keys.
RhsOutputColumnsByPlace ==
    [k \in DOMAIN RightOutput |->
        IF ~IsHashJoin THEN k
        ELSE IF IsKey(RightOutput[k]) THEN CHOOSE i \in Conditions : conditions[i].right = RightOutput[k]
        ELSE IF Len(conditions) + k \in DOMAIN Layout THEN Len(conditions) + k ELSE Len(Layout)]

\* Where the right columns of the output are kept.
RhsOutputColumns ==
    [k \in DOMAIN RightOutput |->
        IF ~IsHashJoin THEN k
        ELSE IF IsKey(RightOutput[k]) THEN CHOOSE i \in Conditions : conditions[i].right = RightOutput[k]
        ELSE Len(conditions) + Cardinality({j \in 1 .. k : ~IsKey(RightOutput[j])})]

\* What is below the mask of a NULL.
Bytes(v) == IF v = Null THEN 0 ELSE v

\* right_temp_data takes data and length: masks are left behind, and so are the
\* offsets of strings.
Temp(c) == Column(c.type, [r \in DOMAIN c.values |->
               IF c.type = "VARCHAR" THEN Unspecified ELSE Bytes(c.values[r])])

Sink ==
    /\ phase = "planned" /\ kept = <<>>
    /\ IF SinkThrows THEN phase' = "thrown" /\ UNCHANGED kept
       ELSE /\ kept' = [p \in DOMAIN Layout |->
                         IF IsHashJoin THEN input.right[Layout[p]] ELSE Temp(input.right[p])]
            /\ UNCHANGED phase
    /\ UNCHANGED <<input, conditions, offset, total, pairs, answer>>

-------------------------------------------------------------------------------
(* cuDF.                                                                         *)

LeftKey(c, l) == input.left[c.left].values[l]
BuildKey(i) == kept[IF IsHashJoin THEN i ELSE conditions[i].right]
RightKey(i, r) == BuildKey(i).values[r]
LeftType(c) == IF "left" \in c.casts THEN "FLOAT64" ELSE input.left[c.left].type

Compare(cmp, a, b) ==
    CASE cmp \in Equalities -> a = b
      [] cmp \in Inequalities -> a # b
      [] cmp = "<" -> a < b
      [] cmp = ">" -> a > b
      [] cmp = "<=" -> a <= b
      [] cmp = ">=" -> a >= b

\* Keys of an equality are equal where both are NULL; any other comparison with a NULL
\* does not hold.
CudfHolds(i, l, r) ==
    LET cmp == conditions[i].cmp
        a == LeftKey(conditions[i], l)
        b == RightKey(i, r)
    IN  IF Null \in {a, b} THEN cmp \in Equalities /\ a = b ELSE Compare(cmp, a, b)

\* Types must agree, or be decimals of a hash join, of which the smaller is cast.
Decimals == {"DECIMAL32", "DECIMAL64"}
TypesThrow ==
    \E i \in Conditions :
        LET types == {LeftType(conditions[i]), BuildKey(i).type}
        IN  Cardinality(types) > 1
            /\ ~(types \subseteq Decimals /\ ~Some(conditions, Inequalities \cup Ranges))

\* The expressions refer to elements of vectors that a second comparison moves.
Dangles == Len(Only(conditions, Inequalities \cup Ranges)) > 1

\* unique_build_keys: one of the build columns is called unique, by a UNIQUE or PRIMARY
\* KEY constraint or by the operators below, two batches of unique keys included.  Where
\* every condition is an equality, cudf::distinct_hash_join then keeps one row of each key.
UniqueBuildKeys == \E i \in Conditions : conditions[i].right \in input.unique
IsDistinctJoin == IsHashJoin /\ UniqueBuildKeys /\ ~Some(conditions, Inequalities \cup Ranges)

KeysOf(r) == [i \in Conditions |-> RightKey(i, r)]
Represents(B) == \A r \in Rows(kept) : Cardinality({b \in B : KeysOf(b) = KeysOf(r)}) = 1
Builds == IF IsDistinctJoin THEN {B \in SUBSET Rows(kept) : Represents(B)} ELSE {Rows(kept)}

\* The pairs with a build row in the table.
CudfPairs(B) ==
    {p \in Rows(input.left) \X B : \A i \in Conditions : CudfHolds(i, p[1], p[2])}

-------------------------------------------------------------------------------
(* The nested-loop kernels.                                                      *)

\* They take over keys that are all INT64, as unsigned words, or all FLOAT64.
IsOwn == ~IsHashJoin /\ \E type \in {"INT64", "FLOAT64"} : \A i \in Conditions : LeftType(conditions[i]) = type
OwnComparisons == {"=", "IS NOT DISTINCT FROM", "<>", "IS DISTINCT FROM", "<", ">"}

Word(type, v) == IF type = "INT64" /\ Bytes(v) < 0 THEN Wrap + v ELSE Bytes(v)

\* A left row's right rows, by the first condition alone.
Matches(l) ==
    LET c == conditions[1]
        type == LeftType(c)
    IN  {r \in Rows(kept) : Compare(c.cmp, Word(type, LeftKey(c, l)), Word(type, RightKey(1, r)))}

Blocks == {(l - 1) \div BlockThreads : l \in Rows(input.left)}
Tile(b) == {l \in Rows(input.left) : (l - 1) \div BlockThreads = b}
MatchesOf(ls) == FoldSet(LAMBDA l, n : n + Cardinality(Matches(l)), 0, ls)

\* A faulty variant, for mutation: threads of a block start at the block's place.
CountBlockNoScan(b) ==
    /\ phase = "count" /\ Tile(b) \cap DOMAIN offset = {}
    /\ offset' = offset @@ [l \in Tile(b) |-> total]
    /\ total' = total + MatchesOf(Tile(b))
    /\ UNCHANGED <<input, phase, conditions, kept, pairs, answer>>

\* nested_loop_join_count: a block adds its matches to the counter, in any order of the
\* blocks; its threads' places follow from the sum of the threads before them.
CountBlock(b) ==
    /\ phase = "count" /\ Tile(b) \cap DOMAIN offset = {}
    /\ offset' = offset @@ [l \in Tile(b) |-> total + MatchesOf({k \in Tile(b) : k < l})]
    /\ total' = total + MatchesOf(Tile(b))
    /\ UNCHANGED <<input, phase, conditions, kept, pairs, answer>>

\* The output is allocated for as many pairs as were counted, none included: the
\* assert(h_count[0] > 0) before it is not part of a release build.
EndCount ==
    /\ phase = "count" /\ DOMAIN offset = Rows(input.left)
    /\ phase' = "write"
    /\ pairs' = [i \in 1 .. total |-> Unspecified]
    /\ UNCHANGED <<input, conditions, kept, offset, total, answer>>

\* nested_loop_join: a thread writes the pairs of its row from its place on.
WriteRow(l) ==
    LET right == SetToSortSeq(Matches(l), <)
    IN  /\ phase = "write" /\ l \in DOMAIN offset
        /\ pairs' = [i \in DOMAIN pairs \cup {offset[l] + n : n \in DOMAIN right} |->
                        IF i - offset[l] \in DOMAIN right THEN <<l, right[i - offset[l]]>> ELSE pairs[i]]
        /\ offset' = [k \in DOMAIN offset \ {l} |-> offset[k]]
        /\ UNCHANGED <<input, phase, conditions, kept, total, answer>>

EndWrite ==
    /\ phase = "write" /\ offset = <<>>
    /\ phase' = "paired"
    /\ UNCHANGED <<input, joinVars>>

-------------------------------------------------------------------------------
(* Execute.                                                                      *)

\* A hash join casts no keys, and the kernels have no <= and >=.
ExecuteThrows ==
    \/ IsHashJoin /\ \E i \in Conditions : "left" \in conditions[i].casts
    \/ IsOwn /\ \E i \in Conditions : conditions[i].cmp \notin OwnComparisons

NoRows == Rows(input.left) = {} \/ Rows(kept) = {}

\* A NULL key materialises with the rest; without rows on a side nothing is launched.
Execute ==
    /\ phase = "planned" /\ kept # <<>>
    /\ IF ExecuteThrows \/ (~NoRows /\ ~IsOwn /\ TypesThrow)
       THEN phase' = "thrown" /\ UNCHANGED pairs
       ELSE IF IsOwn /\ ~NoRows THEN phase' = "count" /\ UNCHANGED pairs
       ELSE /\ phase' = "paired"
            /\ pairs' \in IF NoRows THEN {<<>>} ELSE IF Dangles THEN {<<Unspecified>>}
                          ELSE {FoldSet(LAMBDA p, ps : Append(ps, p), <<>>, CudfPairs(B)) : B \in Builds}
    /\ UNCHANGED <<input, conditions, kept, offset, total, answer>>

\* HandleMaterializeRowIDs and its RHS variant: the columns of both sides.
Materialize ==
    LET Cells(relation, columns, r) == [k \in DOMAIN columns |-> relation[columns[k]].values[r]]
    IN  [i \in DOMAIN pairs |->
            IF pairs[i] = Unspecified THEN <<Unspecified>>
            ELSE Cells(input.left, LeftOutput, pairs[i][1]) \o Cells(kept, RhsOutputColumns, pairs[i][2])]

Output ==
    /\ phase = "paired"
    /\ phase' = "answered"
    /\ answer' = Materialize
    /\ UNCHANGED <<input, conditions, kept, offset, total, pairs>>

Init ==
    /\ \E F \in Families : input \in F
    /\ phase = "logical"
    /\ conditions = <<>> /\ kept = <<>> /\ offset = <<>> /\ total = 0 /\ pairs = <<>> /\ answer = <<>>

Next ==
    \/ PlanComparisonJoin \/ Sink \/ Execute \/ EndCount \/ EndWrite \/ Output
    \/ \E b \in Blocks : CountBlock(b)
    \/ \E l \in Rows(input.left) : WriteRow(l)

Spec == Init /\ [][Next]_vars

-------------------------------------------------------------------------------
(* What SQL says of the same join.                                               *)

SqlHolds(c, l, r) ==
    LET a == input.left[c.left].values[l]
        b == input.right[c.right].values[r]
    IN  IF Null \in {a, b} THEN (c.cmp = "IS NOT DISTINCT FROM" /\ a = b) \/ (c.cmp = "IS DISTINCT FROM" /\ a # b)
        ELSE Compare(c.cmp, a, b)

SqlPairs == {p \in Rows(input.left) \X Rows(input.right) :
                \A i \in DOMAIN input.conditions : SqlHolds(input.conditions[i], p[1], p[2])}

-------------------------------------------------------------------------------
(* Where the answer may differ from SQL's, each for a reason in the code.        *)

HasNull(relation, c) == Null \in Range(relation[c].values)

\* Two NULLs are equal to cuDF; IS DISTINCT FROM is <>; a nested-loop join forgets the
\* right side's NULLs and its kernels the left side's.
NullMisjudged ==
    \E i \in Conditions :
        LET c == conditions[i]
            left == HasNull(input.left, c.left)
            right == HasNull(input.right, c.right)
        IN  \/ c.cmp = "=" /\ left /\ right
            \/ c.cmp = "IS DISTINCT FROM" /\ (left \/ right)
            \/ ~IsHashJoin /\ right
            \/ IsOwn /\ left

\* The kernels look at one condition, and take INT64 for unsigned.
OthersIgnored == IsOwn /\ Len(conditions) > 1
OrderUnsigned ==
    /\ IsOwn /\ LeftType(conditions[1]) = "INT64" /\ conditions[1].cmp \in Ranges
    /\ \/ \E l \in Rows(input.left) : Bytes(LeftKey(conditions[1], l)) < 0
       \/ \E r \in Rows(input.right) : Bytes(input.right[conditions[1].right].values[r]) < 0

\* A column that is called unique but repeats: the keys of two batches that were each
\* unique, combined by an aggregate's sink.  Rows whose keys are the same are then lost.
UniqueRepeats == IsDistinctJoin /\ \E r, s \in Rows(kept) : r # s /\ KeysOf(r) = KeysOf(s)

PairsExcused ==
    ~NoRows /\ (NullMisjudged \/ OthersIgnored \/ OrderUnsigned \/ UniqueRepeats \/ (~IsOwn /\ Dangles))

\* The columns that right_temp_data passes on with less than they had.
Forgotten(c) == ~IsHashJoin /\ (input.right[c].type = "VARCHAR" \/ HasNull(input.right, c))

-------------------------------------------------------------------------------
\* An INNER join that is answered has exactly SQL's pairs, each once, whichever
\* operator was planned, whichever path its key types lead to and in whatever order
\* blocks claimed their places; a build column called unique changes none, unless it
\* repeats.  PairsExcused names the exceptions (GPUPhysicalHashJoin, GPUPhysicalNestedLoopJoin, nested_loop_join, cudf_join).
PairsAreSql ==
    phase = "answered" /\ ~PairsExcused => IsInjective(pairs) /\ Range(pairs) = SqlPairs

\* Each row of the answer holds the cells of one left and one right row, NULLs
\* included and in the order of the projection maps, except in the columns a nested-loop join forgets the mask or the offsets
\* of; this holds where the pairs themselves are not SQL's, too
\* (GPUPhysicalHashJoin, GPUPhysicalNestedLoopJoin::Sink, HandleMaterializeRowIDsRHS).
CellsArePaired ==
    phase = "answered" /\ ~(~IsOwn /\ Dangles /\ ~NoRows) =>
        \A i \in DOMAIN answer :
            \E l \in Rows(input.left), r \in Rows(input.right) :
                /\ pairs[i] = <<l, r>>
                /\ Len(answer[i]) = Len(LeftOutput) + Len(RightOutput)
                /\ \A k \in DOMAIN LeftOutput : answer[i][k] = input.left[LeftOutput[k]].values[l]
                /\ \A k \in DOMAIN RightOutput :
                       \/ Forgotten(RightOutput[k])
                       \/ answer[i][Len(LeftOutput) + k] = input.right[RightOutput[k]].values[r]
===============================================================================
