------------------------------ MODULE Aggregates ------------------------------
(* One LogicalAggregate from its plan to its answer: the projection that        *)
(* ExtractAggregateExpressions puts below it, the choice between the grouped    *)
(* and the ungrouped operator, which argument each aggregate reads, the cuDF    *)
(* calls made for it, and the columns GetData hands out.  The child delivers one *)
(* batch, or two where it is a join that adds the unmatched rows of its build    *)
(* side: RIGHT pretends that they have no left columns at all.                   *)
(* An aggregate is [fn, arg, distinct, filter]; arg and filter are columns of   *)
(* the child or None.  A column is [type, values, data]: data is FALSE where    *)
(* the pointer is null, and a Null among the values is a cleared mask bit.      *)
EXTENDS Integers, Sequences, FiniteSets, FiniteSetsExt, SequencesExt

CONSTANTS
    Families,      \* sets of inputs [groups, sets, aggs, batches]
    Null,          \* SQL's NULL
    Unspecified,   \* a value nothing in the code determines
    None,          \* no argument, no filter, no mode
    Max16, Max32   \* largest INT16 and INT32

ASSUME WidthAssumption == {Max16, Max32} \subseteq Nat \ {0} /\ Max16 < Max32

VARIABLES
    input,       \* the logical operator and the relations its child delivers
    phase,       \* "logical", "planned", "answered" or "thrown"
    sinks,       \* the batches taken in
    projection,  \* the expressions of the projection below the operator
    result,      \* group_by_result or aggregation_result
    answer       \* the columns GetData hands to the next operator
vars == <<input, phase, sinks, projection, result, answer>>

Aggs == DOMAIN input.aggs
Batch == input.batches[sinks + 1]
IsGrouped == input.groups # <<>> \/ input.sets > 1
Counts == {"count", "count_star"}

-------------------------------------------------------------------------------
(* Planning.                                                                     *)

Arguments(a) == (IF a.arg = None THEN <<>> ELSE <<a.arg>>)
                \o (IF a.filter = None THEN <<>> ELSE <<a.filter>>)

\* The groups, then per aggregate its argument and its filter.
Before(i) == input.groups \o FlattenSeq([j \in 1 .. i - 1 |-> Arguments(input.aggs[j])])
ExtractAggregateExpressions ==
    LET all == Before(Len(input.aggs) + 1)
    IN  IF all = <<>> THEN <<"k">> ELSE all     \* then the child itself stays

\* Where the bound reference of aggregate i's argument points.
ChildIndex(i) == Len(Before(i)) + 1

\* What DuckDB's function can do without groups; of those here, all but list.
HasSimpleUpdate(a) == a.fn # "list"

CreatePlan ==
    /\ phase = "logical"
    /\ projection' = ExtractAggregateExpressions
    /\ phase' = IF ~IsGrouped /\ \E i \in Aggs : ~HasSimpleUpdate(input.aggs[i])
                THEN "thrown" ELSE "planned"
    /\ UNCHANGED <<input, sinks, result, answer>>

-------------------------------------------------------------------------------
(* Columns.                                                                      *)

Column(type, values, data) == [type |-> type, values |-> values, data |-> data]
Absent == Column("none", <<>>, FALSE)          \* a null shared_ptr

\* HandleMaterializeExpression: the rows themselves; no rows lose the pointer.
CanMaterialize(c) == c.type \notin {"INT128", "DECIMAL16"}
Materialize(c) == Column(c.type, c.values, c.values # <<>>)
Read(at) == Materialize(Batch[projection[at]])

\* column_size: what the first column has.
NumRows == Len(Read(1).values)

\* The column that stands for the rows themselves in count(*).
Star == Column("INT64", [r \in 1 .. NumRows |-> 0], FALSE)

\* setFromCudfScalar: the types of a reduction it can take over.
ScalarTypes == {"INT16", "INT32", "INT64", "FLOAT32", "FLOAT64", "BOOLEAN",
                "DECIMAL32", "DECIMAL64", "DATE"}

\* AggregationType of an aggregate over column c, None where the code throws.
Mode(a, c) ==
    IF a.distinct THEN IF a.fn = "count" /\ (IsGrouped => c.data) THEN "COUNT_DISTINCT" ELSE None
    ELSE CASE a.fn = "count" -> "COUNT"
           [] a.fn = "count_star" -> "COUNT_STAR"
           [] a.fn \in {"sum", "sum_no_overflow"} -> "SUM"
           [] a.fn \in {"avg", "min", "max"} -> IF c.data THEN a.fn ELSE None
           [] a.fn = "first" -> IF IsGrouped THEN None ELSE "FIRST"
           [] OTHER -> None

-------------------------------------------------------------------------------
(* cuDF.                                                                         *)

Valid(vs) == SelectSeq(vs, LAMBDA v : v # Null)
Total(vs) == FoldSeq(LAMBDA x, y : x + y, 0, vs)

\* An aggregation of the rows that are not NULL, of which there is one.
Combine(mode, vs) ==
    CASE mode = "SUM" -> Total(vs)
      [] mode = "avg" -> <<Total(vs), Len(vs)>>
      [] mode = "min" -> Min(ToSet(vs))
      [] mode = "max" -> Max(ToSet(vs))

\* cudf::reduce: without a valid row the scalar is invalid and its value open.
Reduce(mode, c) ==
    LET valid == Valid(c.values)
    IN  IF valid = <<>> THEN Unspecified
        ELSE IF mode = "COUNT_DISTINCT" THEN Cardinality(ToSet(valid)) ELSE Combine(mode, valid)

\* One group of cudf::groupby; without a valid row its mask bit is cleared.
GroupReduce(mode, vs) ==
    CASE mode = "COUNT_STAR" -> Len(vs)
      [] mode = "COUNT" -> Len(Valid(vs))
      [] mode = "COUNT_DISTINCT" -> Cardinality(ToSet(Valid(vs)))
      [] OTHER -> IF Valid(vs) = <<>> THEN Null ELSE Combine(mode, Valid(vs))

-------------------------------------------------------------------------------
(* The ungrouped operator.                                                       *)

\* Arguments are counted without the filters between them.
PayloadIndex(i) == 1 + Cardinality({j \in 1 .. i - 1 : input.aggs[j].arg # None})

Distinct == {i \in Aggs : input.aggs[i].distinct}

\* MaterializeDistinctInput stores a column at the place its argument has in the
\* projection; afterwards each other aggregate fills its own place.
InputColumn(i) ==
    CASE input.aggs[i].arg = None -> Star
      [] input.aggs[i].arg # None /\ i \notin Distinct -> Read(PayloadIndex(i))
      [] OTHER -> IF \E d \in Distinct : ChildIndex(d) = i THEN Read(i) ELSE Absent

\* A faulty variant, for mutation: the widening for many rows is forgotten.
SumTypeNarrow(type, n) == IF type \in {"INT16", "INT32"} /\ n > 1 THEN "INT32" ELSE type

\* The type a sum is computed in, from the number of rows.
SumType(type, n) ==
    CASE type = "INT32" /\ n > 1 -> "INT64"
      [] type = "INT16" /\ n > Max32 \div Max16 -> "INT64"
      [] type = "INT16" /\ n > 1 /\ n <= Max32 \div Max16 -> "INT32"
      [] OTHER -> type

\* Two's complement.
WrapAt(max, s) == ((s + max + 1) % (2 * (max + 1))) - (max + 1)
Fit(type, s) == CASE type = "INT16" -> WrapAt(Max16, s)
                  [] type = "INT32" -> WrapAt(Max32, s)
                  [] OTHER -> s

\* sum_no_overflow of INT32 is converted to INT64 beforehand.
InputType(a, c) == IF a.fn = "sum_no_overflow" /\ c.type = "INT32" THEN "INT64" ELSE c.type

UngroupedSum(a, c) ==
    LET type == SumType(InputType(a, c), Len(c.values))
        s == Reduce("SUM", c)
    IN  Column(type, <<IF s = Unspecified THEN s ELSE Fit(type, s)>>, TRUE)

\* An average of integers or decimals is computed in FLOAT64.
AverageType(type) == IF type = "FLOAT32" THEN type ELSE "FLOAT64"

\* FIRST copies the first row's bytes for these types, without its mask bit, and
\* has no branch for the others, whose column stays as it is.
FirstTypes == {"INT64", "INT32", "FLOAT32", "FLOAT64", "BOOLEAN", "VARCHAR"}
First(c) ==
    LET lost == c.values = <<>> \/ Head(c.values) = Null
    IN  IF c.type \in FirstTypes
        THEN Column(c.type, <<IF lost THEN Unspecified ELSE Head(c.values)>>, TRUE) ELSE c

\* cudf_aggregate, over no rows and over some.
OverNothing(mode, c) ==
    IF mode \in {"COUNT", "COUNT_STAR", "COUNT_DISTINCT"}
    THEN Column("INT64", <<0>>, TRUE) ELSE Column(c.type, <<>>, c.data)

\* An argument without data, beside one with rows, has a count and a sum of zero.
OverRows(a, mode, c) ==
    CASE mode \in {"COUNT", "SUM"} /\ c.values = <<>> -> Column("INT64", <<0>>, TRUE)
      [] mode \in {"COUNT", "COUNT_STAR"} /\ c.values # <<>> -> Column("INT64", <<NumRows>>, TRUE)
      [] mode = "SUM" /\ c.values # <<>> -> UngroupedSum(a, c)
      [] mode = "FIRST" -> First(c)
      [] mode = "COUNT_DISTINCT" -> Column("INT64", <<Reduce(mode, c)>>, TRUE)
      [] mode = "avg" -> Column(AverageType(c.type), <<Reduce(mode, c)>>, TRUE)
      [] OTHER -> Column(c.type, <<Reduce(mode, c)>>, TRUE)

\* It looks at the first aggregate's argument.
SeesRows == InputColumn(1).values # <<>>

UngroupedResult ==
    [i \in Aggs |->
        LET c == InputColumn(i)
            mode == Mode(input.aggs[i], c)
        IN  IF SeesRows THEN OverRows(input.aggs[i], mode, c) ELSE OverNothing(mode, c)]

\* What is refused, the dereference of a null shared_ptr included.
UngroupedThrows ==
    \/ \E d \in Distinct : ChildIndex(d) > Len(input.aggs)
    \/ \E i \in Aggs :
        LET c == InputColumn(i)
            mode == Mode(input.aggs[i], c)
        IN  \/ ~CanMaterialize(c)
            \/ mode = None
            \/ c = Absent /\ SeesRows
            \/ /\ SeesRows
               /\ mode \in {"SUM", "min", "max"}
               /\ OverRows(input.aggs[i], mode, c).type \notin ScalarTypes

\* GetData passes type and data on, and neither masks nor offsets.
UngroupedAnswer ==
    [i \in DOMAIN result |->
        [result[i] EXCEPT !.values =
            [r \in DOMAIN @ |-> IF @[r] = Null \/ result[i].type = "VARCHAR" THEN Unspecified ELSE @[r]]]]

-------------------------------------------------------------------------------
(* The grouped operator.                                                         *)

GroupColumns == [g \in DOMAIN input.groups |-> Read(g)]
GroupedInput(i) == IF input.aggs[i].arg = None THEN Star ELSE Read(ChildIndex(i))

GroupedThrows ==
    \/ input.sets > 1
    \/ \E i \in Aggs : input.aggs[i].filter # None
    \/ \E g \in DOMAIN input.groups : ~CanMaterialize(GroupColumns[g])
    \/ \E i \in Aggs : ~CanMaterialize(GroupedInput(i))
    \/ /\ NumRows > 0
       /\ \/ \E g \in DOMAIN input.groups : ~GroupColumns[g].data
          \/ \E i \in Aggs :
            LET mode == Mode(input.aggs[i], GroupedInput(i))
            IN  mode = None \/ (mode = "avg" /\ GroupedInput(i).type \in {"DECIMAL32", "DECIMAL128"})

KeyOf(r) == [g \in DOMAIN input.groups |-> GroupColumns[g].values[r]]
Keys == {KeyOf(r) : r \in 1 .. NumRows}
RowsWith(key) == SelectSeq([r \in 1 .. NumRows |-> r], LAMBDA r : KeyOf(r) = key)

\* An argument without data counts and sums to zero in every group.
GroupValue(i, key) ==
    LET rows == RowsWith(key)
        c == GroupedInput(i)
    IN  IF c.values = <<>> THEN 0
        ELSE GroupReduce(Mode(input.aggs[i], c), [n \in DOMAIN rows |-> c.values[rows[n]]])

\* The type cuDF gives a group's aggregate.
GroupType(mode, type) ==
    CASE mode \in {"COUNT", "COUNT_STAR", "COUNT_DISTINCT"} -> "INT64"
      [] mode = "SUM" /\ type \in {"INT16", "INT32"} -> "INT64"
      [] mode = "avg" -> "FLOAT64"
      [] OTHER -> type

\* cudf_groupby: NULL is a key where a key column has a mask; the order of the
\* keys is cuDF's.
Groupby(keys) ==
    [g \in DOMAIN input.groups |->
        Column(GroupColumns[g].type, [n \in DOMAIN keys |-> keys[n][g]], keys # <<>>)]
    \o [i \in Aggs |->
        LET c == GroupedInput(i)
        IN  Column(GroupType(Mode(input.aggs[i], c), c.type),
                   [n \in DOMAIN keys |-> GroupValue(i, keys[n])], TRUE)]

\* cudf_duplicate_elimination: the keys of get_groups, where rows with a NULL are
\* left out; cuDF returns the keys row by row or once per group.
GetGroups ==
    LET whole == SelectSeq([r \in 1 .. NumRows |-> KeyOf(r)], LAMBDA key : Null \notin Range(key))
    IN  {whole, SetToSeq(ToSet(whole))}

\* Over no rows, the arguments themselves.
GroupedResults ==
    CASE NumRows = 0 -> {GroupColumns \o [i \in Aggs |-> GroupedInput(i)]}
      [] NumRows > 0 /\ input.aggs = <<>> -> {Groupby(keys) : keys \in GetGroups}
      [] OTHER -> {Groupby(SetToSeq(Keys))}

-------------------------------------------------------------------------------
(* A later batch: its columns join those of the result that have data.           *)

Meet(new, c) == sinks > 0 /\ result[c].data /\ new[c].data

\* CombineColumns; without its mask a NULL shows the bytes below it.
CombineTypes == {"INT32", "INT64", "FLOAT64", "VARCHAR"}
CombineColumns(old, new) ==
    Column(old.type, [r \in 1 .. Len(old.values) + Len(new.values) |->
        LET v == (old.values \o new.values)[r] IN IF v = Null THEN Unspecified ELSE v], TRUE)

\* A faulty variant, for mutation: a later batch replaces the result.
AbsorbNew(new, c) == IF sinks = 0 \/ new[c].data THEN new[c] ELSE result[c]

\* The column the result has after Sink.
Absorb(new, c) ==
    CASE sinks = 0 \/ (new[c].data /\ ~result[c].data) -> new[c]
      [] Meet(new, c) -> CombineColumns(result[c], new[c])
      [] OTHER -> result[c]

\* The ungrouped operator combines nothing.
CannotCombine(new) ==
    \E c \in DOMAIN new : Meet(new, c) /\ (IsGrouped => result[c].type \notin CombineTypes)

-------------------------------------------------------------------------------
(* The operator's calls.                                                         *)

Init ==
    /\ \E F \in Families : input \in F
    /\ phase = "logical"
    /\ sinks = 0
    /\ projection = <<>>
    /\ result = <<>>
    /\ answer = <<>>

Sink ==
    /\ phase = "planned" /\ sinks < Len(input.batches)
    /\ IF IF IsGrouped THEN GroupedThrows ELSE UngroupedThrows
       THEN phase' = "thrown" /\ UNCHANGED <<sinks, result>>
       ELSE \E new \in IF IsGrouped THEN GroupedResults ELSE {UngroupedResult} :
            IF CannotCombine(new)
            THEN phase' = "thrown" /\ UNCHANGED <<sinks, result>>
            ELSE /\ sinks' = sinks + 1
                 /\ result' = [c \in DOMAIN new |-> Absorb(new, c)]
                 /\ UNCHANGED phase
    /\ UNCHANGED <<input, projection, answer>>

GetData ==
    /\ phase = "planned" /\ sinks = Len(input.batches)
    /\ phase' = "answered"
    /\ answer' = IF IsGrouped THEN result ELSE UngroupedAnswer
    /\ UNCHANGED <<input, sinks, projection, result>>

Next == CreatePlan \/ Sink \/ GetData
Spec == Init /\ [][Next]_vars

-------------------------------------------------------------------------------
(* What SQL says of the same input.                                              *)

\* The rows of all batches; the filter column p is never a left one.
Rows(b) == Len(input.batches[b].p.values)
Lost(b, col) == Rows(b) > 0 /\ input.batches[b][col].values = <<>>
All(col) == FlattenSeq([b \in DOMAIN input.batches |->
    IF Lost(b, col) THEN [r \in 1 .. Rows(b) |-> Null] ELSE input.batches[b][col].values])
AllRows == [r \in DOMAIN All("p") |-> r]

\* The rows an aggregate sees among some, and its argument in them.
Seen(a, rows) == SelectSeq(rows, LAMBDA r : a.filter = None \/ All(a.filter)[r] = 1)
Given(a, rows) == [n \in DOMAIN rows |-> All(a.arg)[rows[n]]]

SqlValue(a, rows) ==
    LET given == Given(a, Seen(a, rows))
        valid == Valid(given)
        once == IF a.distinct THEN SetToSeq(ToSet(valid)) ELSE valid
    IN  CASE a.fn = "count_star" -> Len(Seen(a, rows))
          [] a.fn = "count" -> Len(once)
          [] a.fn = "first" -> IF given = <<>> THEN Null ELSE given[1]
          [] OTHER -> IF once = <<>> THEN Null
                      ELSE Combine(IF a.fn \in {"sum", "sum_no_overflow"} THEN "SUM" ELSE a.fn, once)

SqlKey(r) == [g \in DOMAIN input.groups |-> All(input.groups[g])[r]]
SqlGroups ==
    {SqlKey(s) \o [i \in Aggs |-> SqlValue(input.aggs[i], SelectSeq(AllRows, LAMBDA r : SqlKey(r) = SqlKey(s)))] :
        s \in DOMAIN AllRows}

-------------------------------------------------------------------------------
(* Where the answer may differ from SQL's, each for a reason in the code.        *)

HasFilter(i) == input.aggs[i].filter # None
Values(i) == Given(input.aggs[i], AllRows)
Sums == {"sum", "sum_no_overflow"}
Twice == Len(input.batches) = 2 /\ Rows(1) > 0 /\ Rows(2) > 0

\* The filter of an ungrouped aggregate is only logged, and a filter shifts the
\* arguments of the aggregates after it.
Filtered(i) == \E j \in 1 .. i : HasFilter(j)

\* COUNT of a column is the number of its rows.
CountsNulls(i) ==
    LET a == input.aggs[i]
    IN  a.fn = "count" /\ ~a.distinct /\ Null \in Range(Values(i))

\* Nothing but NULLs to reduce: the scalar's mask is set all the same.
NothingValid(i) ==
    input.aggs[i].fn # "count_star" /\ (input.aggs[i].fn = "count" => input.aggs[i].distinct)
    /\ AllRows # <<>> /\ Valid(Values(i)) = <<>>

\* SUM and FIRST of no rows have no row themselves; SQL has one NULL.
NoRow(i) == AllRows = <<>> /\ input.aggs[i].fn \notin Counts

\* FIRST loses a NULL, the offsets of a string and the types it has no branch for.
FirstLost(i) ==
    /\ input.aggs[i].fn = "first"
    /\ \/ input.batches[1][input.aggs[i].arg].type \notin FirstTypes \ {"VARCHAR"}
       \/ AllRows # <<>> /\ Head(Values(i)) = Null

\* The bound on the rows of an INT16 sum allows for its largest value, and the
\* smallest is one further from zero.
SumTooLow(i) ==
    /\ input.aggs[i].fn \in Sums
    /\ input.batches[1][input.aggs[i].arg].type = "INT16"
    /\ SumType("INT16", Len(AllRows)) = "INT32"
    /\ Total(Valid(Values(i))) < -Max32 - 1

\* The first argument is a left column: the rows are not seen to be there.
RowsUnseen(i) == i > 1 /\ input.aggs[1].arg # None /\
                 \E b \in DOMAIN input.batches : Lost(b, input.aggs[1].arg)

Excused(i) ==
    \/ Filtered(i) \/ RowsUnseen(i)
    \/ input.aggs[i].arg # None /\
       (CountsNulls(i) \/ NothingValid(i) \/ NoRow(i) \/ FirstLost(i) \/ SumTooLow(i))

\* The first key is a left column: the unmatched rows are not seen to be there.
KeyLost == \E b \in DOMAIN input.batches : input.groups # <<>> /\ Lost(b, input.groups[1])

\* The groups of two batches are put one after the other.
KeyRepeats ==
    /\ Twice /\ input.aggs # <<>>
    /\ \E r \in 1 .. Rows(1), s \in Rows(1) + 1 .. Len(AllRows) : SqlKey(r) = SqlKey(s)

\* They also lose their masks.
MaskLost == Twice /\ \E row \in SqlGroups : Null \in Range(row)

\* The sum of a left column over unmatched rows is zero and no NULL.
SumLost == \E i \in Aggs, b \in DOMAIN input.batches :
               input.aggs[i].fn \in Sums /\ Lost(b, input.aggs[i].arg)

GroupsExcused == KeyLost \/ KeyRepeats \/ MaskLost \/ SumLost

-------------------------------------------------------------------------------
\* A GROUP BY that is answered has one row per distinct key, NULL included, with
\* SQL's aggregates of the key's rows, the unmatched rows of a RIGHT join below it
\* included, but for what GroupsExcused names; without aggregates it has every key
\* that holds no NULL, and no other (GPUPhysicalGroupedAggregate).
GroupsAreSql ==
    phase = "answered" /\ IsGrouped /\ ~GroupsExcused =>
        LET Row(n) == [c \in DOMAIN answer |-> answer[c].values[n]]
            rows == {Row(n) : n \in DOMAIN answer[1].values}
        IN  IF input.aggs = <<>> THEN rows = {key \in SqlGroups : Null \notin Range(key)}
            ELSE rows = SqlGroups /\ Len(answer[1].values) = Cardinality(SqlGroups)

\* Every aggregate of an ungrouped query that is answered has SQL's value, through
\* the projection, the distinct inputs, the types and a second batch, but for the
\* cases Excused names (GPUPhysicalUngroupedAggregate).
AggregatesAreSql ==
    phase = "answered" /\ ~IsGrouped =>
        \A i \in Aggs : ~Excused(i) => answer[i].values = <<SqlValue(input.aggs[i], AllRows)>>
===============================================================================
