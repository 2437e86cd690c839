--------------------------------- MODULE TopN ---------------------------------
(* ORDER BY and top-N, from the relation sunk into the operator to the columns   *)
(* its GetData hands out: cuDF's sort of the keys and gather of the projections, *)
(* and CustomStringTopN, which sorts one string column by the first bytes of its *)
(* strings and then sorts whole only as many of the leading groups as the limit  *)
(* needs.                                                                        *)
(* A key is [col, desc]: the code has no NULLS FIRST.  A column is [type, values] *)
(* with Null for a cleared mask bit; a string is the sequence of its bytes.  An   *)
(* ORDER BY has a list of projections; a top-N hands on every column.  The child  *)
(* delivers one batch, or two below a RIGHT join, which adds its unmatched rows:  *)
(* they have no left columns.                                                     *)
EXTENDS Integers, Sequences, FiniteSets, FiniteSetsExt, SequencesExt

CONSTANTS
    Families,      \* sets of inputs [topn, keys, projections, limit, offset, batches]
    PrefixBytes,   \* the bytes of a string in its record's key_prefix: 4
    MaxRows,       \* INT32_MAX
    Null,          \* SQL's NULL
    Unspecified    \* a value nothing in the code determines

VARIABLES
    input,    \* the operator and the batches its child delivers
    phase,    \* "planned", "answered" or "thrown"
    sinks,    \* the batches taken in
    result,   \* sort_result, no columns before the first Sink
    answer    \* the columns GetData hands to the next operator
vars == <<input, phase, sinks, result, answer>>

Batch == input.batches[sinks + 1]
Keys == DOMAIN input.keys
Projections == DOMAIN input.projections
Projection(p) == Batch[input.projections[p]]
Column(type, values) == [type |-> type, values |-> values]

\* The orders of n rows in which no later one must come before an earlier.
OrdersOf(n, Before(_, _)) ==
    {order \in SetToAllKPermutations(1 .. n) :
        Len(order) = n /\ \A i \in 1 .. n, j \in 1 .. n : i < j => ~Before(order[j], order[i])}

-------------------------------------------------------------------------------
(* CustomStringTopN.                                                             *)

\* The first bytes as one number: a shorter string is filled up with zeros.
Prefix(s) == [i \in 1 .. PrefixBytes |-> IF i <= Len(s) THEN s[i] ELSE 0]

\* Bytes, then lengths.
LexLess(s, t) ==
    \/ \E i \in DOMAIN s \cap DOMAIN t : s[i] < t[i] /\ \A j \in 1 .. i - 1 : s[j] = t[j]
    \/ Len(s) < Len(t) /\ \A i \in DOMAIN s : s[i] = t[i]

PrefixLessThan(s, t) == LexLess(Prefix(s), Prefix(t))
StringLessThan(s, t) == IF Prefix(s) # Prefix(t) THEN PrefixLessThan(s, t) ELSE LexLess(s, t)

\* A NULL is compared by the bytes below it, which are a string's that has none.
Chars(values) == [r \in DOMAIN values |-> IF values[r] = Null THEN <<>> ELSE values[r]]

\* The records in prefix order, ascending whatever the query says.
PrefixOrders(chars) ==
    OrdersOf(Len(chars), LAMBDA r, s : PrefixLessThan(chars[r], chars[s]))

\* Runs of equal prefixes, by the place of their first record, counted from 0.  Their
\* places are reduced with CustomTopNMin, which returns a < b instead of the smaller of
\* the two: for two records 1, and for more what the order of the reduction makes of it.
GroupBoundaries(chars, order) ==
    LET Run(i) == {j \in DOMAIN order : Prefix(chars[order[j]]) = Prefix(chars[order[i]])}
        starts == {Min(Run(i)) - 1 : i \in DOMAIN order}
        Reduced(s) == CASE Cardinality(Run(s + 1)) = 1 -> {s}
                        [] Cardinality(Run(s + 1)) = 2 -> {1}
                        [] OTHER -> {0, 1}
    IN  {b \in [starts -> 0 .. Len(order)] : \A s \in starts : b[s] \in Reduced(s)}

\* A faulty variant, for mutation: one boundary early.
TopGroupsEarly(b, n) ==
    LET enough == {s \in DOMAIN b : b[s] >= n}
    IN  IF enough # {} THEN {Max({0} \cup {b[s] : s \in DOMAIN b \ enough})} ELSE n .. Max({n, MaxRows + 1})

\* top_groups_calculator: the first boundary that the limit does not exceed.  Where
\* there is none the loop reads on behind the groups, until it meets such a number.
TopGroups(b, n) ==
    LET enough == {s \in DOMAIN b : b[s] >= n}
    IN  IF enough # {} THEN {b[Min(enough)]} ELSE n .. Max({n, MaxRows + 1})

\* The first `count` of the records are sorted by their whole strings.
CompleteOrders(chars, order, count, desc) ==
    {[i \in DOMAIN order |-> IF i <= count THEN order[top[i]] ELSE order[i]] :
        top \in OrdersOf(count, LAMBDA i, j :
                    IF desc THEN StringLessThan(chars[order[j]], chars[order[i]])
                    ELSE StringLessThan(chars[order[i]], chars[order[j]]))}

\* As many rows as the limit says; with records that do not exist, anything.
CustomStringTopN(column) ==
    LET chars == Chars(column.values)
        n == input.limit
        Materialize(order) == Column("VARCHAR", [i \in 1 .. n |-> chars[order[i]]])
        Answers(order, count) ==
            IF count > Len(chars) THEN {Column("VARCHAR", [i \in 1 .. n |-> Unspecified])}
            ELSE {Materialize(whole) : whole \in CompleteOrders(chars, order, count, input.keys[1].desc)}
    IN  UNION {UNION {Answers(order, count) :
                          count \in UNION {TopGroups(b, n) : b \in GroupBoundaries(chars, order)}} :
                  order \in PrefixOrders(chars)}

\* With a limit, and one string column that is the key and all there is.
IsCustom == input.topn /\ input.limit > 0 /\ Len(input.keys) = 1 /\ Len(input.projections) = 1
            /\ input.batches[1][1].type = "VARCHAR"

-------------------------------------------------------------------------------
(* cuDF.                                                                         *)

Less(type, a, b) == IF type = "VARCHAR" THEN LexLess(a, b) ELSE a < b

\* NULL is above every value for an ascending key and below it for a descending one,
\* and the direction turns both around.
RowBefore(k, r, s) ==
    LET c == Batch[input.keys[k].col]
        a == c.values[r]
        b == c.values[s]
    IN  IF Null \in {a, b} THEN a # Null /\ b = Null
        ELSE IF input.keys[k].desc THEN Less(c.type, b, a) ELSE Less(c.type, a, b)

\* cudf::sorted_order, which is not stable.
SortedOrder ==
    OrdersOf(Len(Batch[input.keys[1].col].values), LAMBDA r, s :
        \E k \in Keys : RowBefore(k, r, s) /\ \A j \in 1 .. k - 1 : ~RowBefore(j, r, s) /\ ~RowBefore(j, s, r))

\* cudf::gather; a column without rows beside keys that have some is read past its end.
Gather(column, order) ==
    Column(column.type, [i \in DOMAIN order |->
        IF column.values = <<>> THEN Unspecified ELSE column.values[order[i]]])

\* Keys without rows leave no rows in any column.
CudfOrderby ==
    IF Batch[input.keys[1].col].values = <<>>
    THEN {[p \in Projections |-> Column(Projection(p).type, <<>>)]}
    ELSE {[p \in Projections |-> Gather(Projection(p), order)] : order \in SortedOrder}

-------------------------------------------------------------------------------
(* The operator's calls.                                                         *)

Init ==
    /\ \E F \in Families : input \in F
    /\ phase = "planned"
    /\ sinks = 0
    /\ result = <<>>
    /\ answer = <<>>

\* Keys are columns of the child, of no more rows than cuDF can count.
SinkThrows ==
    \/ \E k \in Keys : input.keys[k].col \notin DOMAIN Batch
    \/ Len(Batch[input.keys[1].col].values) > MaxRows

\* A batch is taken where there is none yet with rows.
Keep(new, c) == IF result = <<>> \/ result[c].values = <<>> THEN new[c] ELSE result[c]

Sink ==
    /\ phase = "planned" /\ sinks < Len(input.batches)
    /\ IF SinkThrows THEN phase' = "thrown" /\ UNCHANGED <<sinks, result>>
       ELSE \E new \in IF IsCustom THEN {<<c>> : c \in CustomStringTopN(Batch[1])} ELSE CudfOrderby :
            IF result # <<>> /\ \E c \in DOMAIN new : result[c].values # <<>> /\ new[c].values # <<>>
            THEN phase' = "thrown" /\ UNCHANGED <<sinks, result>>
            ELSE /\ result' = [c \in DOMAIN new |-> Keep(new, c)]
                 /\ sinks' = sinks + 1
                 /\ UNCHANGED phase
    /\ UNCHANGED <<input, answer>>

\* The rows after the offset, as many as the limit.
Slice(column) ==
    Column(column.type, SubSeq(column.values, input.offset + 1,
                               Min({input.offset + input.limit, Len(column.values)})))

\* A top-N with LIMIT 0 sets no columns.
GetData ==
    /\ phase = "planned" /\ sinks = Len(input.batches)
    /\ phase' = "answered"
    /\ answer' = CASE ~input.topn -> result
                   [] input.topn /\ input.limit = 0 -> <<>>
                   [] OTHER -> [c \in DOMAIN result |-> Slice(result[c])]
    /\ UNCHANGED <<input, sinks, result>>

Next == Sink \/ GetData
Spec == Init /\ [][Next]_vars

-------------------------------------------------------------------------------
(* What SQL says of the same input.                                              *)

NumRows(batch) == Max({Len(batch[c].values) : c \in DOMAIN batch})
Lost(b, c) == NumRows(input.batches[b]) > 0 /\ input.batches[b][c].values = <<>>
RowsOf(b) == [r \in 1 .. NumRows(input.batches[b]) |->
    [c \in DOMAIN input.batches[b] |-> IF Lost(b, c) THEN Null ELSE input.batches[b][c].values[r]]]
AllRows == FlattenSeq([b \in DOMAIN input.batches |-> RowsOf(b)])

SqlKeyBefore(key, a, b) ==
    IF Null \in {a, b} THEN a # Null /\ b = Null
    ELSE LET type == input.batches[1][key.col].type
         IN  IF key.desc THEN Less(type, b, a) ELSE Less(type, a, b)
SqlBefore(r, s) ==
    \E k \in Keys :
        LET Value(j, t) == AllRows[t][input.keys[j].col]
        IN  /\ SqlKeyBefore(input.keys[k], Value(k, r), Value(k, s))
            /\ \A j \in 1 .. k - 1 : Value(j, r) = Value(j, s)

\* The rows of the query, as sequences.  NULLs are last, as they are by default.
SqlAnswers ==
    {LET rows == [i \in DOMAIN order |-> [p \in Projections |-> AllRows[order[i]][input.projections[p]]]]
     IN  IF input.topn THEN SubSeq(rows, input.offset + 1, Min({input.offset + input.limit, Len(rows)})) ELSE rows :
        order \in OrdersOf(Len(AllRows), SqlBefore)}

AnswerRows ==
    IF answer = <<>> THEN <<>>
    ELSE [i \in DOMAIN answer[1].values |-> [c \in DOMAIN answer |-> answer[c].values[i]]]

-------------------------------------------------------------------------------
(* Where the answer may differ from SQL's, each for a reason in the code.        *)

KeyHasNull(k) == \E r \in DOMAIN AllRows : AllRows[r][input.keys[k].col] = Null

\* A left column among unmatched rows: as a key it makes them vanish, otherwise it is
\* read past its end.
LeftColumns == \E b \in DOMAIN input.batches, c \in DOMAIN input.batches[1] : Lost(b, c)

\* The string top-N: descending, the leading groups are those of the smallest prefixes;
\* the offset is not among the rows asked for; NULLs are strings without bytes.  The
\* groups end where a record with a prefix of its own follows, of which there may be
\* none behind the limit, or, at a limit of 1, anywhere in the first group.
PrefixPlace(r) == Cardinality({s \in DOMAIN AllRows : PrefixLessThan(AllRows[s][1], AllRows[r][1])})
PrefixSize(r) == Cardinality({s \in DOMAIN AllRows : Prefix(AllRows[s][1]) = Prefix(AllRows[r][1])})
CustomMistakes ==
    /\ IsCustom
    /\ \/ input.keys[1].desc
       \/ input.offset > 0
       \/ KeyHasNull(1)
       \/ input.limit = 1 /\ \E r \in DOMAIN AllRows : PrefixPlace(r) = 0 /\ PrefixSize(r) > 1
       \/ \A r \in DOMAIN AllRows :
              PrefixPlace(r) < input.limit \/ PrefixSize(r) > (IF input.limit = 1 THEN 2 ELSE 1)

Excused == LeftColumns \/ CustomMistakes

-------------------------------------------------------------------------------
\* An ORDER BY or a top-N that is answered has SQL's rows in SQL's order, cut at the
\* offset and the limit, NULLs last and through every order a sort may give
\* equal keys, but for the cases Excused names (GPUPhysicalOrder, GPUPhysicalTopN, cudf_orderby).
SortedIsSql == phase = "answered" /\ ~Excused => AnswerRows \in SqlAnswers
===============================================================================
