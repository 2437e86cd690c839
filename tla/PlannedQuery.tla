----------------------------- MODULE PlannedQuery -----------------------------
(* A logical plan, the physical plan that PlanGenerator makes of it, node after  *)
(* node, and the rows which that plan's operators yield, against the rows the    *)
(* logical plan means.  A row is a sequence of cells; operators hand on columns   *)
(* with row ids, and not all of them hand on both.                               *)
EXTENDS PlanGenerator

CONSTANTS
    Families,      \* sets of inputs
    Texts,         \* cells that are strings
    Unspecified    \* a cell nothing in the code determines

VARIABLES
    input,    \* [logical |-> the plan]
    phase,    \* "planned", "answered" or "thrown"
    result,   \* what the generator has made
    answer    \* the rows
vars == <<input, phase, result, answer>>

-------------------------------------------------------------------------------
(* What operators do with rows.                                                  *)

Cell(row, c) == IF c \in DOMAIN row THEN row[c] ELSE Unspecified
Pick(row, columns) == [i \in DOMAIN columns |-> Cell(row, columns[i])]
PickAll(rows, columns) == [r \in DOMAIN rows |-> Pick(rows[r], columns)]
DistinctRows(rows) ==
    FoldLeft(LAMBDA some, row : IF Contains(some, row) THEN some ELSE Append(some, row), <<>>, rows)
Sorted(rows, orders) == SortSeq(rows, LAMBDA r, s : Cell(r, orders[1]) < Cell(s, orders[1]))
Cut(rows, limit, offset) == SubSeq(rows, offset + 1, Min({offset + limit, Len(rows)}))

-------------------------------------------------------------------------------
(* Relations.  A column is [data, row_ids]: row_ids are the rows of data that it  *)
(* stands for, of a column without row ids all of them.                          *)

All(data) == [r \in DOMAIN data |-> r]
Made(rows, width) ==
    [c \in 1 .. width |->
        LET data == [r \in DOMAIN rows |-> Cell(rows[r], c)] IN [data |-> data, row_ids |-> All(data)]]

\* The first column says how many rows there are; a cell past the end of another is anything.
ValueAt(column, r) ==
    IF r \in DOMAIN column.row_ids /\ column.row_ids[r] \in DOMAIN column.data
    THEN column.data[column.row_ids[r]] ELSE Unspecified
RowsOf(relation) ==
    [r \in DOMAIN relation[1].row_ids |-> [c \in DOMAIN relation |-> ValueAt(relation[c], r)]]

NoColumn == [data |-> <<>>, row_ids |-> <<>>]
ColumnsOf(relation, places) ==
    [i \in DOMAIN places |-> IF places[i] \in DOMAIN relation THEN relation[places[i]] ELSE NoColumn]

\* The rows of a relation that a scan's filter leaves.
Narrowed(relation, rows) ==
    [c \in DOMAIN relation |->
        [relation[c] EXCEPT !.row_ids = [i \in DOMAIN rows |-> IF rows[i] \in DOMAIN @ THEN @[rows[i]] ELSE 0]]]

\* The rows that an operator finds; if there are none, the columns have no data either.
HandleMaterializeRowIDs(relation, rows) ==
    IF rows = <<>> THEN [c \in DOMAIN relation |-> NoColumn] ELSE Narrowed(relation, rows)

\* A column of length, type and data only: its row ids stay behind, and so do the mask and
\* the offsets of its strings.
Bare(relation) ==
    [c \in DOMAIN relation |->
        [data |-> [r \in DOMAIN relation[c].data |->
                      LET v == relation[c].data[r] IN IF v \in Texts \cup {Null} THEN Unspecified ELSE v],
         row_ids |-> All(relation[c].data)]]

-------------------------------------------------------------------------------
(* The relations of a physical plan.                                             *)

Meeting(rows, conds) ==
    SelectSeq(All(rows), LAMBDA r : \A c \in DOMAIN conds : Cell(rows[r], c) = conds[c])

\* Columns that filters do not ask for are narrowed with the rest.
TableScanOf(op) ==
    LET columns == Made(PickAll(op.rows, op.columns), Len(op.columns))
    IN  IF DOMAIN op.filters = {} THEN columns ELSE Narrowed(columns, Meeting(op.rows, op.filters))

\* A reference is handed on as it came; a constant is as long as the input.
ProjectionOf(relation, exprs) ==
    [i \in DOMAIN exprs |->
        IF exprs[i].ref # 0 THEN ColumnsOf(relation, <<exprs[i].ref>>)[1]
        ELSE Made([r \in DOMAIN RowsOf(relation) |-> <<exprs[i].value>>], 1)[1]]

\* Row ids for the columns of both sides.
HashJoinOf(op, left, right) ==
    LET l == RowsOf(left)
        r == RowsOf(right)
        pairs == SelectSeq(FlattenSeq([i \in DOMAIN l |-> [j \in DOMAIN r |-> <<i, j>>]]),
                           LAMBDA p : Cell(l[p[1]], op.cond[1]) = Cell(r[p[2]], op.cond[2]))
        SideAt(n, relation, rows) ==
            HandleMaterializeRowIDs(IF op.maps[n] = <<>> THEN relation ELSE ColumnsOf(relation, op.maps[n]), rows)
        Partnered(n, rows) == SelectSeq(All(rows), LAMBDA i : \E p \in ToSet(pairs) : p[n] = i)
    IN  CASE op.join = "INNER" -> SideAt(1, left, [p \in DOMAIN pairs |-> pairs[p][1]])
                                    \o SideAt(2, right, [p \in DOMAIN pairs |-> pairs[p][2]])
          [] op.join = "SEMI" -> SideAt(1, left, Partnered(1, l))
          [] op.join = "RIGHT_SEMI" -> SideAt(2, right, Partnered(2, r))

\* A dummy scan sets no column: the operators above it find no rows.
DummyScan == <<NoColumn>>

\* An empty result has columns of length 0.
EmptyResult(op) == Made(<<>>, op.width)

\* The scan of a collection, a CTE or a delim join's input, and the sink of a CTE, make
\* bare columns of what they are given.
ColumnDataScan(relation) == Bare(relation)
CteSink(relation) == Bare(relation)

\* The relation of VALUES, or none: that of one of DuckDB's collections.
Collected(op) == Made(IF "rows" \in DOMAIN op THEN op.rows ELSE <<<<Unspecified>>>>, op.width)

\* The limit's offset is not looked at; a limit that is not a constant throws.
StreamingLimit(op, rows) == Cut(rows, op.limit, 0)
LimitThrows(op) == op.type = "STREAMING_LIMIT" /\ op.kind # "constant"

\* What one of these operators sinks.
Fill(ops, producers) == ops[CHOOSE d \in producers : TRUE].kids[1]

\* The relation of each operator.  The scan of a delim join's result reads its distinct
\* aggregate, its placeholders what was sunk into it; a scan nothing serves has no rows.
\* Aggregates, sorts and limits materialise what they hand on.
Relations(ops) ==
    LET relation[o \in DOMAIN ops] ==
          LET op == ops[o]
              Given == relation[op.kids[1]]
              SunkInto(producers) == relation[Fill(ops, producers)]
              Groups == ops[ops[CHOOSE d \in ProducersOf(ops, o) : TRUE].distinct].groups
              Distinct(rows, groups) == Made(DistinctRows(PickAll(rows, groups)), Len(groups))
          IN  CASE op.type = "TABLE_SCAN" -> TableScanOf(op)
                [] op.type = "COLUMN_DATA_SCAN" /\ CachedBy(ops, o) = {} -> ColumnDataScan(Collected(op))
                [] op.type = "COLUMN_DATA_SCAN" /\ CachedBy(ops, o) # {} -> ColumnDataScan(SunkInto(CachedBy(ops, o)))
                [] op.type = "DUMMY_SCAN" -> DummyScan
                [] op.type = "EMPTY_RESULT" -> EmptyResult(op)
                [] op.type \in Scans /\ ProducersOf(ops, o) = {} -> EmptyResult(op)
                [] op.type = "CTE_SCAN" /\ ProducersOf(ops, o) # {} ->
                     ColumnDataScan(CteSink(SunkInto(ProducersOf(ops, o))))
                [] op.type = "DELIM_SCAN" /\ ProducersOf(ops, o) # {} ->
                     Distinct(RowsOf(SunkInto(ProducersOf(ops, o))), Groups)
                [] op.type = "FILTER" -> HandleMaterializeRowIDs(Given, Meeting(RowsOf(Given), op.conds))
                [] op.type = "PROJECTION" -> ProjectionOf(Given, op.exprs)
                [] op.type = "GROUP_BY" -> Distinct(RowsOf(Given), op.groups)
                [] op.type = "STREAMING_LIMIT" -> Made(StreamingLimit(op, RowsOf(Given)), Len(Given))
                [] op.type = "ORDER_BY" ->
                     Made(PickAll(Sorted(RowsOf(Given), op.orders), op.projections), Len(op.projections))
                [] op.type = "TOP_N" ->
                     Made(Cut(Sorted(RowsOf(Given), op.orders), op.limit, op.offset), Len(Given))
                [] op.type = "HASH_JOIN" ->
                     HashJoinOf(op, Given, IF FilledByDelim(ops, o) = {} THEN relation[op.kids[2]]
                                           ELSE SunkInto(FilledByDelim(ops, o)))
                [] op.type \in DelimJoins -> relation[op.inner]
                [] op.type = "CTE" -> relation[op.kids[2]]
    IN  relation

\* The operators that o's rows come through, those in a delim join's members included.
Under(ops, o) ==
    LET reach[x \in DOMAIN ops] ==
          {x} \cup UNION {reach[ops[x].kids[i]] : i \in DOMAIN ops[x].kids}
              \cup (IF ops[x].inner = 0 THEN {} ELSE {ops[x].distinct} \cup reach[ops[x].inner])
    IN  reach[o]
PlanOf(s) == Under(s.ops, Root(s))

-------------------------------------------------------------------------------
Init ==
    /\ \E F \in Families : input \in F
    /\ phase = "planned"
    /\ result = Nothing
    /\ answer = <<>>

\* The CreatePlan of the next node.
PlanNode ==
    /\ phase = "planned" /\ Len(result.made) < Len(input.logical)
    /\ result' = Dispatch(result, input.logical, Len(result.made) + 1)
    /\ phase' = IF result'.thrown THEN "thrown" ELSE phase
    /\ UNCHANGED <<input, answer>>

\* The plan is executed.
Execute ==
    /\ phase = "planned" /\ Len(result.made) = Len(input.logical)
    /\ IF \E o \in PlanOf(result) : LimitThrows(result.ops[o])
       THEN phase' = "thrown" /\ UNCHANGED answer
       ELSE phase' = "answered" /\ answer' = RowsOf(Relations(result.ops)[Root(result)])
    /\ UNCHANGED <<input, result>>

Next == PlanNode \/ Execute
Spec == Init /\ [][Next]_vars

-------------------------------------------------------------------------------
(* What the logical plan means.                                                  *)

Keep(rows, conds) == SelectSeq(rows, LAMBDA row : \A c \in DOMAIN conds : Cell(row, c) = conds[c])
Evaluate(rows, exprs) ==
    [r \in DOMAIN rows |-> [i \in DOMAIN exprs |->
        IF exprs[i].ref = 0 THEN exprs[i].value ELSE Cell(rows[r], exprs[i].ref)]]

\* All columns of a side, or those that its projection map names.
Side(row, map) == IF map = <<>> THEN row ELSE Pick(row, map)
SideOf(rows, map) == [r \in DOMAIN rows |-> Side(rows[r], map)]
Joined(join, cond, maps, left, right) ==
    LET Meet(r, s) == Cell(r, cond[1]) = Cell(s, cond[2])
        Pairs(r) == SelectSeq(right, LAMBDA s : Meet(r, s))
    IN  CASE join = "INNER" ->
               FlattenSeq([r \in DOMAIN left |-> [p \in DOMAIN Pairs(left[r]) |->
                   Side(left[r], maps[1]) \o Side(Pairs(left[r])[p], maps[2])]])
          [] join = "SEMI" -> SideOf(SelectSeq(left, LAMBDA r : Pairs(r) # <<>>), maps[1])
          [] join = "RIGHT_SEMI" ->
               SideOf(SelectSeq(right, LAMBDA s : \E r \in DOMAIN left : Meet(left[r], s)), maps[2])

\* The delim join, or the CTE, whose rows a node scans: of the delim joins with the node
\* on their subquery's side the nearest.
Subquery(join) == join.kids[IF join.flipped THEN 1 ELSE 2]
Outer(join) == join.kids[IF join.flipped THEN 2 ELSE 1]
ScannedBy(logical, n) ==
    IF logical[n].op = "DELIM_GET"
    THEN Min({a \in DOMAIN logical : logical[a].op = "DELIM_JOIN" /\ n \in Nodes(logical, Subquery(logical[a]))})
    ELSE CHOOSE c \in DOMAIN logical : logical[c].op = "MATERIALIZED_CTE" /\ logical[c].index = logical[n].index

TableRows(node) ==
    LET columns == IF node.projection_ids = <<>> THEN node.column_ids
                   ELSE [i \in DOMAIN node.projection_ids |-> node.column_ids[node.projection_ids[i]]]
        kept == Keep(node.rows, node.table_filters)
    IN  [r \in DOMAIN kept |-> [i \in DOMAIN columns |-> IF columns[i] = RowId THEN Null ELSE kept[r][columns[i]]]]

Meaning(logical) ==
    LET rows[n \in DOMAIN logical] ==
          LET node == logical[n]
              Given == rows[node.kids[1]]
              Scanned == logical[ScannedBy(logical, n)]
          IN  CASE node.op = "GET" -> TableRows(node)
                [] node.op \in {"EXPRESSION_GET", "CHUNK_GET"} -> node.rows
                [] node.op = "DUMMY_SCAN" -> <<<<Null>>>>
                [] node.op = "EMPTY_RESULT" -> <<>>
                [] node.op = "DELIM_GET" -> DistinctRows(PickAll(rows[Outer(Scanned)], Scanned.duplicates))
                [] node.op = "CTE_REF" -> rows[Scanned.kids[1]]
                [] node.op = "PROJECTION" -> Evaluate(Given, node.exprs)
                [] node.op = "FILTER" -> SideOf(Keep(Given, node.conds), node.map)
                [] node.op = "AGGREGATE_AND_GROUP_BY" -> DistinctRows(PickAll(Given, node.groups))
                [] node.op = "LIMIT" -> Cut(Given, node.limit, node.offset)
                [] node.op = "ORDER_BY" ->
                     SideOf(IF node.orders = <<>> THEN Given ELSE Sorted(Given, node.orders), node.map)
                [] node.op = "TOP_N" -> Cut(Sorted(Given, node.orders), node.limit, node.offset)
                [] node.op \in {"COMPARISON_JOIN", "DELIM_JOIN"} ->
                     Joined(node.join, node.cond, node.maps, Given, rows[node.kids[2]])
                [] node.op = "MATERIALIZED_CTE" -> rows[node.kids[2]]
    IN  Last(rows)

\* The plan as the code understands it: of VALUES the last row, of a limit no offset,
\* of a query without FROM no rows at all.
Understood(logical) ==
    [n \in DOMAIN logical |->
        LET node == logical[n]
        IN  CASE node.op = "EXPRESSION_GET" -> [node EXCEPT !.rows = <<Last(@)>>]
              [] node.op = "LIMIT" -> [node EXCEPT !.offset = 0]
              [] node.op = "DUMMY_SCAN" -> [node EXCEPT !.op = "EMPTY_RESULT"]
              [] OTHER -> node]

\* Where the rows may be others: a collection is never brought to the GPU; a scan with a
\* filter that its function cannot take may yield a column more than was asked for, which
\* only a projection or an aggregate above it does not see.
ReadsCollection == \E n \in DOMAIN input.logical : input.logical[n].op = "CHUNK_GET"
Widened ==
    \E n \in DOMAIN input.logical :
        /\ input.logical[n].op = "GET"
        /\ ProjectionIds(input.logical[n]) # input.logical[n].projection_ids
        /\ ~\E p \in DOMAIN input.logical :
              /\ n \in ToSet(input.logical[p].kids)
              /\ input.logical[p].op \in {"PROJECTION", "AGGREGATE_AND_GROUP_BY"}

\* A CTE or the input of a LEFT delim join whose scan forgets something: rows that a filter
\* or a join below has left out come back, and masks and offsets are gone.
ScansForget ==
    \E o \in PlanOf(result) :
        LET producers == IF result.ops[o].type = "CTE_SCAN" THEN ProducersOf(result.ops, o)
                         ELSE CachedBy(result.ops, o)
            sunk == Relations(result.ops)[Fill(result.ops, producers)]
        IN  /\ result.ops[o].type \in {"CTE_SCAN", "COLUMN_DATA_SCAN"} /\ producers # {}
            /\ Bare(sunk) # sunk

-------------------------------------------------------------------------------
\* The physical plan's rows are those of the logical plan as far as the generator
\* understands it: projections it leaves out or adds, filters it moves between the scan,
\* a filter and positions of a projection, maps, the sides of delim joins and what their
\* scans read change no cell, and row ids are lost only where ScansForget says so
\* (GPUPhysicalPlanGenerator::CreatePlan, GPUPhysicalColumnDataScan, GPUPhysicalCTE::Sink).
RowsAreThePlans ==
    phase = "answered" /\ ~ReadsCollection /\ ~Widened /\ ~ScansForget =>
        answer = Meaning(Understood(input.logical))

\* Every scan of a delim join's or a CTE's result is registered with exactly that one,
\* of however many are nested, has its index, and is not among what fills it: it is read
\* after it is filled, and filling it waits for nothing of it (GatherDelimScans, cte_scans).
ScansAreServed ==
    phase = "answered" =>
        \A n \in DOMAIN input.logical :
            input.logical[n].op \in {"DELIM_GET", "CTE_REF"} =>
                LET scan == result.made[n]
                    producer == result.made[ScannedBy(input.logical, n)]
                IN  scan \in PlanOf(result) =>
                        /\ ProducersOf(result.ops, scan) = {producer}
                        /\ producer \in PlanOf(result)
                        /\ result.ops[scan].delim_index = result.ops[producer].delim_index
                        /\ scan \notin Under(result.ops, result.ops[producer].kids[1])
===============================================================================
