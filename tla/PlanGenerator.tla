---------------------------- MODULE PlanGenerator ----------------------------
(* GPUPhysicalPlanGenerator: from DuckDB's logical plan to the tree of GPU       *)
(* operators that PhysicalPlan describes.                                        *)
(*                                                                               *)
(* A logical plan is a sequence of nodes in the order in which CreatePlan        *)
(* returns from them: children first, the root last.  Operators are numbered as  *)
(* they are made, so that the scans a delim join or a CTE refers to keep theirs. *)
(* Every node has [op, kids, width], width being op.types.size(), and the fields *)
(* of its handler; every operator has PhysicalPlan's fields, its width and what  *)
(* its constructor is given.  Filters map columns to the value they must have;   *)
(* joins have one equality: every other condition is in InnerJoin.               *)
EXTENDS PhysicalPlan, FiniteSets, SequencesExt, FiniteSetsExt, TLC

CONSTANT Null   \* SQL's NULL

RowId == 0   \* COLUMN_IDENTIFIER_ROW_ID

Ref(column) == [ref |-> column, value |-> 0]
Constant(value) == [ref |-> 0, value |-> value]

PhysicalOp(type, kids, width, fields) ==
    fields @@ [type |-> type, join |-> "", kids |-> kids, inner |-> 0, distinct |-> 0, scans |-> {},
               width |-> width, delim_index |-> 0]

\* What the generator has made: the operators, the one that each visited node's
\* CreatePlan returned, and delim_index.
Nothing == [ops |-> <<>>, made |-> <<>>, delim_index |-> 0, thrown |-> FALSE]

Throws(s) == [s EXCEPT !.thrown = TRUE]
Returns(s, o) == [s EXCEPT !.made = Append(@, o)]
Add(s, op) == [s EXCEPT !.ops = Append(@, op)]
Newest(s) == Len(s.ops)
AddAndReturn(s, op) == Returns(Add(s, op), Newest(s) + 1)
ChildPlan(s, node, i) == s.made[node.kids[i]]
WidthOf(s, o) == s.ops[o].width

Projection(child, exprs) == PhysicalOp("PROJECTION", <<child>>, Len(exprs), [exprs |-> exprs])
Filter(s, child, conds) == PhysicalOp("FILTER", <<child>>, WidthOf(s, child), [conds |-> conds])

-------------------------------------------------------------------------------
(* Scans of tables.                                                              *)

PlaceOf(column, columns) == Min({i \in DOMAIN columns : columns[i] = column})

\* Filters by the place of their column in column_ids.
GPUCreateTableFilterSet(node) ==
    [p \in {PlaceOf(c, node.column_ids) : c \in DOMAIN node.table_filters} |->
        node.table_filters[node.column_ids[p]]]

\* The filters the function cannot take.
Unsupported(node) ==
    {p \in DOMAIN GPUCreateTableFilterSet(node) : node.column_ids[p] \in node.unsupported}

\* Each of them needs its column in the projection; one that is missing is put last.
ProjectionIds(node) ==
    FoldLeft(LAMBDA ids, p : IF \E i \in DOMAIN ids : node.column_ids[ids[i]] = node.column_ids[p]
                             THEN ids ELSE Append(ids, p),
             node.projection_ids, SetToSortSeq(Unsupported(node), <))

\* A faulty variant, for mutation: conditions by the place in column_ids.
RemainingFilterByColumnId(node) ==
    [p \in Unsupported(node) |-> GPUCreateTableFilterSet(node)[p]]

\* They become conditions on the columns of the projection.
RemainingFilter(node) ==
    LET columns == [i \in DOMAIN ProjectionIds(node) |-> node.column_ids[ProjectionIds(node)[i]]]
    IN  [c \in {PlaceOf(node.column_ids[p], columns) : p \in Unsupported(node)} |->
            node.table_filters[columns[c]]]

\* A function with projection pushdown yields the projection, any other all its columns.
TableScan(node, ids) ==
    LET filters == GPUCreateTableFilterSet(node)
        columns == IF ~node.pushdown THEN [c \in 1 .. node.returned |-> c]
                   ELSE IF ids = <<>> THEN node.column_ids
                   ELSE [i \in DOMAIN ids |-> node.column_ids[ids[i]]]
        kept == DOMAIN filters \ Unsupported(node)
    IN  PhysicalOp("TABLE_SCAN", <<>>, Len(columns),
            [rows |-> node.rows, columns |-> columns,
             filters |-> [c \in {node.column_ids[p] : p \in kept} |-> filters[PlaceOf(c, node.column_ids)]]])

\* The projection above a function without pushdown: row ids are a NULL constant.
NeedsProjection(node) == ~node.pushdown /\ node.column_ids # [c \in 1 .. node.returned |-> c]
ColumnExpressions(node) ==
    [i \in DOMAIN node.column_ids |->
        IF node.column_ids[i] = RowId THEN Constant(Null) ELSE Ref(node.column_ids[i])]

PlanGet(s, node) ==
    IF \/ node.kids # <<>> \/ node.projected_input
       \/ ~DOMAIN node.table_filters \subseteq ToSet(node.column_ids)
    THEN Throws(s)
    ELSE LET scanned == Add(s, TableScan(node, ProjectionIds(node)))
             filtered == IF Unsupported(node) = {} THEN scanned
                         ELSE Add(scanned, Filter(scanned, Newest(scanned), RemainingFilter(node)))
         IN  IF NeedsProjection(node)
             THEN AddAndReturn(filtered, Projection(Newest(filtered), ColumnExpressions(node)))
             ELSE Returns(filtered, Newest(filtered))

-------------------------------------------------------------------------------
(* Scans of what is at hand.                                                     *)

\* VALUES: only single BIGINT constants, each row put where the one before it was.
PlanExpressionGet(s, node) ==
    IF \E i \in DOMAIN node.rows : Len(node.rows[i]) > 1 \/ ~node.bigint
    THEN Throws(s)
    ELSE AddAndReturn(s, PhysicalOp("COLUMN_DATA_SCAN", <<>>, node.width, [rows |-> <<Last(node.rows)>>]))

\* A collection of DuckDB's is kept for the scan, which reads a GPU relation: none.
PlanColumnDataGet(s, node) ==
    AddAndReturn(s, PhysicalOp("COLUMN_DATA_SCAN", <<>>, node.width, [collection |-> node.rows]))

PlanDummyScan(s, node) == AddAndReturn(s, PhysicalOp("DUMMY_SCAN", <<>>, node.width, <<>>))
PlanEmptyResult(s, node) == AddAndReturn(s, PhysicalOp("EMPTY_RESULT", <<>>, node.width, <<>>))
PlanDelimGet(s, node) == AddAndReturn(s, PhysicalOp("DELIM_SCAN", <<>>, node.width, <<>>))

-------------------------------------------------------------------------------
(* Operators with one child.                                                     *)

PlanFilter(s, node) ==
    LET child == ChildPlan(s, node, 1)
        filtered == IF DOMAIN node.conds = {} THEN s ELSE Add(s, Filter(s, child, node.conds))
        top == IF DOMAIN node.conds = {} THEN child ELSE Newest(filtered)
    IN  IF node.map = <<>> THEN Returns(filtered, top)
        ELSE AddAndReturn(filtered, Projection(top, [i \in DOMAIN node.map |-> Ref(node.map[i])]))

\* A projection of all columns of the child in their order is left out.
IsIdentity(s, node) ==
    /\ WidthOf(s, ChildPlan(s, node, 1)) = node.width
    /\ \A i \in 1 .. node.width : node.exprs[i].ref = i

PlanProjection(s, node) ==
    IF IsIdentity(s, node) THEN Returns(s, ChildPlan(s, node, 1))
    ELSE AddAndReturn(s, Projection(ChildPlan(s, node, 1), node.exprs))

\* The groups are extracted into a projection (Aggregates).
PlanAggregate(s, node) ==
    LET extracted == Add(s, Projection(ChildPlan(s, node, 1),
                                       [g \in DOMAIN node.groups |-> Ref(node.groups[g])]))
    IN  AddAndReturn(extracted, PhysicalOp("GROUP_BY", <<Newest(extracted)>>, node.width,
                                           [groups |-> [g \in DOMAIN node.groups |-> g]]))

PlanLimit(s, node) ==
    IF node.kind = "percentage" THEN Throws(s)
    ELSE AddAndReturn(s, PhysicalOp("STREAMING_LIMIT", <<ChildPlan(s, node, 1)>>, node.width,
                                    [kind |-> node.kind, limit |-> node.limit, offset |-> node.offset]))

PlanOrder(s, node) ==
    LET child == ChildPlan(s, node, 1)
        map == IF node.map # <<>> THEN node.map ELSE [c \in 1 .. WidthOf(s, child) |-> c]
    IN  IF node.orders = <<>> THEN Returns(s, child)
        ELSE AddAndReturn(s, PhysicalOp("ORDER_BY", <<child>>, node.width,
                                        [orders |-> node.orders, projections |-> map]))

PlanTopN(s, node) ==
    AddAndReturn(s, PhysicalOp("TOP_N", <<ChildPlan(s, node, 1)>>, node.width,
                               [orders |-> node.orders, limit |-> node.limit, offset |-> node.offset]))

-------------------------------------------------------------------------------
(* Joins.                                                                        *)

\* Children are planned, then the join; a join without conditions is a cross product.
PlanComparisonJoin(s, node) ==
    IF node.cond = <<>> THEN Throws(s)
    ELSE Add(s, PhysicalOp("HASH_JOIN", <<ChildPlan(s, node, 1), ChildPlan(s, node, 2)>>, node.width,
                           [join |-> node.join, cond |-> node.cond, maps |-> node.maps]))

\* The operators below o through `children`: the join of a delim join is none of them.
Below(ops, o) ==
    LET reach[x \in DOMAIN ops] == {x} \cup UNION {reach[ops[x].kids[i]] : i \in DOMAIN ops[x].kids}
    IN  reach[o]

\* The scans on the delim side get the index of the delim join.
GatherDelimScans(ops, o) == {x \in Below(ops, o) : ops[x].type = "DELIM_SCAN"}
SetDelimIndex(s, scans) ==
    [s EXCEPT !.delim_index = @ + 1,
              !.ops = [x \in DOMAIN @ |->
                          IF x \in scans THEN [@[x] EXCEPT !.delim_index = s.delim_index + 1] ELSE @[x]]]

\* The delim join takes the other side from its join and leaves a placeholder there.
OuterSide(flipped) == IF flipped THEN 2 ELSE 1
MakeDelimJoin(s, node, j, scans) ==
    LET outer == OuterSide(node.flipped)
        distinct == Newest(s) + 1
        placeholder == Newest(s) + 2
        child == s.ops[j].kids[outer]
        grouped == Add(s, PhysicalOp("GROUP_BY", <<>>, Len(node.duplicates), [groups |-> node.duplicates]))
        placed == Add(grouped, PhysicalOp(IF node.flipped THEN "DUMMY_SCAN" ELSE "COLUMN_DATA_SCAN",
                                          <<>>, WidthOf(s, child), <<>>))
        joined == [placed EXCEPT !.ops[j].kids[outer] = placeholder]
    IN  AddAndReturn(joined, PhysicalOp(IF node.flipped THEN "RIGHT_DELIM_JOIN" ELSE "LEFT_DELIM_JOIN",
                                        <<child>>, node.width,
                                        [inner |-> j, distinct |-> distinct, scans |-> scans,
                                         delim_index |-> s.delim_index]))

\* A faulty variant, for mutation: the delim side is the right one even when flipped.
DelimSideUnflipped(flipped) == 2

\* delim_idx: the side of the subquery.
DelimSide(flipped) == IF flipped THEN 1 ELSE 2

\* Without such scans the join is all that is needed.
PlanDelimJoin(s, node) ==
    LET joined == PlanComparisonJoin(s, node)
        j == Newest(joined)
        scans == GatherDelimScans(joined.ops, joined.ops[j].kids[DelimSide(node.flipped)])
        numbered == SetDelimIndex(joined, scans)
    IN  IF joined.thrown THEN joined
        ELSE IF scans = {} THEN Returns(numbered, j)
        ELSE MakeDelimJoin(numbered, node, j, scans)

PlanJoin(s, node) ==
    LET joined == PlanComparisonJoin(s, node)
    IN  IF node.op = "DELIM_JOIN" THEN PlanDelimJoin(s, node)
        ELSE IF joined.thrown THEN joined
        ELSE Returns(joined, Newest(joined))

-------------------------------------------------------------------------------
(* Common table expressions.                                                     *)

\* The nodes below n.
Nodes(logical, n) ==
    LET reach[m \in DOMAIN logical] ==
          {m} \cup UNION {reach[logical[m].kids[i]] : i \in DOMAIN logical[m].kids}
    IN  reach[n]

\* A CTE has its tables registered before its children are planned.
Registered(logical, n) ==
    {logical[c].index : c \in {m \in DOMAIN logical : /\ logical[m].op = "MATERIALIZED_CTE"
                                                      /\ m < n \/ n \in Nodes(logical, m)}}

PlanCTERef(s, logical, n) ==
    IF ~logical[n].materialized \/ logical[n].index \notin Registered(logical, n) THEN Throws(s)
    ELSE AddAndReturn(s, PhysicalOp("CTE_SCAN", <<>>, logical[n].width, [index |-> logical[n].index]))

\* The scans of the CTE that were made so far.
MaterializedCtes(s, index) ==
    {x \in DOMAIN s.ops : s.ops[x].type = "CTE_SCAN" /\ s.ops[x].index = index}

PlanCTE(s, node) ==
    LET right == ChildPlan(s, node, 2)
    IN  AddAndReturn(s, PhysicalOp("CTE", <<ChildPlan(s, node, 1), right>>, WidthOf(s, right),
                                   [index |-> node.index, scans |-> MaterializedCtes(s, node.index)]))

-------------------------------------------------------------------------------
(* The dispatch on the type of the node.                                         *)

NotImplemented ==
    {"WINDOW", "UNNEST", "SAMPLE", "COPY_TO_FILE", "ANY_JOIN", "ASOF_JOIN", "CROSS_PRODUCT",
     "POSITIONAL_JOIN", "UNION", "EXCEPT", "INTERSECT", "INSERT", "DELETE", "UPDATE", "CREATE_TABLE",
     "CREATE_INDEX", "CREATE_SECRET", "EXPLAIN", "DISTINCT", "PREPARE", "EXECUTE", "CREATE_VIEW",
     "CREATE_SEQUENCE", "CREATE_SCHEMA", "CREATE_MACRO", "CREATE_TYPE", "PRAGMA", "VACUUM",
     "TRANSACTION", "ALTER", "DROP", "LOAD", "ATTACH", "DETACH", "RECURSIVE_CTE", "EXPORT", "SET",
     "RESET", "PIVOT", "COPY_DATABASE", "UPDATE_EXTENSIONS", "EXTENSION_OPERATOR", "JOIN",
     "DEPENDENT_JOIN", "INVALID"}

\* The call for node n, after those for its children.
Dispatch(s, logical, n) ==
    LET node == logical[n]
    IN  CASE node.op \in NotImplemented -> Throws(s)
          [] node.op = "GET" -> PlanGet(s, node)
          [] node.op = "PROJECTION" -> PlanProjection(s, node)
          [] node.op = "EMPTY_RESULT" -> PlanEmptyResult(s, node)
          [] node.op = "FILTER" -> PlanFilter(s, node)
          [] node.op = "AGGREGATE_AND_GROUP_BY" -> PlanAggregate(s, node)
          [] node.op = "LIMIT" -> PlanLimit(s, node)
          [] node.op = "ORDER_BY" -> PlanOrder(s, node)
          [] node.op = "TOP_N" -> PlanTopN(s, node)
          [] node.op = "DUMMY_SCAN" -> PlanDummyScan(s, node)
          [] node.op \in {"DELIM_JOIN", "COMPARISON_JOIN"} -> PlanJoin(s, node)
          [] node.op = "CHUNK_GET" -> PlanColumnDataGet(s, node)
          [] node.op = "DELIM_GET" -> PlanDelimGet(s, node)
          [] node.op = "EXPRESSION_GET" -> PlanExpressionGet(s, node)
          [] node.op = "MATERIALIZED_CTE" -> PlanCTE(s, node)
          [] node.op = "CTE_REF" -> PlanCTERef(s, logical, n)

\* The whole plan; a throw ends it.
CreatePlan(logical) ==
    FoldLeft(LAMBDA s, n : IF s.thrown THEN s ELSE Dispatch(s, logical, n),
             Nothing, [n \in DOMAIN logical |-> n])

Root(s) == Last(s.made)
===============================================================================
