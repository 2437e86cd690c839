---------------------------- MODULE MCPlannedQuery ----------------------------
(* Logical plans as DuckDB hands them over, in post-order: a plan is put together *)
(* by shifting the nodes of its right part behind those of its left one.         *)
EXTENDS Integers, Sequences, SequencesExt, FiniteSets, TLC

CONSTANTS Null, Text

RefTo(column) == [ref |-> column, value |-> 0]
Nine == [ref |-> 0, value |-> 9]

Node(op, kids, width, fields) == fields @@ [op |-> op, kids |-> kids, width |-> width]
LeafNode(op, width, fields) == <<Node(op, <<>>, width, fields)>>
Over(op, l, width, fields) == Append(l, Node(op, <<Len(l)>>, width, fields))
Shift(l, n) == [i \in DOMAIN l |-> [l[i] EXCEPT !.kids = [k \in DOMAIN @ |-> @[k] + n]]]
Both(op, l, r, width, fields) ==
    Append(l \o Shift(r, Len(l)), Node(op, <<Len(l), Len(l) + Len(r)>>, width, fields))
Width(l) == Last(l).width

\* Sequences without repetition.
Arrangements(S) == {s \in UNION {[1 .. n -> S] : n \in 0 .. Cardinality(S)} : IsInjective(s)}
SomeOf(S, most) == {s \in Arrangements(S) : Len(s) \in 1 .. most}

-------------------------------------------------------------------------------
(* Scans.                                                                        *)

Table == <<<<1, 5, 7>>, <<2, 5, 8>>, <<1, 6, 8>>, <<1, 5, 8>>, <<1, 5, 7>>>>
Searched == <<1, 5, 8>>   \* what filters ask of each column
Restricted(cols) == [c \in cols |-> Searched[c]]

Get(columns, ids, filters, unsupported) ==
    LeafNode("GET", IF ids = <<>> THEN Len(columns) ELSE Len(ids),
        [rows |-> Table, column_ids |-> columns, projection_ids |-> ids,
         table_filters |-> Restricted(filters), unsupported |-> unsupported, pushdown |-> TRUE,
         returned |-> 3, projected_input |-> FALSE])

\* A projection names some of the columns; without one all of them are wanted.  A filter
\* the scan cannot take comes with a projection.
Pushed ==
    UNION {{Get(columns, ids, filters, unsupported) :
                ids \in {<<>>} \cup SomeOf(DOMAIN columns, 3), unsupported \in SUBSET filters} :
             columns \in SomeOf(1 .. 3, 3), filters \in SUBSET (1 .. 3)}
ProjectedGets == {g \in Pushed : g[1].projection_ids # <<>> \/ g[1].unsupported = {}}

\* A function without projection pushdown; column 0 is the row id.
WholeGets ==
    {[[Get(columns, <<>>, {}, {}) EXCEPT ![1].pushdown = FALSE] EXCEPT ![1].projected_input = input] :
        columns \in SomeOf(0 .. 3, 3), input \in BOOLEAN}

T2 == Get(<<1, 2>>, <<>>, {}, {})
T3 == Get(<<3, 1>>, <<>>, {}, {})
WithRows(l, rows) == [l EXCEPT ![1].rows = rows]
Nulls == WithRows(T2, <<<<1, Null>>, <<2, 5>>>>)
Strings == WithRows(T2, <<<<1, Text>>, <<2, Text>>>>)
Dummy == LeafNode("DUMMY_SCAN", 1, <<>>)
Values(rows, bigint) == Over("EXPRESSION_GET", Dummy, Len(rows[1]), [rows |-> rows, bigint |-> bigint])
Collection == LeafNode("CHUNK_GET", 2, [rows |-> <<<<3, 4>>>>])
-------------------------------------------------------------------------------
(* Operators with one child, over any plan.                                      *)

Projected(l, exprs) == Over("PROJECTION", l, Len(exprs), [exprs |-> exprs])
Filtered(l, cols, map) ==
    Over("FILTER", l, IF map = <<>> THEN Width(l) ELSE Len(map),
         [conds |-> [c \in cols |-> IF c = 1 THEN 1 ELSE 5], map |-> map])
Grouped(l, groups) == Over("AGGREGATE_AND_GROUP_BY", l, Len(groups), [groups |-> groups])
Limited(l, kind, limit, offset) ==
    Over("LIMIT", l, Width(l), [kind |-> kind, limit |-> limit, offset |-> offset])
Ordered(l, orders, map) ==
    Over("ORDER_BY", l, IF map = <<>> THEN Width(l) ELSE Len(map), [orders |-> orders, map |-> map])
Topped(l, orders, limit, offset) ==
    Over("TOP_N", l, Width(l), [orders |-> orders, limit |-> limit, offset |-> offset])

OneChild(l) ==
    LET columns == 1 .. Width(l)
        some == SomeOf(columns, 2)
    IN  {Projected(l, e) : e \in SomeOf({RefTo(c) : c \in columns} \cup {Nine}, 2)}
        \cup {Filtered(l, cols, map) : cols \in SUBSET columns, map \in {<<>>} \cup some}
        \cup {Grouped(l, groups) : groups \in some}
        \cup {Limited(l, kind, 2, offset) : kind \in {"constant", "expression", "percentage"}, offset \in 0 .. 1}
        \cup {Ordered(l, <<>>, <<>>)} \cup {Ordered(l, <<c>>, map) : c \in columns, map \in {<<>>} \cup some}
        \cup {Topped(l, <<c>>, 2, offset) : c \in columns, offset \in 0 .. 1}

\* What needs no table.  Above a dummy scan there is always a projection.
AtHand ==
    {Projected(Dummy, <<Nine>>), Collection, LeafNode("EMPTY_RESULT", 2, <<>>)}
    \cup {Values(rows, b) : b \in BOOLEAN,
            rows \in {<<<<1>>>>, <<<<1>>, <<2>>>>, <<<<2>>, <<5>>, <<2>>>>, <<<<1, 5>>>>}}

Unaries == UNION {OneChild(l) : l \in {T2} \cup AtHand}
Towers == UNION {OneChild(l) : l \in OneChild(T2)}

-------------------------------------------------------------------------------
(* Joins, subqueries and common table expressions.                               *)

JoinWidth(join, l, r, maps) ==
    LET left == IF maps[1] = <<>> THEN Width(l) ELSE Len(maps[1])
        right == IF maps[2] = <<>> THEN Width(r) ELSE Len(maps[2])
    IN  CASE join = "INNER" -> left + right [] join = "SEMI" -> left [] join = "RIGHT_SEMI" -> right
Joining(op, join, l, r, cond, maps, flipped, duplicates) ==
    Both(op, l, r, JoinWidth(join, l, r, maps),
         [join |-> join, cond |-> cond, maps |-> maps, flipped |-> flipped, duplicates |-> duplicates])
Compared(join, l, r, cond, maps) == Joining("COMPARISON_JOIN", join, l, r, cond, maps, FALSE, <<>>)
All == <<<<>>, <<>>>>

Joins ==
    {Compared(join, l, r, cond, maps) :
        join \in {"INNER", "SEMI", "RIGHT_SEMI"}, l \in {T2, Filtered(T3, {2}, <<>>)},
        r \in {T3, Projected(T2, <<RefTo(2), RefTo(1)>>)}, cond \in {<<1, 2>>, <<2, 1>>, <<>>},
        maps \in {<<>>, <<2>>, <<2, 1>>} \X {<<>>, <<1>>, <<2, 1>>}}

\* The result of the enclosing delim join; the delim join of an outer side and a subquery.
DelimGet == LeafNode("DELIM_GET", 1, <<>>)
Delim(join, flipped, outer, subquery, duplicates) ==
    IF flipped THEN Joining("DELIM_JOIN", join, subquery, outer, <<1, duplicates[1]>>, All, TRUE, duplicates)
    ELSE Joining("DELIM_JOIN", join, outer, subquery, <<duplicates[1], 1>>, All, FALSE, duplicates)
Subqueries ==
    {DelimGet, T3, Compared("INNER", DelimGet, T2, <<1, 1>>, <<<<>>, <<>>>>),
     Grouped(Compared("SEMI", T2, DelimGet, <<1, 1>>, All), <<1>>),
     Compared("SEMI", DelimGet, Filtered(DelimGet, {1}, <<>>), <<1, 1>>, All)}
Correlated ==
    {Delim(join, flipped, outer, subquery, duplicates) :
        join \in {"INNER", "SEMI", "RIGHT_SEMI"}, flipped \in BOOLEAN, duplicates \in {<<1>>, <<2>>},
        outer \in {T2, Filtered(T2, {1}, <<>>), Grouped(T2, <<1, 2>>)}, subquery \in Subqueries}

\* A delim join in the subquery of another, whose result its own outer side scans.
Nested ==
    {Delim("SEMI", f, T2,
           Delim(join, g, Compared("INNER", DelimGet, T2, <<1, 1>>, All), inner, <<1>>), <<1>>) :
        f \in BOOLEAN, g \in BOOLEAN, join \in {"INNER", "SEMI"}, inner \in Subqueries}
    \cup {Delim("SEMI", f, Delim("SEMI", g, T2, outer, <<2>>), inner, <<1>>) :
            f \in BOOLEAN, g \in BOOLEAN, outer \in Subqueries, inner \in Subqueries}

CteRef(index, width) == LeafNode("CTE_REF", width, [index |-> index, materialized |-> TRUE])
WithCTE(index, cte, query) == Both("MATERIALIZED_CTE", cte, query, Width(query), [index |-> index])
Readers(index) ==
    {CteRef(index, 2), T3, Filtered(CteRef(index, 2), {2}, <<1>>),
     Compared("INNER", CteRef(index, 2), CteRef(index, 2), <<1, 1>>, All)}
Shared ==
    {WithCTE(1, cte, query) : cte \in {T2, Grouped(T2, <<2, 1>>), Projected(T3, <<RefTo(2), RefTo(1)>>),
                                       Filtered(T2, {1}, <<>>), Nulls, Strings},
                              query \in Readers(1)}
    \cup {WithCTE(1, T2, WithCTE(2, Projected(one, <<RefTo(1), Nine>>), Compared("SEMI", other, two, <<1, 1>>, All))) :
            one \in Readers(1), other \in Readers(1), two \in Readers(2)}
    \cup {WithCTE(1, T2, Delim("SEMI", f, outer, Compared("SEMI", DelimGet, inner, <<1, 1>>, All), <<1>>)) :
            f \in BOOLEAN, outer \in Readers(1), inner \in Readers(1)}
    \cup {Delim("SEMI", f, outer, Grouped(DelimGet, <<1>>), <<1>>) : f \in BOOLEAN, outer \in {Nulls, Strings}}
    \cup {Delim("SEMI", f, T2, WithCTE(1, Compared("INNER", DelimGet, T3, <<1, 2>>, All), query), <<1>>) :
            f \in BOOLEAN, query \in Readers(1)}

\* What throws: a CTE that is not materialized, or not there; an operator without support.
Refused ==
    {WithCTE(1, T2, [CteRef(1, 2) EXCEPT ![1].materialized = FALSE]), CteRef(1, 2),
     Both("CROSS_PRODUCT", T2, T3, 4, <<>>), Both("UNION", T2, T2, 2, <<>>), Over("DISTINCT", T2, 2, <<>>),
     Over("WINDOW", Grouped(T2, <<1>>), 1, <<>>), Append(T2, [Last(T3) EXCEPT !.kids = <<1>>])}

PlanFamilies ==
    {{[logical |-> l] : l \in F} :
        F \in {ProjectedGets, {Projected(g, <<RefTo(Width(g)), RefTo(1)>>) : g \in ProjectedGets},
               WholeGets, AtHand, Unaries, Towers, Joins, Correlated, Nested, Shared, Refused}}
===============================================================================
