--------------------------- MODULE MCGPUExecutor ---------------------------
(* The plans that GPUExecutor is checked on: all trees of a small depth over *)
(* scans, filters, aggregates and joins, subqueries and CTEs put into them,  *)
(* and what the plan generator makes of the plans that PlannedQuery is       *)
(* checked on.  Joined plans are numbered by shifting those of each part.    *)
EXTENDS GPUExecutor

CONSTANTS JoinTypes  \* join types of the trees

Op(type, kids) == [type |-> type, join |-> "", kids |-> kids, inner |-> 0, distinct |-> 0, scans |-> {}]
JoinOp(type, join, kids) == [Op(type, kids) EXCEPT !.join = join]

Shift(t, n) == [i \in DOMAIN t |->
    [t[i] EXCEPT !.kids = [k \in DOMAIN @ |-> @[k] + n],
                 !.inner = IF @ = 0 THEN 0 ELSE @ + n,
                 !.distinct = IF @ = 0 THEN 0 ELSE @ + n,
                 !.scans = {s + n : s \in @}]]

Leaf(type) == <<Op(type, <<>>)>>
Over(type, t) == <<Op(type, <<2>>)>> \o Shift(t, 1)
Join(type, join, l, r) ==
    <<JoinOp(type, join, <<2, 2 + Len(l)>>)>> \o Shift(l, 1) \o Shift(r, 1 + Len(l))

\* The scans of this type in t that no operator of t owns.
Open(t, type) == {s \in OfType(t, {type}) : ProducersOf(t, s) = {}}

\* Operator 1 is the delim join, 2 its join, 3 its distinct, 4 the placeholder.
LeftDelim(join, l, r) ==
    LET at == 4 + Len(l)
    IN <<[Op("LEFT_DELIM_JOIN", <<5>>) EXCEPT !.inner = 2, !.distinct = 3,
                                       !.scans = {s + at : s \in Open(r, "DELIM_SCAN")}],
         JoinOp("HASH_JOIN", join, <<4, at + 1>>), Op("GROUP_BY", <<>>), Op("COLUMN_DATA_SCAN", <<>>)>>
       \o Shift(l, 4) \o Shift(r, at)
RightDelim(join, l, r) ==
    LET at == 4 + Len(r)
    IN <<[Op("RIGHT_DELIM_JOIN", <<5>>) EXCEPT !.inner = 2, !.distinct = 3,
                                        !.scans = {s + at : s \in Open(l, "DELIM_SCAN")}],
         JoinOp("HASH_JOIN", join, <<at + 1, 4>>), Op("GROUP_BY", <<>>), Op("TABLE_SCAN", <<>>)>>
       \o Shift(r, 4) \o Shift(l, at)
WithCTE(cte, query) ==
    LET at == 1 + Len(cte)
    IN <<[Op("CTE", <<2, at + 1>>) EXCEPT !.scans = {s + at : s \in Open(query, "CTE_SCAN")}]>>
       \o Shift(cte, 1) \o Shift(query, at)

Scan == Leaf("TABLE_SCAN")
Trees1 == {Scan, Over("FILTER", Scan), Over("GROUP_BY", Scan)}
            \cup {Join("HASH_JOIN", j, Scan, Scan) : j \in JoinTypes}
Trees2 == Trees1 \cup {Over(t, x) : t \in {"FILTER", "GROUP_BY"}, x \in Trees1}
                 \cup {Join("HASH_JOIN", j, x, y) : j \in JoinTypes, x \in Trees1, y \in Trees1}
                 \cup {Join("NESTED_LOOP_JOIN", j, x, Scan) : j \in {"INNER", "RIGHT"}, x \in Trees1}
Trees3 == Trees2 \cup {Join("HASH_JOIN", j, x, Scan) : j \in JoinTypes, x \in Trees2}
                 \cup {Join("HASH_JOIN", j, Scan, x) : j \in JoinTypes, x \in Trees2}

\* Subqueries over a scan of type `scan`, that of an enclosing delim join or a CTE.
Subqueries(scan) ==
    LET s == Leaf(scan)
    IN {s, Over("GROUP_BY", s), Join("HASH_JOIN", "INNER", Scan, s), Join("HASH_JOIN", "RIGHT", s, Scan),
        Over("GROUP_BY", Join("HASH_JOIN", "INNER", s, Over("GROUP_BY", s)))}

Producing ==
    LET simple == {x \in Trees1 : ~\E op \in DOMAIN x : x[op].join = "SEMI"}
        delim == Subqueries("DELIM_SCAN")
        cte == Subqueries("CTE_SCAN")
        once == {LeftDelim(j, x, y) : j \in {"MARK", "RIGHT"}, x \in simple, y \in delim}
                  \cup {RightDelim(j, y, x) : j \in {"INNER", "RIGHT_SEMI"}, x \in simple, y \in delim}
    IN once
         \cup {WithCTE(x, y) : x \in simple, y \in cte}
         \cup {WithCTE(Over("GROUP_BY", x), WithCTE(y, z)) : x \in simple, y \in cte, z \in cte}
         \cup {LeftDelim("SEMI", Scan, Join("HASH_JOIN", "INNER", Leaf("DELIM_SCAN"), LeftDelim("MARK", x, y))) :
                 x \in delim, y \in delim}
         \cup {WithCTE(Scan, LeftDelim("INNER", x, y)) : x \in cte, y \in delim}

\* The plan made of a logical plan, numbered from its root, which is made last.
Logical == INSTANCE MCPlannedQuery WITH Null <- "NULL", Text <- "text"
Generator == INSTANCE PlanGenerator WITH Null <- "NULL"
Renumbered(ops) ==
    LET under[o \in 0 .. Len(ops)] ==
          IF o = 0 THEN <<>>
          ELSE <<o>> \o under[ops[o].inner] \o under[ops[o].distinct]
                 \o FlattenSeq([k \in DOMAIN ops[o].kids |-> under[ops[o].kids[k]]])
        order == under[Len(ops)]
        at(o) == IF o = 0 THEN 0 ELSE PlaceOf(o, order)
    IN  [i \in DOMAIN order |->
            LET op == ops[order[i]]
            IN  [type |-> op.type, join |-> op.join, kids |-> [k \in DOMAIN op.kids |-> at(op.kids[k])],
                 inner |-> at(op.inner), distinct |-> at(op.distinct), scans |-> {at(s) : s \in op.scans}]]
Generated ==
    LET made == UNION {{Generator!CreatePlan(input.logical) : input \in F} : F \in Logical!PlanFamilies}
    IN  {Renumbered(s.ops) : s \in {m \in made : ~m.thrown}}

MCPlans == {Over("RESULT_COLLECTOR", t) : t \in Trees3 \cup Producing \cup Generated}
=============================================================================
