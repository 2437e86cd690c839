----------------------------- MODULE MCAggregates -----------------------------
(* Aggregates over small relations of a key k, two arguments x and y and a      *)
(* filter p: how arguments find their places, what NULLs do, every type, and    *)
(* sums at the limits of their type.                                            *)
EXTENDS Aggregates

Agg(fn, arg, distinct, filter) == [fn |-> fn, arg |-> arg, distinct |-> distinct, filter |-> filter]
Plain(fn) == Agg(fn, "x", FALSE, None)
CountStar == Agg("count_star", None, FALSE, None)
CountDistinct == Agg("count", "x", TRUE, None)

Col(type, values) == [type |-> type, values |-> values]
Child(k, x, y, p) == [k |-> Col("INT32", k), x |-> x, y |-> y, p |-> Col("BOOLEAN", p)]
Over(groups, sets, aggs, batches) == [groups |-> groups, sets |-> sets, aggs |-> aggs, batches |-> batches]
Query(groups, sets, aggs, child) == Over(groups, sets, aggs, <<child>>)

AnyOf(S, most) == UNION {[1 .. n -> S] : n \in 0 .. most}

-------------------------------------------------------------------------------
(* Up to three aggregates, in every order, over rows that tell x, y and p apart. *)
Wired == {CountStar, Agg("count_star", None, FALSE, "p")}
         \cup {Agg(fn, arg, FALSE, filter) : fn \in {"count", "sum"}, arg \in {"x", "y"}, filter \in {None, "p"}}
         \cup {Agg("count", arg, TRUE, filter) : arg \in {"x", "y"}, filter \in {None, "p"}}

Wirings ==
    {Query(groups, sets, aggs, child) :
        groups \in {<<>>, <<"k">>, <<"y", "k">>}, sets \in {1, 2}, aggs \in AnyOf(Wired, 3) \ {<<>>},
        child \in {Child(<<>>, Col("INT64", <<>>), Col("INT64", <<>>), <<>>),
                   Child(<<1, 2, 1>>, Col("INT64", <<3, 4, 3>>), Col("INT64", <<7, 8, 9>>), <<1, 0, 0>>)}}

-------------------------------------------------------------------------------
(* One aggregate, or none, over every table of up to three rows with NULLs.      *)
Single == {CountStar, CountDistinct}
          \cup {Plain(fn) : fn \in {"count", "sum", "sum_no_overflow", "avg", "min", "max", "first", "list"}}

Tables ==
    UNION {{Child(k, Col("INT64", x), Col("INT64", x), [r \in 1 .. n |-> 1]) :
              k \in [1 .. n -> {1, 2, Null}], x \in [1 .. n -> {1, 2, Null}]} : n \in 0 .. 3}

Nulls == {Query(groups, 1, aggs, child) :
            groups \in {<<>>, <<"k">>}, aggs \in {<<a>> : a \in Single}, child \in Tables}
         \cup {Query(<<"k">>, 1, <<>>, child) : child \in Tables}
         \cup {Query(<<"k", "x">>, 1, <<>>, child) : child \in Tables}

-------------------------------------------------------------------------------
(* Every type an argument can have, alone and beside a count.                    *)
Numeric == {"INT16", "INT32", "INT64", "FLOAT32", "FLOAT64", "DECIMAL16", "DECIMAL32", "DECIMAL64", "DECIMAL128"}
Typed == [fn : {"count", "min", "max", "first"}, type : Numeric \cup {"INT128", "VARCHAR", "DATE", "TIMESTAMP"}]
         \cup [fn : {"sum", "avg"}, type : Numeric \cup {"INT128"}]
         \cup [fn : {"sum_no_overflow"}, type : {"INT16", "INT32", "INT64"}]

Types ==
    {Query(groups, 1, IF beside THEN <<CountStar, Plain(t.fn)>> ELSE <<Plain(t.fn)>>,
           Child([r \in DOMAIN x |-> r], Col(t.type, x), Col("INT64", x), [r \in DOMAIN x |-> 1])) :
        groups \in {<<>>, <<"k">>, <<"x">>}, beside \in BOOLEAN, t \in Typed,
        x \in {<<>>, <<1>>, <<1, 2>>, <<Null, 1, 1>>}}

-------------------------------------------------------------------------------
(* Sums of the smallest and the largest INT16, past the bound on their rows.     *)
SumsAtLimits ==
    {Query(<<>>, 1, <<Plain(fn)>>, Child([r \in 1 .. n |-> r], Col(type, [r \in 1 .. n |-> v]),
                                        Col("INT64", [r \in 1 .. n |-> v]), [r \in 1 .. n |-> 1])) :
        fn \in {"sum", "sum_no_overflow"}, type \in {"INT16", "INT32"},
        v \in {-Max16 - 1, Max16}, n \in 1 .. Max32 \div Max16 + 2}

-------------------------------------------------------------------------------
(* Matched rows, then unmatched ones without their left columns.                 *)
Matched == UNION {{Child(k, Col(type, x), Col("INT64", [r \in 1 .. n |-> r]), [r \in 1 .. n |-> 1]) :
              k \in [1 .. n -> {1, Null}], x \in [1 .. n -> {1, Null}], type \in {"INT64", "FLOAT32"}} : n \in 0 .. 2}

Unmatched(type, left) ==
    UNION {{[Child(k, Col(type, x), Col("INT64", [r \in 1 .. n |-> 7]), [r \in 1 .. n |-> 1])
             EXCEPT !.k = IF "k" \in left THEN Col("INT64", <<>>) ELSE @,
                    !.x = IF "x" \in left THEN Col("INT64", <<>>) ELSE @] :
              k \in [1 .. n -> {1, 3, Null}], x \in [1 .. n -> {2, Null}]} : n \in 0 .. 1}

AboveJoin == {CountStar, Agg("sum", "y", FALSE, None)} \cup {Plain(fn) : fn \in {"count", "sum", "min", "first"}}

Joined(child) == UNION {
    {Over(groups, 1, aggs, <<child, more>>) :
        groups \in {<<>>, <<"k">>, <<"y", "k">>}, more \in Unmatched(child.x.type, left),
        aggs \in AnyOf(AboveJoin, 1) \cup {<<a, Agg("sum", "y", FALSE, None)>> : a \in AboveJoin}} :
    left \in SUBSET {"k", "x"}}

MCFamilies == {Wirings, Nulls, Types, SumsAtLimits} \cup {Joined(child) : child \in Matched}
===============================================================================
