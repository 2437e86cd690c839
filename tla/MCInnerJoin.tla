----------------------------- MODULE MCInnerJoin -----------------------------
(* What the INNER joins of MCOperators are given.                               *)
EXTENDS Integers, Sequences

CONSTANTS Null

Column(type, values) == [type |-> type, values |-> values]

Cond(cmp, left, right, casts) == [cmp |-> cmp, left |-> left, right |-> right, casts |-> casts]
Join(conds, small, left, right) == [conditions |-> conds, small |-> small, left |-> left, right |-> right, projections |-> <<<<>>, <<>>>>, unique |-> {}]
Inequalities == {"<>", "IS DISTINCT FROM"}
AllCmps == {"=", "IS NOT DISTINCT FROM", "<", ">", "<=", ">="} \cup Inequalities
AnyOf(S, most) == UNION {[1 .. n -> S] : n \in 0 .. most}

\* One condition over every pair of small key columns with NULLs and negative keys.
OneKey ==
    {Join(<<Cond(cmp, 1, 1, casts)>>, small, <<Column(type, l)>>, <<Column(IF casts = {"left"} THEN "FLOAT64" ELSE type, r)>>) :
        cmp \in AllCmps, casts \in {{}, {"left"}, {"right"}}, small \in BOOLEAN, type \in {"INT64", "INT32"},
        l \in AnyOf({-1, 0, 1, Null}, 2), r \in AnyOf({-1, 1, Null}, 2)}

\* Enough rows for blocks that claim their places in every order.
ManyRows ==
    {Join(<<Cond(cmp, 1, 1, {})>>, TRUE, <<Column(type, l)>>, <<Column(type, r)>>) :
        cmp \in Inequalities \cup {"<", ">"}, type \in {"INT64", "FLOAT64", "INT32"},
        l \in [1 .. 4 -> {1, 2}] \cup [1 .. 3 -> {1, 2, 3}], r \in {<<2>>, <<1, 2>>, <<2, 3, 1>>}}

\* Two conditions, with a payload column on the right.
TwoKeys ==
    {Join(<<Cond(a, 1, 1, {}), Cond(b, 2, again, {})>>, TRUE,
          <<Column("INT64", <<1, 2>>), Column("INT64", l)>>,
          <<Column("INT64", <<1, 2>>), Column("INT64", r), Column(payload, <<Null, 4>>)>>) :
        a \in AllCmps, b \in AllCmps, again \in {1, 2}, payload \in {"INT32", "VARCHAR"},
        l \in [1 .. 2 -> {1, 2}], r \in [1 .. 2 -> {1, 2}]}

\* Hash joins of one or two keys under projection maps.
ProjectedJoins ==
    {[Join(<<Cond("=", l, r, {})>> \o more, TRUE,
           <<Column("INT32", <<1, 2, 2>>), Column("INT32", <<2, 2, Null>>)>>,
           <<Column("INT32", <<2, 1>>), Column("INT32", <<2, Null>>), Column("VARCHAR", <<3, 4>>)>>)
      EXCEPT !.projections = <<left, right>>] :
        l \in {1, 2}, r \in {1, 2}, more \in {<<>>, <<Cond("<", 1, 3, {})>>, <<Cond("=", 2, 2, {})>>},
        left \in {<<>>, <<2>>, <<2, 1>>}, right \in {<<>>, <<3>>, <<1, 3>>, <<3, 2>>, <<2, 3, 1>>}}

\* Keys whose types differ.
MixedTypes ==
    {Join(<<Cond("=", 1, 1, {})>> \o more, TRUE, <<Column(s, <<1, 2>>), Column("INT32", <<3, 1>>)>>,
          <<Column(t, <<2, 1>>), Column("INT32", <<2, 2>>)>>) :
        s \in {"INT32", "DECIMAL32", "DECIMAL64"}, t \in {"INT32", "INT64", "DECIMAL32", "DECIMAL64"},
        more \in {<<>>, <<Cond("<", 2, 2, {})>>, <<Cond("<", 2, 2, {}), Cond("<>", 2, 2, {})>>}}

\* Columns called unique: truly, as one key of two, only but for a NULL, or not at all,
\* compared by equality or besides one.
UniqueKeys ==
    {[Join(<<Cond("=", 1, 1, {})>> \o more, TRUE,
           <<Column("INT64", <<1, 2, 1>>), Column("INT64", <<2, 2, 1>>)>>,
           <<Column("INT64", r), Column("INT64", SubSeq(s, 1, Len(r)))>>)
      EXCEPT !.unique = unique] :
        more \in {<<>>, <<Cond("=", 2, 2, {})>>, <<Cond("<>", 2, 2, {})>>},
        r \in AnyOf({1, 2, Null}, 3) \ {<<>>}, s \in {<<1, 2, 3>>, <<2, 2, 1>>}, unique \in {{1}, {2}, {1, 2}}}

JoinFamilies ==
    {OneKey, ManyRows, TwoKeys, ProjectedJoins, MixedTypes, UniqueKeys,
     {Join(<<>>, TRUE, <<Column("INT64", <<1>>)>>, <<Column("INT64", <<1>>)>>)}}
==============================================================================
