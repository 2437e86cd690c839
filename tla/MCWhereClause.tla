---------------------------- MODULE MCWhereClause ----------------------------
(* WhereClause over small tables: pushed filters of every kind on numbers and  *)
(* strings, every expression built from pairs of atoms over two columns, and   *)
(* string matching over every pair of short texts.                              *)
EXTENDS WhereClause

A == 97
B == 98
High == 195     \* the first byte of a letter outside ASCII
MCChars == {A, B, High}
MCNullText == <<A>>

Query(table, pushed, where, cudf, signed) ==
    [table |-> table, pushed |-> pushed, where |-> where, cudf |-> cudf, signed |-> signed]

-----------------------------------------------------------------------------
(* Filters pushed into the scan.                                                *)

Cmp(rel, v, text) == [k |-> "compare", rel |-> rel, v |-> v, text |-> text]
Kind(k) == [k |-> k]
AndOf(fs) == [k |-> "and", inner |-> fs]

NumberFilters ==
    {Cmp(">=", <<2>>, FALSE), Cmp("<>", <<2>>, FALSE), Cmp("<", Null, FALSE),
     AndOf(<<Cmp(">=", <<1>>, FALSE), Kind("not null"), Cmp("<", <<2>>, FALSE)>>),
     AndOf(<<Kind("optional"), Cmp("=", <<1>>, FALSE)>>),
     AndOf(<<Kind("not null"), Kind("optional")>>),
     AndOf(<<Cmp("=", <<1>>, FALSE), Kind("is null")>>),
     Kind("optional"), Kind("not null"), Kind("is null")}

NumberScans ==
    {Query([r \in 1 .. n |-> <<v[r]>>], <<[col |-> 1, filter |-> f]>>, NoWhere, TRUE, TRUE) :
        n \in {0, 3, 5}, v \in [1 .. 5 -> {Null, <<1>>, <<2>>}], f \in NumberFilters}

Words == {<<>>, <<A>>, <<A, B>>, <<A, High>>, <<B>>}

StringScans ==
    {Query(<< <<v>>, <<w>> >>, <<[col |-> 1, filter |-> Cmp(rel, c, TRUE)]>>, NoWhere, TRUE, signed) :
        v \in Words \cup {Null}, w \in Words, c \in Words,
        rel \in {"=", "<>", "<", "<=", ">", ">="}, signed \in BOOLEAN}

-----------------------------------------------------------------------------
(* Expressions over two number columns.                                         *)

Ref(c) == [k |-> "ref", col |-> c]
Const(v, type) == [k |-> "const", v |-> v, type |-> type]
One == Const(<<1>>, "number")
Comp(rel, l, r) == [k |-> "compare", rel |-> rel, l |-> l, r |-> r]
Calc(op, l, r) == [k |-> op, l |-> l, r |-> r]
Op1(k, x) == [k |-> k, x |-> x]
OpN(k, args) == [k |-> k, args |-> args]
InList(x, args, neg) == [k |-> "in", x |-> x, args |-> args, neg |-> neg]
When(when, then) == [when |-> when, then |-> then]
CaseOf(checks, else) == [k |-> "case", checks |-> checks, else |-> else]

Atoms ==
    {Comp("=", Ref(1), One), Comp("<", Ref(1), Ref(2)), Comp("<=", Calc("+", Ref(1), One), Ref(2)),
     Comp("<", Calc("/", Ref(2), Ref(1)), One), Comp("=", Ref(1), Const(Null, "number")),
     Comp("=", Ref(1), Const(<<1>>, "decimal")), Calc("distinct", Ref(1), Ref(2)),
     Op1("is null", Ref(1)), Op1("is not null", Ref(2)), Op1("coalesce", Ref(1)),
     InList(Ref(1), <<One, Const(<<2>>, "number")>>, FALSE),
     InList(Ref(1), <<One, Const(<<2>>, "number")>>, TRUE),
     InList(Ref(1), <<One, Ref(2)>>, FALSE), InList(Ref(1), <<One, Ref(2)>>, TRUE),
     [k |-> "between", x |-> Ref(1), lo |-> One, hi |-> Ref(2)]}

CaseTests(a, b) ==
    {Comp("=", CaseOf(<<When(a, Ref(1)), When(b, Ref(2))>>, Calc("+", Ref(1), Ref(2))), Ref(1)),
     Comp("=", CaseOf(<<When(a, Ref(1)), When(b, [k |-> "error"])>>, Ref(2)), One),
     Comp("=", CaseOf(<<When(OpN("or", <<a, b>>), One)>>, Ref(2)), One)}

Expressions2 ==
    Atoms \cup {Op1(k, a) : k \in {"not", "is null", "is not null"}, a \in Atoms}
          \cup {OpN(k, <<a, b>>) : k \in {"and", "or"}, a \in Atoms, b \in Atoms}
          \cup UNION {CaseTests(a, b) : a \in Atoms, b \in Atoms}

Numbers == {Null, <<0>>, <<1>>, <<2>>}

NumberFiltersAbove ==
    {Query(<< <<x, y>>, <<<<1>>, z>> >>, pushed, e, TRUE, TRUE) :
        x \in Numbers, y \in Numbers \ {<<0>>}, z \in {<<1>>, <<2>>}, e \in Expressions2,
        pushed \in {<<>>, <<[col |-> 1, filter |-> Cmp("<>", <<0>>, FALSE)]>>}}

-----------------------------------------------------------------------------
(* String functions over three rows.                                            *)

Pattern(terms, from, to) == [terms |-> terms, from |-> from, to |-> to]
Match(k, terms, from, to, neg) == [k |-> k, x |-> Ref(1), pattern |-> Pattern(terms, from, to), neg |-> neg]

Terms == {<<A>>, <<A, B>>, <<B, A>>, <<A, A>>, <<A, B, A>>}

StringFunctions ==
    {Match("contains", <<t>>, FALSE, FALSE, FALSE) : t \in Terms}
    \cup {Match("prefix", <<t>>, TRUE, FALSE, FALSE) : t \in Terms}
    \cup {Match("suffix", <<t>>, FALSE, TRUE, FALSE) : t \in Terms}
    \cup {Match("like", <<t, u>>, anchored, anchored, neg) :
            t \in Terms, u \in Terms, anchored \in BOOLEAN, neg \in BOOLEAN}
    \cup {Comp("=", [k |-> "substring", x |-> Ref(1), start |-> i, len |-> n], Const(<<A>>, "text")) :
            i \in {1, 2, 3}, n \in {1, 2}}
    \cup {InList(Ref(1), <<Const(<<B>>, "text"), Const(v, "text")>>, FALSE) : v \in {<<A, B>>, Null}}

Texts == UNION {[1 .. n -> {A, B}] : n \in 0 .. 4}

StringFilters ==
    {Query(<< <<s>>, <<t>>, <<u>> >>, <<>>, e, cudf, TRUE) :
        s \in Texts, t \in {<<>>, Null, <<A, B>>}, u \in {<<A>>, <<B, A, A, B>>}, e \in StringFunctions, cudf \in BOOLEAN}

MCFamilies == {NumberScans, StringScans, NumberFiltersAbove, StringFilters}
===============================================================================
