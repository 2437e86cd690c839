------------------------- MODULE ExpressionExecutor -------------------------
(* GpuExpressionExecutor: evaluates a bound expression over all the rows of a  *)
(* relation at once.  Each Execute overload returns a column, a sequence with   *)
(* one value per row, or Thrown when it throws; its children are executed       *)
(* first.  cuDF's operations give NULL wherever an operand is NULL.             *)
EXTENDS Predicates, StringKernels

CONSTANTS Garbage,      \* what an integer division by zero leaves on a GPU
          Thrown,       \* the result of an expression that throws
          NullText      \* the text a NULL string is stored as

\* A binary cuDF operation, row by row.
Binary(Op(_, _), l, r) ==
    IF Thrown \in {l, r} THEN Thrown
    ELSE [i \in DOMAIN l |-> IF Null \in {l[i], r[i]} THEN Null
                             ELSE IF Garbage \in {l[i], r[i]} THEN Garbage
                             ELSE Op(l[i], r[i])]

Unary(Op(_), x) ==
    IF x = Thrown THEN Thrown
    ELSE [i \in DOMAIN x |-> IF x[i] \in {Null, Garbage} THEN x[i] ELSE Op(x[i])]

And(x, y) == Binary(LAMBDA a, b : a /\ b, x, y)
Or(x, y) == Binary(LAMBDA a, b : a \/ b, x, y)
Not(x) == Unary(LAMBDA a : ~a, x)
Compare(rel, x, y) == Binary(LAMBDA a, b : Holds(rel, a, b), x, y)

\* Value::GetValue of a constant: a NULL string reads as a text, any other NULL
\* throws.
GetValue(e) == IF e.v # Null THEN e.v ELSE IF e.type = "text" THEN NullText ELSE Thrown

RECURSIVE Execute(_, _, _)

Reference(e, rows) == [i \in DOMAIN rows |-> rows[i][e.col]]

Constant(e, rows) ==
    IF e.type = "date" \/ GetValue(e) = Thrown THEN Thrown
    ELSE [i \in DOMAIN rows |-> GetValue(e)]

\* Constants that a comparison or an IN takes without making a column of them.
Scalar(e) == e.k = "const" /\ e.type \in {"number", "text"}

Comparison(e, rows, cudf) ==
    IF e.r.k = "const" /\ ~Scalar(e.r) THEN Thrown
    ELSE Compare(e.rel, Execute(e.l, rows, cudf), Execute(e.r, rows, cudf))

Conjunction(e, rows, cudf) ==
    LET Join(acc, x) == IF e.k = "and" THEN And(Execute(x, rows, cudf), acc)
                        ELSE Or(Execute(x, rows, cudf), acc)
    IN  FoldLeft(Join, Execute(e.args[1], rows, cudf), Tail(e.args))

\* The two bounds joined the wrong way.
BetweenEither(e, rows, cudf) ==
    LET x == Execute(e.x, rows, cudf)
    IN  Or(Compare(">=", x, Execute(e.lo, rows, cudf)), Compare("<=", x, Execute(e.hi, rows, cudf)))

Between(e, rows, cudf) ==
    LET x == Execute(e.x, rows, cudf)
    IN  And(Compare(">=", x, Execute(e.lo, rows, cudf)), Compare("<=", x, Execute(e.hi, rows, cudf)))

\* IN and NOT IN: a list of constants is searched, and then not negated; other
\* lists are compared one by one.
In(e, rows, cudf) ==
    LET x == Execute(e.x, rows, cudf)
        values == {GetValue(arg) : arg \in {a \in ToSet(e.args) : a.k = "const"}}
        Either(acc, arg) == Or(acc, Compare("=", x, Execute(arg, rows, cudf)))
        any == FoldLeft(Either, Compare("=", x, Execute(e.args[1], rows, cudf)), Tail(e.args))
    IN  IF \A i \in DOMAIN e.args : e.args[i].k = "const"
        THEN IF Thrown \in values \/ \E i \in DOMAIN e.args : ~Scalar(e.args[i]) THEN Thrown
             ELSE Unary(LAMBDA v : v \in values, x)
        ELSE IF e.neg THEN Not(any) ELSE any

\* COALESCE is not there; the other operators have one child.
Operator(e, rows, cudf) ==
    LET x == Execute(e.x, rows, cudf)
        nulls == [i \in DOMAIN x |-> x[i] = Null]
    IN  CASE e.k = "coalesce" -> Thrown
          [] e.k = "not" -> Not(x)
          [] e.k = "is null" -> IF x = Thrown THEN Thrown ELSE nulls
          [] e.k = "is not null" -> IF x = Thrown THEN Thrown ELSE Not(nulls)

\* copy_if_else takes the second column where the mask is NULL.
CopyIfElse(then, else, mask) ==
    IF Thrown \in {then, else, mask} THEN Thrown
    ELSE [i \in DOMAIN mask |-> IF mask[i] = Garbage THEN Garbage
                                ELSE IF mask[i] = TRUE THEN then[i] ELSE else[i]]

\* CASE: ELSE first, then the checks from the last to the first, each over all
\* rows.  DuckDB's check that a subquery has one row is a THEN of error().
Case(e, rows, cudf) ==
    LET Check(acc, check) ==
            LET mask == Execute(check.when, rows, cudf)
            IN  IF Thrown \in {acc, mask} THEN Thrown
                ELSE IF check.then.k = "error"
                THEN IF \E i \in DOMAIN mask : mask[i] = TRUE THEN Thrown ELSE acc
                ELSE CopyIfElse(Execute(check.then, rows, cudf), acc, mask)
    IN  FoldLeft(Check, Execute(e.else, rows, cudf), Reverse(e.checks))

Arithmetic(e, rows, cudf) ==
    LET Divide(a, b) == IF b = <<0>> THEN Garbage ELSE <<a[1] \div b[1]>>
        Add(a, b) == <<a[1] + b[1]>>
        l == Execute(e.l, rows, cudf)
        r == Execute(e.r, rows, cudf)
    IN  IF e.k = "+" THEN Binary(Add, l, r) ELSE Binary(Divide, l, r)

\* What the bytes of a string column hold: a NULL is a text like any other.
Bytewise(x) == [i \in DOMAIN x |-> IF x[i] = Null THEN NullText ELSE x[i]]

\* Suffixes always go to cuDF.  The kernels of this repository return no NULLs,
\* and LIKE's looks only for the terms in their order.
Matching(e, rows, cudf) ==
    LET x == Execute(e.x, rows, cudf)
        texts == Bytewise(x)
        Marked(S) == [i \in DOMAIN texts |-> (i \in S) = ~e.neg]
    IN  IF x = Thrown THEN Thrown
        ELSE IF cudf \/ e.k = "suffix" THEN Unary(LAMBDA s : LikeMatches(s, e.pattern) = ~e.neg, x)
        ELSE CASE e.k = "like" -> Marked(LikeRows(texts, e.pattern.terms))
               [] e.k = "contains" -> Marked(ContainsRows(texts, e.pattern.terms[1]))
               [] e.k = "prefix" -> Marked({i \in DOMAIN texts : PrefixMatches(texts[i], e.pattern.terms[1])})

Substring(e, rows, cudf) ==
    LET x == Execute(e.x, rows, cudf)
        texts == Bytewise(x)
    IN  IF x = Thrown THEN Thrown
        ELSE IF cudf THEN Unary(LAMBDA s : Slice(s, e.start, e.len), x)
        ELSE [i \in DOMAIN texts |-> SubstringRow(texts[i], e.start, e.len)]

Execute(e, rows, cudf) ==
    CASE e.k = "ref" -> Reference(e, rows)
      [] e.k = "const" -> Constant(e, rows)
      [] e.k = "compare" -> Comparison(e, rows, cudf)
      [] e.k \in {"distinct", "error"} -> Thrown
      [] e.k \in {"and", "or"} -> Conjunction(e, rows, cudf)
      [] e.k = "between" -> Between(e, rows, cudf)
      [] e.k = "in" -> In(e, rows, cudf)
      [] e.k \in {"not", "is null", "is not null", "coalesce"} -> Operator(e, rows, cudf)
      [] e.k = "case" -> Case(e, rows, cudf)
      [] e.k \in {"+", "/"} -> Arithmetic(e, rows, cudf)
      [] e.k \in {"like", "contains", "prefix", "suffix"} -> Matching(e, rows, cudf)
      [] e.k = "substring" -> Substring(e, rows, cudf)
===============================================================================
