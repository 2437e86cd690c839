----------------------------- MODULE Predicates -----------------------------
(* What a WHERE clause means in SQL: the values of expressions and of the      *)
(* filters DuckDB pushes into a scan, with three truth values.  The GPU code   *)
(* is measured against these definitions; nothing here is translated from it.  *)
(* A value is a tuple of character codes, a number n being <<n>>; truth values *)
(* are Booleans, and Null stands for SQL's NULL of every type.                 *)
EXTENDS Integers, Sequences

CONSTANT Null       \* SQL's NULL

IsPrefixOf(s, t) == Len(s) <= Len(t) /\ SubSeq(t, 1, Len(s)) = s

\* Order of values: by the first code that differs, a proper prefix first.
Less(s, t) ==
    \/ s # t /\ IsPrefixOf(s, t)
    \/ \E k \in 1 .. Len(s) : /\ k <= Len(t)
                              /\ s[k] < t[k]
                              /\ SubSeq(s, 1, k - 1) = SubSeq(t, 1, k - 1)

Holds(rel, s, t) ==
    CASE rel = "=" -> s = t [] rel = "<>" -> s # t
      [] rel = "<" -> Less(s, t) [] rel = "<=" -> s = t \/ Less(s, t)
      [] rel = ">" -> Less(t, s) [] rel = ">=" -> s = t \/ Less(t, s)

\* Three-valued logic.
Not3(x) == IF x = Null THEN Null ELSE ~x
And3(x, y) == IF FALSE \in {x, y} THEN FALSE ELSE IF Null \in {x, y} THEN Null ELSE TRUE
Or3(x, y) == Not3(And3(Not3(x), Not3(y)))
Compare3(rel, x, y) == IF Null \in {x, y} THEN Null ELSE Holds(rel, x, y)

\* The pattern t1%t2%...%tn, open at an end unless anchored there.
LikeMatches(s, p) ==
    LET n == Len(p.terms)
        Place(at) ==
            /\ \A i \in 1 .. n : /\ at[i] + Len(p.terms[i]) <= Len(s)
                                 /\ SubSeq(s, at[i] + 1, at[i] + Len(p.terms[i])) = p.terms[i]
            /\ \A i \in 1 .. n - 1 : at[i] + Len(p.terms[i]) <= at[i + 1]
            /\ p.from => at[1] = 0
            /\ p.to => at[n] + Len(p.terms[n]) = Len(s)
    IN  \E at \in [1 .. n -> 0 .. Len(s)] : Place(at)

Slice(s, start, len) == SubSeq(s, start, IF start + len - 1 < Len(s) THEN start + len - 1 ELSE Len(s))

\* The value of expression e on a row, a tuple of column values.
RECURSIVE Sql(_, _)
Sql(e, row) ==
    LET V(x) == Sql(x, row)
        Fold(Op(_, _), zero) ==
            LET f[i \in 0 .. Len(e.args)] == IF i = 0 THEN zero ELSE Op(f[i - 1], V(e.args[i]))
            IN  f[Len(e.args)]
        OnText(f(_)) == IF V(e.x) = Null THEN Null ELSE f(V(e.x))
    IN  CASE e.k = "ref" -> row[e.col]
          [] e.k = "const" -> e.v
          [] e.k = "compare" -> Compare3(e.rel, V(e.l), V(e.r))
          [] e.k = "distinct" -> V(e.l) # V(e.r)
          [] e.k = "and" -> Fold(And3, TRUE)
          [] e.k = "or" -> Fold(Or3, FALSE)
          [] e.k = "not" -> Not3(V(e.x))
          [] e.k = "is null" -> V(e.x) = Null
          [] e.k = "is not null" -> V(e.x) # Null
          [] e.k = "between" -> And3(Compare3(">=", V(e.x), V(e.lo)), Compare3("<=", V(e.x), V(e.hi)))
          [] e.k = "in" ->
               LET Equal(acc, v) == Or3(acc, Compare3("=", V(e.x), v)) IN
               IF e.neg THEN Not3(Fold(Equal, FALSE)) ELSE Fold(Equal, FALSE)
          [] e.k = "case" ->
               LET taken == {i \in 1 .. Len(e.checks) : V(e.checks[i].when) = TRUE}
               IN  IF taken = {} THEN V(e.else)
                   ELSE V(e.checks[CHOOSE i \in taken : \A j \in taken : i <= j].then)
          [] e.k = "error" -> Null
          [] e.k = "+" -> IF Null \in {V(e.l), V(e.r)} THEN Null ELSE <<V(e.l)[1] + V(e.r)[1]>>
          [] e.k = "/" -> IF Null \in {V(e.l), V(e.r)} \/ V(e.r) = <<0>> THEN Null
                          ELSE <<V(e.l)[1] \div V(e.r)[1]>>
          [] e.k \in {"like", "contains", "prefix", "suffix"} ->
               LET Matches(s) == LikeMatches(s, e.pattern) = ~e.neg IN OnText(Matches)
          [] e.k = "substring" -> LET Cut(s) == Slice(s, e.start, e.len) IN OnText(Cut)

\* The subexpressions of an expression.
Children(e) ==
    CASE e.k \in {"compare", "distinct", "+", "/"} -> {e.l, e.r}
      [] e.k \in {"and", "or"} -> {e.args[i] : i \in DOMAIN e.args}
      [] e.k = "in" -> {e.x} \cup {e.args[i] : i \in DOMAIN e.args}
      [] e.k = "between" -> {e.x, e.lo, e.hi}
      [] e.k = "case" -> {e.else} \cup UNION {{e.checks[i].when, e.checks[i].then} : i \in DOMAIN e.checks}
      [] e.k \in {"ref", "const", "error"} -> {}
      [] OTHER -> {e.x}

RECURSIVE Parts(_)
Parts(e) == {e} \cup UNION {Parts(c) : c \in Children(e)}

\* A filter DuckDB pushed into the scan of a column; an optional one is a hint.
RECURSIVE SqlFilter(_, _)
SqlFilter(f, v) ==
    CASE f.k = "compare" -> Compare3(f.rel, v, f.v) = TRUE
      [] f.k = "not null" -> v # Null
      [] f.k = "is null" -> v = Null
      [] f.k = "optional" -> TRUE
      [] f.k = "and" -> \A i \in 1 .. Len(f.inner) : SqlFilter(f.inner[i], v)
===============================================================================
