-------------------------- MODULE MCResultCollector --------------------------
(* Relations of two columns of every kind, stored or late materialised, whose  *)
(* rows need up to two vectors of two rows.                                    *)
EXTENDS ResultCollector

SeqsUpTo(S, n) == UNION {[1 .. k -> S] : k \in 0 .. n}

Domain(kind) ==
    IF kind = "string" THEN {"a", "long1", "long2", Null}
    ELSE IF kind = "wide" THEN {"-1", "7", Null} ELSE {"x", "y", Null}

\* Bases a few values long; late ones select up to three rows of two values.
StoredColumns(kind) ==
    {[kind |-> kind, base |-> b, rows |-> Stored] : b \in SeqsUpTo(Domain(kind), 3)}
LateColumns(kind) ==
    {[kind |-> kind, base |-> b, rows |-> r] :
        b \in [1 .. 2 -> Domain(kind)], r \in SeqsUpTo(1 .. 2, 3)}

Columns(kind) == StoredColumns(kind) \cup LateColumns(kind)

Refusable == {[kind |-> "unsupported", base |-> b, rows |-> Stored] : b \in SeqsUpTo({"x"}, 3)}

\* Every pair of kinds, the columns of a pair as long as each other.
PairsOf(A, B) ==
    UNION {{<<a, b>> : a \in {x \in A : ColumnLen(x) = n}, b \in {y \in B : ColumnLen(y) = n}}
             : n \in 0 .. 3}

SomeStrings == {c \in Columns("string") : Late(c) => c.base \in {<<"a", "long1">>, <<"long1", Null>>, <<"long1", "long2">>}}
SomeFixed == {c \in Columns("fixed") : Late(c) => c.base = <<"x", Null>>}
SomeWide == {[kind |-> "wide", base |-> b, rows |-> Stored] : b \in SeqsUpTo({"-1", "7", Null}, 2)}

MCRelations ==
    PairsOf(SomeStrings, SomeStrings) \cup PairsOf(SomeStrings, SomeFixed)
    \cup PairsOf(SomeFixed, SomeStrings) \cup PairsOf(SomeWide, SomeStrings)
    \cup PairsOf(SomeFixed, Refusable)
===============================================================================
