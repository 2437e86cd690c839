-------------------------------- MODULE MCTopN --------------------------------
(* What the sorts of MCOperators are given.                                      *)
EXTENDS Integers, Sequences

CONSTANTS MaxRows, Null

Column(type, values) == [type |-> type, values |-> values]

AnyOf(S, most) == UNION {[1 .. n -> S] : n \in 0 .. most}
Key(col, desc) == [col |-> col, desc |-> desc]
Sort(topn, keys, limit, offset, batches) ==
    [topn |-> topn, keys |-> keys, projections |-> [c \in DOMAIN batches[1] |-> c], limit |-> limit, offset |-> offset, batches |-> batches]

\* One column of strings that agree on their first byte, or only where zeros fill up.
Strings == {<<>>, <<0>>, <<1>>, <<1, 0>>, <<1, 1>>, <<2>>}
StringTops ==
    {Sort(TRUE, <<Key(1, desc)>>, limit, offset, <<<<Column("VARCHAR", values)>>>>) :
        desc \in BOOLEAN, limit \in 0 .. 3, offset \in 0 .. 1,
        values \in AnyOf(Strings, 3) \cup [1 .. 4 -> {<<1>>, <<1, 1>>, <<2>>, Null}]}

\* A number and a string with NULLs, either or both as keys, or an expression; one row
\* more than cuDF can count.
KeyLists ==
    {<<Key(c, d)>> : c \in {1, 2, 3}, d \in BOOLEAN}
    \cup {<<Key(c, d), Key(3 - c, e)>> : c \in {1, 2}, d \in BOOLEAN, e \in BOOLEAN}
Tables ==
    UNION {{<<Column("INT32", x), Column("VARCHAR", s)>> :
        x \in [1 .. n -> {-1, 2, Null}], s \in [1 .. n -> {<<>>, <<1, 1>>, Null}]} : n \in 0 .. 2}
    \cup {<<Column("INT32", x), Column("VARCHAR", s)>> :
            x \in [1 .. 3 -> {1, 2}], s \in {<< <<2>>, <<1>>, Null >>, << <<1>>, <<1>>, <<2>> >>}}
    \cup {<<Column("INT32", [r \in 1 .. MaxRows + 1 |-> r]), Column("VARCHAR", [r \in 1 .. MaxRows + 1 |-> <<r>>])>>}
Sorts ==
    {[Sort(FALSE, keys, 0, 0, <<table>>) EXCEPT !.projections = projections] :
        keys \in KeyLists, table \in Tables, projections \in {<<1, 2>>, <<2>>}}
    \cup {Sort(TRUE, keys, limit, offset, <<table>>) :
            keys \in KeyLists, limit \in 0 .. 2, offset \in 0 .. 2, table \in Tables}

\* Matched rows, then unmatched ones without their left column.
Joined ==
    {Sort(topn, <<Key(c, FALSE)>>, 2, 0, <<first, second>>) :
        topn \in BOOLEAN, c \in {1, 2},
        first \in {t \in Tables : Len(t[1].values) <= 1},
        second \in {<<Column("INT32", x), Column("VARCHAR", s)>> :
                      x \in {<<>>, <<3>>, <<1>>}, s \in {<<>>, << <<1>> >>}}}

SortFamilies == {StringTops, Sorts, {j \in Joined : j.batches[2][2].values # <<>> \/ j.batches[2][1].values = <<>>}}
===============================================================================
