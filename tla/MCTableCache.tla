---------------------------- MODULE MCTableCache ----------------------------
(* TableCache with two tables and three columns in a region of eighteen      *)
(* units, ten of them on the GPU: any two columns fit, all three do not, and *)
(* the sums the scan compares are smaller than what the allocator takes.     *)
EXTENDS TableCache, TLC

CONSTANTS ta, tb, a1, a2, b1

AllTables == {ta, tb}
AllColumns == {a1, a2, b1}
TableOfColumn == [c \in AllColumns |-> IF c = b1 THEN tb ELSE ta]

\* a2 is a VARCHAR column.  Padded to units of two: a1 takes 4, a2 takes 10, b1 takes 8.
Sizes == (a1 :> <<1, 1>>) @@ (a2 :> <<2, 1, 2>>) @@ (b1 :> <<5, 1>>)

ScanOf(s) == [cols |-> s, rowId |-> FALSE]
RowIdScanOf(s) == [cols |-> s, rowId |-> TRUE]

\* Two columns of one table, and a join whose second scan may evict the first, and
\* whose first, with a row id, may evict or be refused at any time.
MixedQueries ==
    {<<ScanOf(<<a2, a1>>)>>, <<RowIdScanOf(<<b1>>), ScanOf(<<a2>>)>>}

\* Two columns that fit one at a time, in a region that cannot hold both.
LargeSizes == (a1 :> <<7, 1>>) @@ (a2 :> <<1, 1, 2>>) @@ (b1 :> <<9, 1>>)
LargeQueries == {<<ScanOf(<<b1>>), ScanOf(<<a1>>)>>}
=============================================================================
