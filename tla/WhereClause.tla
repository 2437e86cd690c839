----------------------------- MODULE WhereClause -----------------------------
(* A WHERE clause over one table: what DuckDB pushed into the scan is tested    *)
(* by GPUPhysicalTableScan in one kernel whose blocks claim places in the       *)
(* row ids with an atomic add, the rest by GPUPhysicalFilter, which evaluates   *)
(* the expression on the rows that are left and selects by the mask's bytes.    *)
EXTENDS ExpressionExecutor

CONSTANTS Families,         \* sets of queries [table, pushed, where, cudf, signed]; a
                            \* table is a sequence of rows, a row one of values
          NoWhere,          \* no filter operator above the scan
          BlockThreads,     \* threads of a scan block (BLOCK_THREADS)
          ItemsPerThread    \* rows of a thread (ITEMS_PER_THREAD)

VARIABLES input,        \* the query and the table
          pc,           \* what runs: "scan", "kernel", "filter", "select", "done", "thrown"
          block,        \* per block of the kernel: what it did, and where its rows go
          count,        \* the kernel's counter
          row_ids,      \* the rows the scan keeps, in the order their places were claimed
          mask,         \* the expression's column over those rows
          kept          \* the rows of the answer
vars == <<input, pc, block, count, row_ids, mask, kept>>

N == Len(input.table)
Tile == BlockThreads * ItemsPerThread
Blocks == 0 .. ((N + Tile - 1) \div Tile) - 1

-----------------------------------------------------------------------------
(* The pushed filters: per column one filter, of which the scan knows           *)
(* comparisons with constants, and conjunctions of them with IS NOT NULL and    *)
(* optional filters, which it skips.                                            *)

Members(f) == IF f.k = "and" THEN f.inner ELSE <<f>>

Known(f) == IF f.k = "and" THEN {"compare", "not null", "optional"} ELSE {"compare", "optional"}

Unsupported == \E p \in ToSet(input.pushed) :
                  \E m \in ToSet(Members(p.filter)) : m.k \notin Known(p.filter)

\* The comparisons the kernel evaluates.
Expressions ==
    UNION {{[col |-> p.col, f |-> m] : m \in {x \in ToSet(Members(p.filter)) : x.k = "compare"}} :
           p \in ToSet(input.pushed)}

\* char is signed on x86: codes from 128 on are negative.
Char(c) == IF input.signed /\ c >= 128 THEN c - 256 ELSE c

\* Order of strings: by the first different character, else by the lengths.
StringHolds(rel, s, t) ==
    LET n == Min({Len(s), Len(t)})
        Differ == {j \in 1 .. n : s[j] # t[j]}
        j == Min(Differ)
    IN  CASE rel = "=" -> s = t
          [] rel = "<>" -> s # t
          [] rel \in {">", ">="} ->
               IF Differ # {} THEN Char(s[j]) > Char(t[j])
               ELSE Len(s) > n \/ (rel = ">=" /\ Len(s) = n)
          [] rel \in {"<", "<="} ->
               IF Differ # {} THEN Char(s[j]) < Char(t[j])
               ELSE Len(s) < n \/ (rel = "<=" /\ Len(s) = n)

\* One comparison on one row; a NULL on either side fails it.
Passes(x, r) ==
    LET v == input.table[r][x.col]
    IN  /\ v # Null /\ x.f.v # Null
        /\ IF x.f.text THEN StringHolds(x.f.rel, v, x.f.v) ELSE Holds(x.f.rel, v, x.f.v)

\* Whether the first expression alone decides.
SelectedByOne(r) == \E x \in Expressions : Passes(x, r)

Selected(r) == \A x \in Expressions : Passes(x, r)

\* The rows of a block in the order its threads write them, each its own items.
RowsOf(b) ==
    LET Row(k) == b * Tile + ((k - 1) \div ItemsPerThread)
                           + ((k - 1) % ItemsPerThread) * BlockThreads + 1
    IN  SelectSeq([k \in 1 .. Tile |-> Row(k)], LAMBDA r : r <= N /\ Selected(r))

-----------------------------------------------------------------------------
Init ==
    /\ \E F \in Families : input \in F
    /\ pc = "scan"
    /\ block = [b \in Blocks |-> [state |-> "todo", at |-> 0]]
    /\ count = 0
    /\ row_ids = <<>>
    /\ mask = <<>>
    /\ kept = <<>>

Throw ==
    /\ pc' = "thrown"
    /\ UNCHANGED <<input, block, count, row_ids, mask, kept>>

\* GetData reads the filters: without comparisons there are no row ids and every
\* row is kept; with them the kernel starts, unless the table is empty.
ScanTable ==
    /\ pc = "scan"
    /\ IF Unsupported THEN Throw
       ELSE /\ IF Expressions = {} \/ N = 0
               THEN pc' = "filter" /\ row_ids' = [r \in 1 .. N |-> r]
               ELSE pc' = "kernel" /\ row_ids' = [r \in 1 .. N |-> 0]
            /\ UNCHANGED <<input, block, count, mask, kept>>

\* A block that reads the counter and stores it back: places are shared.
ClaimShared(b) ==
    /\ pc = "kernel" /\ block[b].state = "todo"
    /\ block' = [block EXCEPT ![b] = [state |-> "claimed", at |-> count]]
    /\ count' = Max({count, Len(RowsOf(b))})
    /\ UNCHANGED <<input, pc, row_ids, mask, kept>>

\* The block's last thread adds the block's rows to the counter.
Claim(b) ==
    /\ pc = "kernel" /\ block[b].state = "todo"
    /\ block' = [block EXCEPT ![b] = [state |-> "claimed", at |-> count]]
    /\ count' = count + Len(RowsOf(b))
    /\ UNCHANGED <<input, pc, row_ids, mask, kept>>

\* The block's threads write their rows behind that place.
Write(b) ==
    /\ pc = "kernel" /\ block[b].state = "claimed"
    /\ row_ids' = [i \in 1 .. N |-> IF i - block[b].at \in DOMAIN RowsOf(b)
                                    THEN RowsOf(b)[i - block[b].at] ELSE row_ids[i]]
    /\ block' = [block EXCEPT ![b].state = "written"]
    /\ UNCHANGED <<input, pc, count, mask, kept>>

\* The host reads the counter when the kernel has ended.
Scanned ==
    /\ pc = "kernel"
    /\ \A b \in Blocks : block[b].state = "written"
    /\ pc' = "filter"
    /\ row_ids' = SubSeq(row_ids, 1, count)
    /\ UNCHANGED <<input, block, count, mask, kept>>

Remaining == [i \in DOMAIN row_ids |-> input.table[row_ids[i]]]

\* The filter's expression over the rows that are left.
Evaluate ==
    /\ pc = "filter"
    /\ IF input.where = NoWhere \/ row_ids = <<>>
       THEN pc' = "done" /\ kept' = row_ids /\ UNCHANGED <<input, block, count, row_ids, mask>>
       ELSE LET col == Execute(input.where, Remaining, input.cudf)
            IN  IF col = Thrown THEN Throw
                ELSE /\ pc' = "select" /\ mask' = col
                     /\ UNCHANGED <<input, block, count, row_ids, kept>>

\* The selection reads the mask's bytes and not its validity: a row whose
\* predicate is NULL goes by whatever byte is there.
Select ==
    /\ pc = "select"
    /\ \E bytes \in [DOMAIN mask -> BOOLEAN] :
          /\ \A i \in DOMAIN mask : mask[i] \in BOOLEAN => bytes[i] = mask[i]
          /\ LET chosen == SelectSeq([i \in DOMAIN mask |-> i], LAMBDA i : bytes[i])
             IN  kept' = [i \in DOMAIN chosen |-> row_ids[chosen[i]]]
    /\ pc' = "done"
    /\ UNCHANGED <<input, block, count, row_ids, mask>>

Next ==
    \/ ScanTable \/ Scanned \/ Evaluate \/ Select
    \/ \E b \in Blocks : Claim(b) \/ Write(b)

Spec == Init /\ [][Next]_vars
-----------------------------------------------------------------------------
(* Where the code departs from SQL, as it stands.                               *)

MatchesPushed(r) == \A p \in ToSet(input.pushed) : SqlFilter(p.filter, input.table[r][p.col])

\* IS NOT NULL is skipped, and no comparison on the column stands in for it.
NullsSkipped(r) ==
    \E p \in ToSet(input.pushed) :
       /\ input.table[r][p.col] = Null
       /\ p.filter.k = "and" /\ \A m \in ToSet(p.filter.inner) : m.k # "compare"

\* A string that the constant extends: the code takes it for not less than the
\* constant, and for greater or equal.  Codes from 128 on are out of order.
Misordered(r) ==
    \E x \in {y \in Expressions : y.f.text /\ y.f.rel \notin {"=", "<>"}} :
       LET v == input.table[r][x.col] IN
       /\ v # Null /\ x.f.v # Null
       /\ \/ v # x.f.v /\ IsPrefixOf(v, x.f.v)
          \/ input.signed /\ \E c \in ToSet(v) \cup ToSet(x.f.v) : c >= 128

Border(term) == \E k \in 1 .. Len(term) - 1 : IsPrefixOf(SubSeq(term, k + 1, Len(term)), term)

\* The patterns and columns the kernels of this repository answer exactly: no
\* anchors, terms of one length, of which only the first may overlap itself, and
\* no empty rows.
Answered(e) ==
    \/ e.k \notin {"like", "contains"}
    \/ input.cudf
    \/ /\ e.k = "like" =>
            /\ ~e.pattern.from /\ ~e.pattern.to
            /\ \A i \in 2 .. Len(e.pattern.terms) :
                  Len(e.pattern.terms[i]) = Len(e.pattern.terms[1]) /\ ~Border(e.pattern.terms[i])
       /\ \A i \in DOMAIN row_ids : Sql(e.x, Remaining[i]) # <<>>

ConstantNotIn(e) == e.k = "in" /\ e.neg /\ \A i \in DOMAIN e.args : e.args[i].k = "const"

\* Expressions the executor evaluates as SQL does on rows without NULL and 0.
Faithful == \A e \in Parts(input.where) : Answered(e) /\ ~ConstantNotIn(e)

Plain(row) == {Null, <<0>>} \cap ToSet(row) = {}

HasNullConstant == \E e \in Parts(input.where) : e.k = "const" /\ e.v = Null

-----------------------------------------------------------------------------
(* Properties.                                                                  *)

\* In whatever order the blocks claim and write their places, the scan's row ids
\* name each row that passes the pushed filters once and no other
\* (GPUPhysicalTableScan::GetData, table_scan_expression).
ScanKeepsMatches ==
    pc \in {"filter", "select", "done"} =>
        /\ IsInjective(row_ids)
        /\ \A r \in 1 .. N : ~NullsSkipped(r) /\ ~Misordered(r) =>
              (r \in ToSet(row_ids) <=> MatchesPushed(r))

\* On rows without NULL and 0 every expression has SQL's value, whichever other
\* rows the column has (GpuExpressionExecutor::Execute).
ValuesAreSql ==
    pc = "select" /\ Faithful /\ ~HasNullConstant =>
        \A i \in DOMAIN mask : Plain(Remaining[i]) => mask[i] = Sql(input.where, Remaining[i])

\* With NULLs cuDF's AND and OR may lose a truth value, but no expression turns
\* TRUE into FALSE or back, unless something tests for NULL above them.
NullsHideButNeverFlip ==
    pc = "select" /\ Faithful /\ input.cudf /\ ~HasNullConstant =>
        \A i \in DOMAIN mask :
            \/ mask[i] \in {Null, Sql(input.where, Remaining[i])}
            \/ <<0>> \in ToSet(Remaining[i])
            \/ \E e \in Parts(input.where) : \/ e.k \in {"is null", "is not null"} /\ e.x.k # "ref"
                                             \/ e.k = "case"

\* The rows of the answer are the rows of the table that the pushed filters and
\* the WHERE clause accept, each once; a row with a NULL or a 0 may be there or not.
AnswerIsWhere ==
    pc = "done" /\ (input.where = NoWhere \/ (Faithful /\ ~HasNullConstant)) =>
        /\ IsInjective(kept)
        /\ \A r \in 1 .. N : Plain(input.table[r]) /\ ~Misordered(r) =>
              (r \in ToSet(kept) <=> /\ MatchesPushed(r)
                                    /\ \/ input.where = NoWhere
                                       \/ Sql(input.where, input.table[r]) = TRUE)
===============================================================================
