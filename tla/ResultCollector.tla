---------------------------- MODULE ResultCollector ----------------------------
(* GPUPhysicalMaterializedCollector::Sink: the relation a plan produced is     *)
(* gathered column by column, copied into the host arena in the form DuckDB    *)
(* reads, and cut into chunks of STANDARD_VECTOR_SIZE rows that only point     *)
(* into that arena; GetNext gives the chunks out.                              *)
(* One cell of the arena stands for one aligned unit of the code: a string_t,  *)
(* the characters of one string, a pointer, a fixed-width value, or the        *)
(* validity bit of one row.                                                    *)
EXTENDS Integers, Sequences, SequencesExt, FiniteSetsExt

CONSTANTS
    Relations,   \* the relations a plan may hand to the collector
    HostCells,   \* cells of the host arena left for the collector
    VectorSize   \* STANDARD_VECTOR_SIZE

(* A column: its kind, the values stored, and the row ids that select from     *)
(* them when it is not materialised yet (row_ids = nullptr is Stored).         *)
Null == "NULL"
Stored == <<0>>
Kinds == {"fixed", "wide", "string", "unsupported"}
Long == {"long1", "long2"}  \* strings longer than string_t::INLINE_LENGTH

ASSUME CollectorAssumption ==
    /\ VectorSize \in Nat \ {0} /\ HostCells \in Nat
    /\ \A rel \in Relations : \A c \in DOMAIN rel :
          rel[c].kind \in Kinds /\ (rel[c].rows # Stored =>
             \A i \in DOMAIN rel[c].rows : rel[c].rows[i] \in DOMAIN rel[c].base)

VARIABLES
    input,    \* input_relation
    mem,      \* what each cell of the host arena holds
    top,      \* cpuProcessingPointer
    col,      \* the column the loop is at
    heap,     \* all_columns_string, host_data, host_mask_data, duckdb_strings
    strAt,    \* curr_column_string_buffer
    charAt,   \* curr_column_chars_buffer
    chunks,   \* result_collection
    pc        \* "reserve", "columns", "chunks", "done", "refused"

vars == <<input, mem, top, col, heap, strAt, charAt, chunks, pc>>

-------------------------------------------------------------------------------
(* Cells *)
Cell(is, at, v) == [is |-> is, at |-> at, v |-> v]
Junk == Cell("junk", 0, "")
Pointer(a) == Cell("pointer", a, "")
Value(v) == Cell("value", 0, v)
Chars(v) == Cell("chars", 0, v)
Bit(v) == Cell("bit", 0, IF v = Null THEN "0" ELSE "1")

\* What is read through a pointer: DuckDB trusts it.
At(p, i) ==
    IF p.is = "pointer" /\ p.at + i \in DOMAIN mem THEN mem[p.at + i] ELSE Junk

\* m with the cells from a on overwritten by s, in the arena or past it.
Written(m, a, s) ==
    [x \in DOMAIN m |-> IF x \in a .. a + Len(s) - 1 THEN s[x - a + 1] ELSE m[x]]

-------------------------------------------------------------------------------
(* The columns *)
Late(c) == c.rows # Stored
ColumnLen(c) == IF Late(c) THEN Len(c.rows) ELSE Len(c.base)

\* What a relation means: the values of a column, row by row.
ValuesOf(c) == [i \in 1 .. ColumnLen(c) |-> IF Late(c) THEN c.base[c.rows[i]] ELSE c.base[i]]

\* materializeExpression and materializeString gather the rows selected.
Gathered(c) == [i \in 1 .. ColumnLen(c) |-> IF Late(c) THEN c.base[c.rows[i]] ELSE c.base[i]]

\* convertInt64ToInt128 and its siblings: the upper half is zero.
Widened(v) == IF v = "-1" THEN "18446744073709551615" ELSE v

HostValues(c) == [i \in 1 .. ColumnLen(c) |->
    Value(IF c.kind = "wide" THEN Widened(Gathered(c)[i]) ELSE Gathered(c)[i])]
HostMask(c) == [i \in 1 .. ColumnLen(c) |-> Bit(Gathered(c)[i])]

\* The characters of a sequence of strings: a NULL has none.
CharsOf(s) == SelectSeq(s, LAMBDA v : v # Null)
CharOffset(s, i) == Len(CharsOf(SubSeq(s, 1, i - 1)))

\* create_cpu_strings: a short string is inlined, a long one is a pointer into
\* the characters copied to the host.
HostStrings(s, chars) == [i \in DOMAIN s |->
    IF s[i] \in Long THEN Pointer(chars + CharOffset(s, i)) ELSE Value(s[i])]
HostChars(s) == [i \in DOMAIN CharsOf(s) |-> Chars(CharsOf(s)[i])]

StringColumns == {c \in DOMAIN input : input[c].kind = "string"}

-------------------------------------------------------------------------------
(* Sink *)
Init ==
    /\ input \in Relations
    /\ mem = [a \in 0 .. HostCells - 1 |-> Junk]
    /\ top = 0 /\ col = 1 /\ strAt = 0 /\ charAt = 0
    /\ heap = [data |-> 0, mask |-> 0, strings |-> 0]
    /\ chunks = <<>> /\ pc = "reserve"

\* customCudaHostAlloc throws; what was allocated before stays allocated.
Refuse == pc' = "refused" /\ UNCHANGED <<input, mem, top, col, heap, strAt, charAt, chunks>>

NumStrings(c) == Len(input[c].base)
NumChars(c) == Len(CharsOf(input[c].base))

\* Faulty variant: the characters are not counted.
ReserveStrings ==
    LET strings == MapThenSumSet(NumStrings, StringColumns)
        cols == Len(input)
    IN  /\ pc = "reserve"
        /\ IF strings + 3 * cols > HostCells THEN Refuse
           ELSE /\ heap' = [data |-> strings, mask |-> strings + cols, strings |-> strings + 2 * cols]
                /\ top' = strings + 3 * cols /\ strAt' = 0 /\ charAt' = strings
                /\ pc' = "columns" /\ UNCHANGED <<input, mem, col, chunks>>

\* One buffer for the string_t and the characters of every VARCHAR column, sized
\* by what is stored, then the three arrays of pointers, one cell per column.
Reserve ==
    LET strings == MapThenSumSet(NumStrings, StringColumns)
        both == strings + MapThenSumSet(NumChars, StringColumns)
        cols == Len(input)
    IN  /\ pc = "reserve"
        /\ IF both + 3 * cols > HostCells THEN Refuse
           ELSE /\ heap' = [data |-> both, mask |-> both + cols, strings |-> both + 2 * cols]
                /\ top' = both + 3 * cols /\ strAt' = 0 /\ charAt' = strings
                /\ pc' = "columns" /\ UNCHANGED <<input, mem, col, chunks>>

Column == input[col]

\* "Just return when there is an empty column": no chunk is made.
EmptyColumn ==
    /\ pc = "columns" /\ col <= Len(input) /\ ColumnLen(Column) = 0
    /\ pc' = "done" /\ UNCHANGED <<input, mem, top, col, heap, strAt, charAt, chunks>>

\* FinalMaterialize, or the INT128 conversion, throws.
UnsupportedColumn ==
    /\ pc = "columns" /\ col <= Len(input) /\ ColumnLen(Column) > 0
    /\ Column.kind = "unsupported" /\ Refuse

\* A fixed-width column: its values, then its mask, each in a new allocation.
FixedColumn ==
    LET n == ColumnLen(Column)
        m1 == Written(mem, heap.data + col - 1, <<Pointer(top)>>)
        m2 == Written(m1, top, HostValues(Column))
        m3 == Written(m2, heap.mask + col - 1, <<Pointer(top + n)>>)
    IN  /\ pc = "columns" /\ col <= Len(input) /\ n > 0
        /\ Column.kind \in {"fixed", "wide"}
        /\ IF top + 2 * n > HostCells THEN Refuse
           ELSE /\ mem' = Written(m3, top + n, HostMask(Column))
                /\ top' = top + 2 * n /\ col' = col + 1
                /\ UNCHANGED <<input, heap, strAt, charAt, chunks, pc>>

\* Faulty variant: the buffer pointers are not advanced past the column.
StringColumnInPlace ==
    LET s == Gathered(Column)
        n == ColumnLen(Column)
        base == top + (IF Late(Column) THEN 1 ELSE 0)
        m1 == Written(mem, charAt, HostChars(s))
        m2 == Written(m1, strAt, HostStrings(s, charAt))
        m3 == Written(m2, heap.strings + col - 1, <<Pointer(strAt)>>)
        m4 == Written(m3, heap.mask + col - 1, <<Pointer(base)>>)
    IN  /\ pc = "columns" /\ col <= Len(input) /\ n > 0 /\ Column.kind = "string"
        /\ IF base + n > HostCells THEN Refuse
           ELSE /\ mem' = Written(m4, base, HostMask(Column))
                /\ top' = base + n /\ col' = col + 1
                /\ UNCHANGED <<input, heap, strAt, charAt, chunks, pc>>

\* A string column: a late one allocates the cell of its new size first; its
\* characters and its string_t go to the shared buffer, wherever that ends.
StringColumn ==
    LET s == Gathered(Column)
        n == ColumnLen(Column)
        base == top + (IF Late(Column) THEN 1 ELSE 0)
        m1 == Written(mem, charAt, HostChars(s))
        m2 == Written(m1, strAt, HostStrings(s, charAt))
        m3 == Written(m2, heap.strings + col - 1, <<Pointer(strAt)>>)
        m4 == Written(m3, heap.mask + col - 1, <<Pointer(base)>>)
    IN  /\ pc = "columns" /\ col <= Len(input) /\ n > 0 /\ Column.kind = "string"
        /\ IF base + n > HostCells THEN Refuse
           ELSE /\ mem' = Written(m4, base, HostMask(Column))
                /\ top' = base + n /\ col' = col + 1
                /\ strAt' = strAt + n /\ charAt' = charAt + Len(HostChars(s))
                /\ UNCHANGED <<input, heap, chunks, pc>>

StartChunks ==
    /\ pc = "columns" /\ col > Len(input)
    /\ pc' = "chunks" /\ UNCHANGED <<input, mem, top, col, heap, strAt, charAt, chunks>>

\* The chunks take their number of rows from the first column.
NumRecords == ColumnLen(input[1])
Remaining == NumRecords - VectorSize * Len(chunks)

Shifted(p, n) == IF p.is = "pointer" THEN Pointer(p.at + n) ELSE Junk

\* A chunk points at its rows of every column, and at the whole mask.
ChunkOf(vec) ==
    [c \in DOMAIN input |->
        [data |-> Shifted(mem[(IF input[c].kind = "string" THEN heap.strings ELSE heap.data)
                              + c - 1], VectorSize * vec),
         mask |-> mem[heap.mask + c - 1]]]

\* SetCapacity and the loop over the vectors: chunks of at most VectorSize rows.
AddChunk ==
    /\ pc = "chunks"
    /\ IF Remaining > 0
       THEN chunks' = Append(chunks, [size |-> Min({Remaining, VectorSize}),
                                      columns |-> ChunkOf(Len(chunks))])
            /\ UNCHANGED pc
       ELSE pc' = "done" /\ UNCHANGED chunks
    /\ UNCHANGED <<input, mem, top, col, heap, strAt, charAt>>

Next ==
    \/ Reserve \/ EmptyColumn \/ UnsupportedColumn \/ FixedColumn \/ StringColumn
    \/ StartChunks \/ AddChunk

Spec == Init /\ [][Next]_vars

-------------------------------------------------------------------------------
(* What DuckDB reads in a chunk *)
Read(c, p, i) ==
    LET valid == At(p.mask, i) cell == At(p.data, i)
    IN  IF valid.is # "bit" THEN "garbage"
        ELSE IF valid.v = "0" THEN Null
        ELSE IF cell.is = "value" THEN cell.v
        ELSE IF c.kind = "string" /\ At(cell, 0).is = "chars" THEN At(cell, 0).v
        ELSE "garbage"

RowsOf(chunk) == [i \in 1 .. chunk.size |->
    [c \in DOMAIN input |-> Read(input[c], chunk.columns[c], i - 1)]]
Answer == FlattenSeq([k \in DOMAIN chunks |-> RowsOf(chunks[k])])

\* The rows the relation stands for.
Expected == [r \in 1 .. NumRecords |-> [c \in DOMAIN input |-> ValuesOf(input[c])[r]]]

-------------------------------------------------------------------------------
(* The cases the code is not ready for *)

\* A NULL in a relation that needs more than one vector.
NullsSpread ==
    /\ NumRecords > VectorSize
    /\ \E c \in DOMAIN input : Null \in ToSet(ValuesOf(input[c]))

\* Row ids of a join select more strings, or more characters, than are stored.
Outgrown ==
    LET strings(c) == ColumnLen(input[c])
        chars(c) == Len(CharsOf(ValuesOf(input[c])))
    IN  \/ MapThenSumSet(strings, StringColumns) > MapThenSumSet(NumStrings, StringColumns)
        \/ MapThenSumSet(chars, StringColumns) > MapThenSumSet(NumChars, StringColumns)

\* A negative integer in a column DuckDB reads as HUGEINT.
NegativeHuge ==
    \E c \in DOMAIN input : input[c].kind = "wide" /\ "-1" \in ToSet(ValuesOf(input[c]))

-------------------------------------------------------------------------------
\* An answer given in full is the relation, row by row and column by column:
\* every chunk reads its own rows, NULLs included, and no column's cells were
\* written over by another's. Sink promises it except for the three cases above.
AnswerIsRelation ==
    (pc = "done" /\ ~NullsSpread /\ ~Outgrown /\ ~NegativeHuge) => Answer = Expected

\* The pointers Sink stored in host_data, host_mask_data and duckdb_strings for
\* the columns it has done are still pointers.
PointersAreIntact ==
    pc \in {"columns", "chunks", "done"} => \A c \in 1 .. col - 1 :
        /\ mem[heap.mask + c - 1].is = "pointer"
        /\ mem[(IF input[c].kind = "string" THEN heap.strings ELSE heap.data) + c - 1].is = "pointer"

\* They are as long as no string column outgrows the buffer reserved for it.
PointersUnlessOutgrown == ~Outgrown => PointersAreIntact

\* NULLs stay in their rows, whichever vector those rows are in.
NullsStayInTheirRows ==
    (pc = "done" /\ ~Outgrown) => \A r \in DOMAIN Answer : \A c \in DOMAIN input :
        (Answer[r][c] = Null) <=> (Expected[r][c] = Null)
===============================================================================
