---------------------------- MODULE StringKernels ----------------------------
(* The string matching kernels the expression executor launches when it is     *)
(* built without cuDF's (Config::USE_CUDF_EXPR).  The rows' characters lie end  *)
(* to end; each block of threads takes a chunk of them and each thread a piece  *)
(* of the chunk, with an overlap so that a match that crosses pieces is seen.   *)
(* The operators here say what one thread of one launch finds.                  *)
EXTENDS Integers, Sequences, SequencesExt, FiniteSetsExt

CONSTANTS Chars,        \* character codes
          ChunkSize,    \* characters of a block (CHUNK_SIZE)
          Threads       \* threads of a block (THREADS_PER_BLOCK_STRINGS)

ASSUME KernelAssumption == ChunkSize \in Nat \ {0} /\ Threads \in Nat \ {0}

\* The automaton of a term: row j + 1 gives the state after j characters match.
Automaton(term) ==
    LET start == [c \in Chars |-> IF c = term[1] THEN 1 ELSE 0]
        Extend(acc, j) ==
            [rows |-> Append(acc.rows, [acc.rows[acc.x + 1] EXCEPT ![term[j + 1]] = j + 1]),
             x |-> acc.rows[acc.x + 1][term[j + 1]]]
    IN  FoldLeft(Extend, [rows |-> <<start>>, x |-> 0], [j \in 1 .. Len(term) - 1 |-> j]).rows

\* Where the row after the first n of texts begins.
Offset(texts, n) == Len(FlattenSeq(SubSeq(texts, 1, n)))

Bytes(texts) == Offset(texts, Len(texts))

ThreadsOf(texts) ==
    (0 .. ((Bytes(texts) + ChunkSize - 1) \div ChunkSize) - 1) \X (0 .. Threads - 1)

\* The row that holds character i, found by the binary search and the walk from
\* the chunk's row.
RowAt(texts, i) == CHOOSE r \in 1 .. Len(texts) : Offset(texts, r - 1) <= i /\ i < Offset(texts, r)

\* Without the overlap a match across two pieces belongs to no thread.
PieceAlone(texts, thread, size) ==
    LET sub == (ChunkSize + Threads - 1) \div Threads
        from == Min({thread[1] * ChunkSize + thread[2] * sub, Bytes(texts) - 1})
    IN  from .. Min({from + sub - 1, Bytes(texts) - 1})

\* The characters a thread reads, the overlap with the next piece included.
Piece(texts, thread, size) ==
    LET last == Bytes(texts) - 1
        sub == (ChunkSize + Threads - 1) \div Threads
        chunk == Min({thread[1] * ChunkSize, last})
        chunk_end == Min({chunk + ChunkSize + size, last})
        from == Min({chunk + thread[2] * sub, chunk_end})
    IN  from .. Min({from + sub + size, chunk_end})

\* The rows a thread reports with the position each match ends at.  The thread
\* moves on by one row whenever it is past the end of its row.
Hits(texts, term, thread) ==
    LET piece == Piece(texts, thread, Len(term))
        from == Min(piece)
        chars == FlattenSeq(texts)
        dfa == Automaton(term)
        Read(acc, i) ==
            LET next == i >= Offset(texts, acc.row)
                row == IF next THEN acc.row + 1 ELSE acc.row
                state == dfa[(IF next THEN 0 ELSE acc.state) + 1][chars[i + 1]]
                hit == state >= Len(term)
            IN  [row |-> row, state |-> IF hit THEN 0 ELSE state,
                 hits |-> IF hit THEN acc.hits \cup {<<row, i>>} ELSE acc.hits]
    IN  FoldLeft(Read, [row |-> RowAt(texts, from), state |-> 0, hits |-> {}],
                 [k \in 1 .. Max(piece) - from + 1 |-> from + k - 1]).hits

AllHits(texts, term) == UNION {Hits(texts, term, thread) : thread \in ThreadsOf(texts)}

\* CONTAINS: the rows that any thread reports.
ContainsRows(texts, term) == {hit[1] : hit \in AllHits(texts, term)}

\* Where the next term may be found in a row whose current term ends at hit.
NextFrom(hit, term) == hit[2] + Len(term)

\* A launch for the next term: a hit counts from the row's threshold on, and the
\* threads' atomic minimum leaves the row's next threshold; a row without a hit
\* gets one past the last character.
Pass(acc, texts, term) ==
    LET hits == {hit \in AllHits(texts, term) : hit[2] >= acc.from[hit[1]]}
    IN  [found |-> {hit[1] : hit \in hits},
         from |-> [r \in DOMAIN texts |->
                     Min({Bytes(texts)} \cup {NextFrom(hit, term) : hit \in {h \in hits : h[1] = r}})]]

\* LIKE: the rows in which the last term was found, each term after the one before.
LikeRows(texts, terms) ==
    LET Launch(acc, term) == Pass(acc, texts, term)
        start == [found |-> {}, from |-> [r \in DOMAIN texts |-> Offset(texts, r - 1)]]
    IN  FoldLeft(Launch, start, terms).found

\* Whether a row starts with a prefix.
PrefixMatches(text, prefix) ==
    /\ Len(text) >= Len(prefix)
    /\ \A j \in 1 .. Len(prefix) : text[j] = prefix[j]

\* The part of a row that a substring keeps, by the two kernels' offsets.
SubstringRow(text, start, len) ==
    LET from == Min({start - 1, Len(text)})
        to == Min({from + len, Len(text)})
    IN  SubSeq(text, from + 1, to)
===============================================================================
