------------------------- MODULE LateMaterialization -------------------------
(***************************************************************************)
(* How the columns of a query are kept in the GPU processing pool between  *)
(* its operators.  A GPUColumn is a pointer to data and, when it is late,  *)
(* a pointer to row ids: it then stands for data[row_ids[0]], ...          *)
(* Selecting operators only compose row ids; an operator that needs the    *)
(* values materialises them into a new block and frees the block they were *)
(* in (materializeExpression), although other columns may point into it.   *)
(* Blocks are cached, stored or locked ("kept": freeing them does nothing),*)
(* allocated ("live") or "free"; a freed address may be handed out again   *)
(* while old pointers to it are still around, and a pointer into the       *)
(* middle of a block ("inner") is one the allocation table does not know.  *)
(*                                                                         *)
(* A value is the column it belongs to (tag) and the row of the base table *)
(* it was computed from.  `wanted` is the relation the plan means, to      *)
(* which the relation that the columns denote is compared.                 *)
(***************************************************************************)
EXTENDS Integers, FiniteSets, SequencesExt

CONSTANTS Rows,          \* rows of a cached table
          Columns,       \* columns a scan reads from it
          Scans,         \* [filtered, keep, rowId]: rows a pushed-down filter keeps
          Filters,       \* [refs, keep]: columns a predicate reads, rows it keeps
          Projections,   \* sequences of [pass, refs]: a reference or a computation
          Limits,        \* [n, offset]
          Sorts,         \* [cols, key, n, offset]: n = 0 for ORDER BY, else TOP N
          Aggregates,    \* sequences of the columns groups and aggregates read
          MaxOperators   \* bound: operators of a plan

ASSUME LateMaterializationAssumption ==
    /\ {Rows, Columns, MaxOperators} \subseteq Nat
    /\ Scans \subseteq [filtered : BOOLEAN, keep : SUBSET Nat, rowId : BOOLEAN]
    /\ Filters \subseteq [refs : Seq(Nat) \ {<<>>}, keep : SUBSET Int]
    /\ Projections \subseteq Seq([pass : BOOLEAN, refs : Seq(Nat) \ {<<>>}])
    /\ Limits \subseteq [n : Nat, offset : Nat]
    /\ Sorts \subseteq [cols : Seq(Nat), key : Nat, n : Nat, offset : Nat]
    /\ Aggregates \subseteq Seq(Nat)

VARIABLES pool,      \* the blocks: sequence of [state, tag, rows]
          relation,  \* columns of the intermediate relation
          wanted,    \* what it should hold: sequence of [tag, rows]
          pc, task,  \* what runs, and the operator in hand
          todo, got, \* columns it still materialises, and those it has
          moving,    \* row ids being composed: HandleMaterializeRowIDs
          cte, built, sorted,   \* working table or cached columns, hash table result, sort result
          operators,            \* operators so far
          reread, dropped       \* ghosts: see Excused

vars == <<pool, relation, wanted, pc, task, todo, got, moving, cte, built, sorted,
          operators, reread, dropped>>

Null == 0
Ids == -2        \* tags: row ids, a row id column, a computed column, a mark
RowId == -1
Computed == 100
Mark == 101

Column(data, len) == [data |-> data, ids |-> Null, len |-> len, count |-> 0]
Empty == Column(Null, 0)
Nothing == [cols |-> <<>>, want |-> <<>>, key |-> Empty, keyRows |-> <<>>, once |-> FALSE]
Still == [from |-> <<>>, at |-> Null, moved |-> <<>>, out |-> <<>>, right |-> <<>>, rightAt |-> Null]
Idle == [kind |-> "idle", hands |-> {}]

(* Values *)
Pick(s, ids) == [i \in DOMAIN ids |-> IF ids[i] \in DOMAIN s THEN s[ids[i]] ELSE 0]
Listed(K) == [n \in 1..Cardinality(K) |-> CHOOSE i \in K : Cardinality({j \in K : j < i}) = n - 1]
Positions(s, keep) == Listed({i \in DOMAIN s : s[i] \in keep})
Take(s, n) == SubSeq(s, 1, IF n < Len(s) THEN n ELSE Len(s))
Denotes(p, c) ==
    IF c.data = Null \/ (c.ids # Null /\ c.count = 0) THEN <<>>
    ELSE IF c.ids = Null THEN Take(p[c.data].rows, c.len)
    ELSE Pick(p[c.data].rows, Take(p[c.ids].rows, c.count))
Narrow(want, ids) == [i \in DOMAIN want |-> [want[i] EXCEPT !.rows = Pick(@, ids)]]
Matches(left, right) ==
    [i \in 1..Len(left) * Len(right) |-> <<(i - 1) \div Len(right) + 1, ((i - 1) % Len(right)) + 1>>]
Pairs(left, right) ==
    LET all  == Matches(left, right)
        hits == Listed({k \in DOMAIN all : left[all[k][1]] = right[all[k][2]]})
    IN  [k \in DOMAIN hits |-> all[hits[k]]]
Side(pairs, i) == [j \in DOMAIN pairs |-> pairs[j][i]]
Before(key, i, j) == key[i] < key[j] \/ (key[i] = key[j] /\ i < j)
Order(key) ==
    [n \in DOMAIN key |-> CHOOSE i \in DOMAIN key : Cardinality({j \in DOMAIN key : Before(key, j, i)}) = n - 1]
Page(s, n, offset) == SubSeq(s, offset + 1, IF offset + n < Len(s) THEN offset + n ELSE Len(s))
Slice(s, n, offset) == IF n = 0 THEN s ELSE Page(s, n, offset)

(* The pool: customCudaMalloc, customCudaFree, lockAllocation *)
Places(p) == {a \in DOMAIN p : p[a].state = "free"} \cup {Len(p) + 1}
Put(p, a, state, tag, rows) ==
    LET block == [state |-> state, tag |-> tag, rows |-> rows]
    IN  IF a > Len(p) THEN Append(p, block) ELSE [p EXCEPT ![a] = block]
Known(p, a) == p[a].state \in {"kept", "live"}
FreedAlways(p, a) == [p EXCEPT ![a].state = "free"]   \* faulty: cached blocks too
Freed(p, a) == IF p[a].state = "live" THEN [p EXCEPT ![a].state = "free"] ELSE p
Locked(p, blocks) ==
    [a \in DOMAIN p |-> IF a \in blocks /\ p[a].state = "live" THEN [p[a] EXCEPT !.state = "kept"] ELSE p[a]]

Init ==
    /\ pool = [c \in 1..Columns |-> [state |-> "kept", tag |-> c, rows |-> [r \in 1..Rows |-> r]]]
    /\ relation = <<>> /\ wanted = <<>>
    /\ pc = "source" /\ task = Idle /\ todo = <<>> /\ got = <<>> /\ moving = Still
    /\ cte = Nothing /\ built = Nothing /\ sorted = Nothing
    /\ operators = 0 /\ reread = FALSE /\ dropped = FALSE

-----------------------------------------------------------------------------
(* Sources *)

Starts == pc = "source" /\ operators < MaxOperators /\ operators' = operators + 1 /\ pc' = "ready"

(* A table scan: views of the cached columns, with the row ids of the rows *)
(* that pass its filters, and a row id column if the plan asks for one.    *)
ScanColumns(s, ids, count) == [c \in 1..Columns |-> [data |-> c, ids |-> ids, len |-> Rows, count |-> count]]
TableScan(s) ==
    LET kept == Listed(IF s.filtered THEN {r \in 1..Rows : r \in s.keep} ELSE 1..Rows)
    IN  /\ Starts
        /\ \E a \in Places(pool) :
           \E b \in Places(IF s.filtered THEN Put(pool, a, "live", Ids, kept) ELSE pool) :
             LET ids    == IF s.filtered THEN a ELSE Null
                 count  == IF s.filtered THEN Len(kept) ELSE 0
                 scanned == IF s.filtered THEN Put(pool, a, "live", Ids, kept) ELSE pool
                 cols   == ScanColumns(s, ids, count)
             IN  IF s.rowId
                 THEN /\ pool' = Put(scanned, b, "live", RowId, [r \in 1..Rows |-> r])
                      /\ relation' = Append(cols, [data |-> b, ids |-> ids, len |-> Rows, count |-> count])
                 ELSE pool' = scanned /\ relation' = cols
        /\ wanted' = [c \in 1..(Columns + IF s.rowId THEN 1 ELSE 0) |->
                        [tag |-> IF c > Columns THEN RowId ELSE c, rows |-> kept]]
        /\ UNCHANGED <<task, todo, got, moving, cte, built, sorted, reread, dropped>>

(* A CTE scan hands on the columns of the working table, the scan below a  *)
(* left delim join, once, those the join has cached: data and length, no   *)
(* row ids.                                                                *)
CTEScan ==
    /\ Starts /\ cte # Nothing
    /\ relation' = [i \in DOMAIN cte.cols |-> Column(cte.cols[i].data, cte.cols[i].len)]
    /\ wanted' = cte.want
    /\ dropped' = (dropped \/ \E i \in DOMAIN cte.cols : cte.cols[i].ids # Null)
    /\ cte' = IF cte.once THEN Nothing ELSE cte
    /\ UNCHANGED <<pool, task, todo, got, moving, built, sorted, reread>>

(* The source after an ORDER BY or TOP N: its result. *)
SortScan ==
    /\ Starts /\ sorted # Nothing
    /\ relation' = sorted.cols /\ wanted' = sorted.want /\ sorted' = Nothing
    /\ UNCHANGED <<pool, task, todo, got, moving, cte, built, reread, dropped>>

-----------------------------------------------------------------------------
(* Materialising the columns an operator reads, one after the other *)

Begin(operator, refs) ==
    /\ pc = "ready" /\ operators < MaxOperators /\ operators' = operators + 1
    /\ pc' = "read" /\ task' = operator /\ todo' = refs
    /\ got' = [i \in DOMAIN relation |-> [col |-> Empty, rows |-> <<>>, tag |-> 0]]

(* Columns a later step of the operator in hand, or a later operator, uses. *)
InUse(cols) == {cols[j].data : j \in ToSet(Tail(todo)) \cup task.hands}

Read(at, col, p) ==
    LET cols == IF task.kind = "sort" /\ Len(todo) > 1 THEN [relation EXCEPT ![at] = col] ELSE relation
    IN  /\ relation' = cols
        /\ got' = [got EXCEPT ![at] = [col |-> col, rows |-> Denotes(p, col),
                                       tag |-> IF col.data = Null THEN 0 ELSE p[col.data].tag]]
        /\ todo' = Tail(todo)

NothingToRead(c) == c.data = Null \/ c.len = 0 \/ (c.ids # Null /\ c.count = 0)

(* HandleMaterializeExpression of the next column: a late one is gathered  *)
(* into a new block and the block its values were in is freed.             *)
Materialise ==
    /\ pc = "read" /\ todo # <<>>
    /\ LET at == Head(todo)
           c == relation[at]
       IN  \/ /\ NothingToRead(c)
              /\ Read(at, Empty, pool) /\ UNCHANGED <<pool, pc, reread>>
           \/ /\ ~NothingToRead(c) /\ c.ids = Null
              /\ Read(at, Column(c.data, c.len), pool) /\ UNCHANGED <<pool, pc, reread>>
           \/ /\ ~NothingToRead(c) /\ c.ids # Null
              /\ \E a \in Places(pool) :
                   LET filled == Put(pool, a, "live", pool[c.data].tag, Denotes(pool, c))
                   IN  /\ pool' = Freed(filled, c.data)
                       /\ Read(at, Column(a, c.count), filled)
                       /\ pc' = IF Known(filled, c.data) THEN pc ELSE "thrown"
              /\ reread' = (reread \/ (pool[c.data].state # "kept" /\ c.data \in InUse(relation')))
    /\ UNCHANGED <<wanted, task, moving, cte, built, sorted, operators, dropped>>

HasRead(kind) == pc = "read" /\ todo = <<>> /\ task.kind = kind
EmptyInput == \A i \in DOMAIN relation : (IF relation[i].ids = Null THEN relation[i].len ELSE relation[i].count) = 0

(* HandleMaterializeRowIDs: every column is narrowed to the rows `at`      *)
(* selects; row ids that several columns share are composed once.          *)
NarrowingSwapped(p, cols, at, right, rightAt) ==   \* faulty: left and right row ids swapped
    /\ moving' = [from |-> cols, at |-> IF right = <<>> THEN at ELSE rightAt, moved |-> <<>>, out |-> <<>>,
                  right |-> right, rightAt |-> at]
    /\ pc' = "compose" /\ relation' = relation
Narrowing(p, cols, at, right, rightAt) ==
    IF p[at].rows = <<>>
    THEN /\ relation' = [i \in 1..(Len(cols) + Len(right)) |-> Empty]
         /\ pc' = "ready" /\ moving' = Still
    ELSE /\ moving' = [from |-> cols, at |-> at, moved |-> <<>>, out |-> <<>>, right |-> right, rightAt |-> rightAt]
         /\ pc' = "compose" /\ relation' = relation

MovedAlone(ids, p, moved) ==   \* faulty: shared row ids composed, and freed, once per column
    LET c == Head(moving.from)
    IN  /\ pool' = p
        /\ moving' = [moving EXCEPT !.from = Tail(@),
                                    !.out = Append(@, [c EXCEPT !.ids = ids, !.count = Len(pool[moving.at].rows)])]
Moved(ids, p, moved) ==
    LET c == Head(moving.from)
    IN  /\ pool' = p
        /\ moving' = [moving EXCEPT !.from = Tail(@), !.moved = moved,
                                    !.out = Append(@, [c EXCEPT !.ids = ids, !.count = Len(pool[moving.at].rows)])]

Compose ==
    /\ pc = "compose" /\ moving.from # <<>>
    /\ LET prev == Head(moving.from).ids
           known == moving.moved
       IN  \/ prev = Null /\ Moved(moving.at, pool, known) /\ UNCHANGED pc
           \/ prev \in DOMAIN known /\ Moved(known[prev], pool, known) /\ UNCHANGED pc
           \/ /\ prev # Null /\ prev \notin DOMAIN known
              /\ \E a \in Places(pool) :
                   LET filled == Put(pool, a, "live", Ids, Pick(pool[prev].rows, pool[moving.at].rows))
                   IN  /\ Moved(a, Freed(filled, prev), [b \in DOMAIN known \cup {prev} |-> IF b = prev THEN a ELSE known[b]])
                       /\ pc' = IF Known(filled, prev) THEN pc ELSE "thrown"
    /\ UNCHANGED <<relation, wanted, task, todo, got, cte, built, sorted, operators, reread, dropped>>

Composed ==
    /\ pc = "compose" /\ moving.from = <<>>
    /\ IF moving.right = <<>>
       THEN relation' = moving.out /\ pc' = "ready" /\ moving' = Still
       ELSE /\ moving' = [moving EXCEPT !.from = moving.right, !.at = moving.rightAt, !.moved = <<>>, !.right = <<>>]
            /\ UNCHANGED <<relation, pc>>
    /\ UNCHANGED <<pool, wanted, task, todo, got, cte, built, sorted, operators, reread, dropped>>

-----------------------------------------------------------------------------
(* Operators *)

(* A filter whose input is empty selects nothing and reads nothing. *)
Filter(f) ==
    /\ ToSet(f.refs) \subseteq DOMAIN relation
    /\ IF EmptyInput \/ \E r \in ToSet(f.refs) : relation[r].data = Null
       THEN /\ pc = "ready" /\ operators < MaxOperators /\ operators' = operators + 1
            /\ relation' = [i \in DOMAIN relation |-> Empty]
            /\ wanted' = Narrow(wanted, Positions(wanted[f.refs[1]].rows, f.keep))
            /\ UNCHANGED <<pc, task, todo, got>>
       ELSE /\ Begin([kind |-> "filter", hands |-> DOMAIN relation, by |-> f], f.refs)
            /\ UNCHANGED <<relation, wanted>>
    /\ UNCHANGED <<pool, moving, cte, built, sorted, reread, dropped>>

Select ==
    /\ HasRead("filter")
    /\ LET f == task.by
           ids == Positions(got[f.refs[1]].rows, f.keep)
       IN  /\ \E a \in Places(pool) : pool' = Put(pool, a, "live", Ids, ids) /\ Narrowing(pool', relation, a, <<>>, Null)
           /\ wanted' = Narrow(wanted, Positions(wanted[f.refs[1]].rows, f.keep))
    /\ UNCHANGED <<task, todo, got, cte, built, sorted, operators, reread, dropped>>

(* A projection passes references on as they are and stores what it        *)
(* computes; a computation over nothing is an empty column.                *)
Skipped(item) == EmptyInput \/ \E r \in ToSet(item.refs) : relation[r].data = Null
Project(items) ==
    /\ \A i \in DOMAIN items : ToSet(items[i].refs) \subseteq DOMAIN relation
    /\ Begin([kind |-> "project", hands |-> {items[i].refs[1] : i \in {j \in DOMAIN items : items[j].pass}}, by |-> items],
             FlattenSeq([i \in DOMAIN items |-> IF items[i].pass \/ Skipped(items[i]) THEN <<>> ELSE items[i].refs]))
    /\ UNCHANGED <<pool, relation, wanted, moving, cte, built, sorted, reread, dropped>>

Compute ==
    /\ HasRead("project")
    /\ LET items == task.by
           stored == {i \in DOMAIN items : ~items[i].pass /\ ~Skipped(items[i])}
           fresh  == Listed(stored)
           blocks == [j \in DOMAIN fresh |->
                        [state |-> "kept", tag |-> Computed, rows |-> got[items[fresh[j]].refs[1]].rows]]
           At(i)  == Cardinality({j \in stored : j <= i})
       IN  /\ pool' = pool \o blocks
           /\ relation' = [i \in DOMAIN items |->
                             IF items[i].pass THEN relation[items[i].refs[1]]
                             ELSE IF Skipped(items[i]) THEN Empty
                             ELSE Column(Len(pool) + At(i), Len(blocks[At(i)].rows))]
           /\ wanted' = [i \in DOMAIN items |->
                           IF items[i].pass THEN wanted[items[i].refs[1]]
                           ELSE [tag |-> Computed, rows |-> wanted[items[i].refs[1]].rows]]
    /\ pc' = "ready"
    /\ UNCHANGED <<task, todo, got, moving, cte, built, sorted, operators, reread, dropped>>

(* A limit materialises every column and shortens it.  The offset of the   *)
(* plan is not looked at.                                                  *)
Limit(l) ==
    /\ Begin([kind |-> "limit", hands |-> {}, by |-> l], [i \in DOMAIN relation |-> i])
    /\ UNCHANGED <<pool, relation, wanted, moving, cte, built, sorted, reread, dropped>>

Shorten(l, cols) ==
    [i \in DOMAIN cols |->
       Column(cols[i].data, CHOOSE m \in {l.n} \cup {cols[j].len : j \in 1..i} :
                               \A k \in {l.n} \cup {cols[j].len : j \in 1..i} : m <= k)]
Limited ==
    /\ HasRead("limit")
    /\ relation' = Shorten(task.by, [i \in DOMAIN got |-> got[i].col])
    /\ wanted' = [i \in DOMAIN wanted |-> [wanted[i] EXCEPT !.rows = Page(@, task.by.n, task.by.offset)]]
    /\ pc' = "ready" /\ dropped' = (dropped \/ task.by.offset > 0)
    /\ UNCHANGED <<pool, task, todo, got, moving, cte, built, sorted, operators, reread>>

(* The probe of an inner hash join: it reads its key, locks what the build *)
(* side kept, and narrows both sides to the matching pairs.                *)
Probe(key) ==
    /\ built # Nothing /\ key \in DOMAIN relation
    /\ Begin([kind |-> "probe", hands |-> DOMAIN relation, by |-> key], <<key>>)
    /\ UNCHANGED <<pool, relation, wanted, moving, cte, built, sorted, reread, dropped>>

Join ==
    /\ HasRead("probe")
    /\ LET pairs == Pairs(Denotes(pool, got[task.by].col), Denotes(pool, built.key))
           meant == Pairs(wanted[task.by].rows, built.keyRows)
           locked == Locked(pool, UNION {{c.data, c.ids} : c \in ToSet(built.cols)})
       IN  /\ \E l \in Places(locked) : \E r \in Places(Put(locked, l, "live", Ids, Side(pairs, 1))) :
                /\ pool' = Put(Put(locked, l, "live", Ids, Side(pairs, 1)), r, "live", Ids, Side(pairs, 2))
                /\ Narrowing(pool', relation, l, built.cols, r)
           /\ wanted' = Narrow(wanted, Side(meant, 1)) \o Narrow(built.want, Side(meant, 2))
    /\ built' = Nothing
    /\ UNCHANGED <<task, todo, got, cte, sorted, operators, reread, dropped>>

-----------------------------------------------------------------------------
(* Sinks *)

Ends == pc' = "source" /\ task' = Idle /\ relation' = <<>> /\ wanted' = <<>>

(* The working table of a CTE takes the data of the columns and locks it.  *)
LendRowIds(cols) == {c.ids : c \in ToSet(cols)}   \* faulty
Lend(cols) == {c.data : c \in ToSet(cols)}
CTESink ==
    /\ pc = "ready" /\ cte = Nothing /\ operators < MaxOperators /\ operators' = operators + 1
    /\ cte' = [Nothing EXCEPT !.cols = [i \in DOMAIN relation |-> Column(relation[i].data, relation[i].len)],
                              !.want = wanted]
    /\ pool' = Locked(pool, Lend(relation))
    /\ dropped' = (dropped \/ \E i \in DOMAIN relation : relation[i].ids # Null)
    /\ Ends
    /\ UNCHANGED <<todo, got, moving, built, sorted, reread>>

(* A left delim join caches the columns it is given as they are, unlocked; *)
(* its distinct aggregate then reads those it groups by.                   *)
DelimSink(refs) ==
    /\ cte = Nothing /\ ToSet(refs) \subseteq DOMAIN relation
    /\ Begin([kind |-> "delim", hands |-> DOMAIN relation, by |-> refs], refs)
    /\ UNCHANGED <<pool, relation, wanted, moving, cte, built, sorted, reread, dropped>>
Cached ==
    /\ HasRead("delim")
    /\ cte' = [Nothing EXCEPT !.cols = relation, !.want = wanted, !.once = TRUE]
    /\ Ends
    /\ UNCHANGED <<pool, todo, got, moving, built, sorted, operators, reread, dropped>>

(* The build side of a join reads its key and keeps the columns as they    *)
(* are.  Under a right delim join the distinct aggregate then reads the    *)
(* columns it groups by from the same relation.                            *)
Build(key, refs) ==
    /\ built = Nothing /\ {key} \cup ToSet(refs) \subseteq DOMAIN relation
    /\ Begin([kind |-> "build", hands |-> DOMAIN relation, by |-> key, distinct |-> refs], <<key>>)
    /\ UNCHANGED <<pool, relation, wanted, moving, cte, built, sorted, reread, dropped>>
Built ==
    /\ HasRead("build")
    /\ built' = [Nothing EXCEPT !.cols = relation, !.want = wanted, !.key = got[task.by].col,
                               !.keyRows = wanted[task.by].rows]
    /\ IF task.distinct = <<>>
       THEN Ends /\ UNCHANGED todo
       ELSE /\ task' = [kind |-> "distinct", hands |-> DOMAIN relation, by |-> task.distinct]
            /\ todo' = task.distinct
            /\ UNCHANGED <<pc, relation, wanted>>
    /\ UNCHANGED <<pool, got, moving, cte, sorted, operators, reread, dropped>>
Distinct ==
    /\ HasRead("distinct")
    /\ Ends
    /\ UNCHANGED <<pool, todo, got, moving, cte, built, sorted, operators, reread, dropped>>

(* ORDER BY and TOP N read the columns they hand on, put them in the place *)
(* of the input's, then read the key; the gathered result is stored.       *)
Sort(s) ==
    /\ ToSet(s.cols) \cup {s.key} \subseteq DOMAIN relation
    /\ Begin([kind |-> "sort", hands |-> {}, by |-> s], Append(s.cols, s.key))
    /\ UNCHANGED <<pool, relation, wanted, moving, cte, built, sorted, reread, dropped>>
Sorted ==
    /\ HasRead("sort")
    /\ LET s == task.by
           order == Slice(Order(Denotes(pool, got[s.key].col)), s.n, s.offset)
           meant == Slice(Order(wanted[s.key].rows), s.n, s.offset)
           blocks == [i \in DOMAIN s.cols |->
                        [state |-> IF s.offset > 0 THEN "inner" ELSE "kept", tag |-> got[s.cols[i]].tag,
                         rows |-> Pick(Denotes(pool, got[s.cols[i]].col), order)]]
       IN  /\ pool' = pool \o blocks
           /\ sorted' = [Nothing EXCEPT
                           !.cols = [i \in DOMAIN s.cols |->
                                       IF order = <<>> THEN Empty ELSE Column(Len(pool) + i, Len(order))],
                           !.want = [i \in DOMAIN s.cols |-> Narrow(wanted, meant)[s.cols[i]]]]
    /\ Ends
    /\ UNCHANGED <<todo, got, moving, cte, built, operators, reread, dropped>>

(* The result collector reads every column, an aggregate the columns of    *)
(* its groups and then of its aggregates; the query ends there.            *)
Collect(kind, refs) ==
    /\ ToSet(refs) \subseteq DOMAIN relation
    /\ Begin([kind |-> kind, hands |-> {}, by |-> refs], refs)
    /\ UNCHANGED <<pool, relation, wanted, moving, cte, built, sorted, reread, dropped>>
Collected ==
    /\ HasRead("collect")
    /\ pc' = "done"
    /\ UNCHANGED <<pool, relation, wanted, task, todo, got, moving, cte, built, sorted, operators, reread, dropped>>

Next ==
    \/ \E s \in Scans : TableScan(s)
    \/ CTEScan \/ SortScan
    \/ Materialise \/ Compose \/ Composed
    \/ \E f \in Filters : Filter(f)
    \/ Select
    \/ \E items \in Projections : Project(items)
    \/ Compute
    \/ \E l \in Limits : Limit(l)
    \/ Limited
    \/ \E key \in DOMAIN relation : Probe(key) \/ \E refs \in Aggregates \cup {<<>>} : Build(key, refs)
    \/ Join \/ Built \/ Distinct
    \/ CTESink
    \/ \E refs \in Aggregates : DelimSink(refs)
    \/ Cached
    \/ \E s \in Sorts : Sort(s)
    \/ Sorted
    \/ \E refs \in Aggregates \cup {[i \in DOMAIN relation |-> i]} : Collect("collect", refs)
    \/ Collected

Spec == Init /\ [][Next]_vars

-----------------------------------------------------------------------------
(***************************************************************************)
(* Properties.  Two things void the promises below, and nothing else may:  *)
(* a block is freed while a column that is still used points into it       *)
(* (reread), and columns lose what selects their rows (dropped): a working *)
(* table and the scan of what a delim join cached take no row ids, a limit *)
(* takes no offset.                                                        *)
(***************************************************************************)
Excused == reread \/ dropped

Holds(cols, want) ==
    /\ Len(cols) = Len(want)
    /\ \A i \in DOMAIN cols : /\ Denotes(pool, cols[i]) = want[i].rows
                              /\ want[i].rows # <<>> => pool[cols[i].data].tag = want[i].tag

(* Between two operators every column of the relation stands for exactly   *)
(* the values the plan means, however many times its row ids were composed *)
(* (gpu_materialize.cpp:120), shared, locked, and its old blocks reused.   *)
RelationIsCurrent == pc = "ready" /\ ~Excused => Holds(relation, wanted)

(* What a CTE lends, what a delim join caches or the build side of a join  *)
(* keeps and what a sort has stored still stands for the same values, even *)
(* after other pipelines have materialised columns over the same blocks    *)
(* (lockAllocation, gpu_buffer_manager.cpp:356).                           *)
StoredColumnsStay ==
    ~Excused => \A store \in {cte, built, sorted} : Holds(store.cols, store.want)

(* The columns the result collector, or an aggregate, has materialised are *)
(* those of the plan's answer.                                             *)
AnswerIsWanted ==
    pc = "done" /\ ~Excused =>
        \A i \in ToSet(task.by) : Denotes(pool, got[i].col) = wanted[i].rows

(* Freeing a pointer the allocation table does not know throws ("Pointer   *)
(* not found in allocation table", gpu_buffer_manager.cpp:398).  That      *)
(* happens only to a column read again after its block was freed, and to   *)
(* a slice of a sort result, which points into the middle of its block.    *)
NoStrayFree == pc = "thrown" => reread \/ \E a \in DOMAIN pool : pool[a].state = "inner"
=============================================================================
