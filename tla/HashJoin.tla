------------------------------- MODULE HashJoin -------------------------------
(* The hash table of GPUPhysicalHashJoin for the joins the code does itself:   *)
(* SEMI, MARK, RIGHT, RIGHT_SEMI and RIGHT_ANTI.  Threads of the build kernel  *)
(* claim slots with atomicCAS and then fill them with plain writes; the probe  *)
(* kernels walk the same slots, reserve places in the output with atomicAdd,   *)
(* and mark what they matched; a scan of the table gives the build rows of a   *)
(* right join.  Kernels end before the next starts.                            *)
EXTENDS Integers, Sequences, FiniteSets

CONSTANTS
    Inputs,    \* joins: what Sink and Execute are given
    HalfWrap,  \* 2^32, or a small number in its place
    Strays     \* what a scan may count whose threads have left the block

(* An input is [join, modes, types, unique, stride, build, probe]: modes holds *)
(* "=", "#" (not equal) or "<" (any other) for each condition, the equalities  *)
(* first, and types the type of both sides of it; unique is the set of         *)
(* conditions whose build column has is_unique; stride is the 100007 of the    *)
(* kernels; a row is [keys, stray, valid]: the values in the data of its key   *)
(* columns (of a FLOAT its bits), what a kernel finds that reads a column past *)
(* its end or in the middle of its values, and whether none of them is NULL.   *)
Empty == -1      \* 0xFFFFFFFFFFFFFFFF in an unclaimed slot: the word of -1
Supported == {"SEMI", "MARK", "RIGHT", "RIGHT_SEMI", "RIGHT_ANTI"}
KeyTypes == {"INT32", "INT64", "FLOAT64"}
Wrap == HalfWrap * HalfWrap  \* 2^64

ASSUME HashJoinAssumption ==
    /\ HalfWrap \in Nat \ {0} /\ Strays \in SUBSET Nat /\ 0 \in Strays
    /\ \A in \in Inputs :
        /\ in.join \in STRING /\ in.modes \in Seq({"=", "#", "<"}) \ {<<>>} /\ in.stride \in Nat
        /\ in.types \in [DOMAIN in.modes -> STRING]
        /\ in.unique \subseteq DOMAIN in.modes
        /\ \A rows \in {in.build, in.probe} :
               rows \in Seq([keys : [DOMAIN in.modes -> Int], stray : [DOMAIN in.modes -> Int], valid : BOOLEAN])

VARIABLES
    input,  \* the join
    ht,     \* gpu_hash_table: the words of each slot
    build,  \* what each thread of build_multikey is about to do
    at,     \* how many slots it has stepped over, modulo ht_len
    probe,  \* what each thread of the probe kernel is about to do
    place,  \* offset_each_thread: where in the output a probe thread writes
    total,  \* the counter the probe threads add to
    out,    \* row_ids_left and row_ids_right, or the marks, by position
    pc      \* "build", "probe", "scan", "done", "refused"

vars == <<input, ht, build, at, probe, place, total, out, pc>>

BuildRows == DOMAIN input.build
ProbeRows == DOMAIN input.probe

\* Faulty variant: as many slots as rows.
HtLenExact == Len(input.build)

\* ht_len: twice as many slots as rows.
HtLen == 2 * Len(input.build)
Slots == 0 .. HtLen - 1
Keys == DOMAIN input.modes

-------------------------------------------------------------------------------
(* Words: the kernels are instantiated for the type of the first key, and read *)
(* the data of every key column as an array of that type.                      *)
ReadWidth == IF input.types[1] = "INT32" THEN 4 ELSE 8

\* getColumnTypeSize, of the types a kernel can read whole.
Width(type) ==
    CASE type \in {"INT32", "FLOAT32", "DATE", "DECIMAL32"} -> 4
      [] type \in {"INT64", "FLOAT64", "TIMESTAMP", "DECIMAL64"} -> 8
      [] OTHER -> 0

Signed(word, wrap) == IF 2 * word < wrap THEN word ELSE word - wrap

\* Element t of key n: half of a wider value, or two narrower ones.
Word(rows, t, n) ==
    LET width == Width(input.types[n])
        v(i) == rows[i].keys[n]
    IN  CASE width = ReadWidth -> v(t)
          [] width = 8 /\ ReadWidth = 4 ->
                LET u == v((t + 1) \div 2) % Wrap
                IN  Signed(IF t % 2 = 1 THEN u % HalfWrap ELSE u \div HalfWrap, HalfWrap)
          [] width = 4 /\ ReadWidth = 8 /\ 2 * t <= Len(rows) ->
                Signed((v(2 * t - 1) % HalfWrap) + HalfWrap * (v(2 * t) % HalfWrap), Wrap)
          [] OTHER -> rows[t].stray[n]

Built(t) == [keys |-> [n \in Keys |-> Word(input.build, t, n)]]
Probe(p) == [keys |-> [n \in Keys |-> Word(input.probe, p, n)]]

-------------------------------------------------------------------------------
(* Slots *)

\* The word of a key: a negative one wraps.
Unsigned(k) == IF k < 0 THEN Wrap + k ELSE k
EqualKeys == {n \in Keys : input.modes[n] = "="}

\* keys[0] % ht_len for one equality, hash64(keys[0], keys[1]) % ht_len for two.
Hash(row) == (IF 2 \in EqualKeys THEN 3 * Unsigned(row.keys[1]) + Unsigned(row.keys[2])
              ELSE Unsigned(row.keys[1])) % HtLen

\* The slot a thread looks at after stepping over i.
Slot(row, i) == (Hash(row) + input.stride * i) % HtLen

-------------------------------------------------------------------------------
(* Sink: build_multikey *)
NoEntry == [keys |-> [n \in Keys |-> Empty], row |-> Empty, mark |-> Empty]

Init ==
    /\ input \in Inputs
    /\ ht = [s \in Slots |-> NoEntry]
    /\ build = [t \in BuildRows |-> "claim"] /\ at = [t \in BuildRows |-> 0]
    /\ probe = [t \in ProbeRows |-> "probe"] /\ place = [t \in ProbeRows |-> 0]
    /\ total = 0 /\ out = <<>> /\ pc = "build"

At(t) == Slot(Built(t), at[t])
Key(t) == Word(input.build, t, 1)

\* The kernels compare for equality, and with != the second key of two.
Comparable(n) == input.modes[n] = "=" \/ (input.modes[n] = "#" /\ n = 2 /\ Len(input.modes) = 2)
Taken == /\ input.join \in Supported /\ input.types[1] \in KeyTypes
         /\ \A n \in Keys : Comparable(n)

\* A join type, a comparison or a type of the first key that the build does not take
\* throws.  The types of the others, and how many they are, it does not ask.
RefuseJoin ==
    /\ pc = "build" /\ ~Taken
    /\ pc' = "refused" /\ UNCHANGED <<input, ht, build, at, probe, place, total, out>>

Building == pc = "build" /\ Taken

\* A kernel hashes one equality or two; of more it says cudaAssert(0), which makes
\* every thread that has a row return.
Hashed == EqualKeys \subseteq {1, 2}
Placing == Building /\ Hashed

\* Faulty variant: the slot is read, and written without comparing again.
ClaimUnchecked(t) ==
    /\ Placing /\ build[t] \in {"claim", "store"}
    /\ IF build[t] = "store"
       THEN ht' = [ht EXCEPT ![At(t)].keys[1] = Key(t)]
            /\ build' = [build EXCEPT ![t] = "keys"] /\ UNCHANGED at
       ELSE IF ht[At(t)].keys[1] = Empty
       THEN build' = [build EXCEPT ![t] = "store"] /\ UNCHANGED <<ht, at>>
       ELSE at' = [at EXCEPT ![t] = (@ + 1) % HtLen] /\ UNCHANGED <<ht, build>>
    /\ UNCHANGED <<input, probe, place, total, out, pc>>

\* Faulty variant: after a collision the build skips a slot the probe will look at.
ClaimSkipping(t) ==
    /\ Placing /\ build[t] = "claim"
    /\ IF ht[At(t)].keys[1] = Empty
       THEN ht' = [ht EXCEPT ![At(t)].keys[1] = Key(t)]
            /\ build' = [build EXCEPT ![t] = "keys"] /\ UNCHANGED at
       ELSE at' = [at EXCEPT ![t] = (@ + 2) % HtLen] /\ UNCHANGED <<ht, build>>
    /\ UNCHANGED <<input, probe, place, total, out, pc>>

\* Faulty variant: the step is not taken modulo ht_len.
ClaimPastEnd(t) ==
    /\ Placing /\ build[t] = "claim"
    /\ IF ht[At(t)].keys[1] = Empty
       THEN ht' = [ht EXCEPT ![At(t)].keys[1] = Key(t)]
            /\ build' = [build EXCEPT ![t] = "keys"] /\ UNCHANGED at
       ELSE at' = [at EXCEPT ![t] = @ + 1] /\ UNCHANGED <<ht, build>>
    /\ UNCHANGED <<input, probe, place, total, out, pc>>

\* atomicCAS on the first word: the thread has the slot, or steps on.
Claim(t) ==
    /\ Placing /\ build[t] = "claim"
    /\ IF ht[At(t)].keys[1] = Empty
       THEN ht' = [ht EXCEPT ![At(t)].keys[1] = Key(t)]
            /\ build' = [build EXCEPT ![t] = "keys"] /\ UNCHANGED at
       ELSE at' = [at EXCEPT ![t] = (@ + 1) % HtLen] /\ UNCHANGED <<ht, build>>
    /\ UNCHANGED <<input, probe, place, total, out, pc>>

\* The other keys, then the row id, in plain writes.
FillKeys(t) ==
    /\ Placing /\ build[t] = "keys"
    /\ ht' = [ht EXCEPT ![At(t)].keys = [n \in Keys |-> IF n = 1 THEN @[n] ELSE Built(t).keys[n]]]
    /\ build' = [build EXCEPT ![t] = "row"]
    /\ UNCHANGED <<input, at, probe, place, total, out, pc>>

FillRow(t) ==
    /\ Placing /\ build[t] = "row"
    /\ ht' = [ht EXCEPT ![At(t)].row = t]
    /\ build' = [build EXCEPT ![t] = "placed"]
    /\ UNCHANGED <<input, at, probe, place, total, out, pc>>

\* cudaDeviceSynchronize after the build; Execute may then probe.
EndBuild ==
    /\ Building /\ (Hashed => \A t \in BuildRows : build[t] = "placed")
    /\ pc' = "probe" /\ UNCHANGED <<input, ht, build, at, probe, place, total, out>>

-------------------------------------------------------------------------------
(* Execute: the probe kernels *)

\* Does the entry in slot s satisfy the conditions for this row?  NULL or not,
\* the words in the data are compared.
Fits(row, s) == \A n \in Keys :
    IF input.modes[n] = "=" THEN ht[s].keys[n] = row.keys[n] ELSE ht[s].keys[n] # row.keys[n]

\* How many slots the row steps over before one that is empty, or none is.
Ends(row, i) == ht[Slot(row, i)].keys[1] = Empty
Reach(row) == {i \in 0 .. HtLen - 1 : \A j \in 0 .. i : ~Ends(row, j)}
Hits(row) == {i \in Reach(row) : Fits(row, Slot(row, i))}

\* unique_build_keys: one of the key columns is unique.
UniqueBuildKeys == input.unique # {}

\* The kernels that stop at the first match.
SingleMatch == input.join \in {"SEMI", "MARK"} \/ UniqueBuildKeys

\* The steps at which a row matches, all or the first.
Found(row) == IF SingleMatch THEN {i \in Hits(row) : \A j \in Hits(row) : i <= j} ELSE Hits(row)

\* A probe with no empty slot to stop at goes round for ever, unless it stops
\* at a match.
Stops(row) == Reach(row) # 0 .. HtLen - 1 \/ (SingleMatch /\ Hits(row) # {})

\* N == 0 || ht_len == 0: nothing is launched.
Launched == ProbeRows # {} /\ HtLen > 0
Probing == pc = "probe" /\ Launched /\ Hashed

Marked(row, p) ==
    [s \in Slots |-> IF \E i \in Found(row) : Slot(row, i) = s
                     THEN [ht[s] EXCEPT !.mark = p] ELSE ht[s]]

\* probe_mark: a boolean in the place of the row.
ProbeMark(p) ==
    LET row == Probe(p)
    IN  /\ Probing /\ input.join = "MARK" /\ probe[p] = "probe" /\ Stops(row)
        /\ out' = [i \in DOMAIN out \cup {p} |->
                     IF i = p THEN <<p, IF Found(row) # {} THEN 1 ELSE 0>> ELSE out[i]]
        /\ probe' = [probe EXCEPT ![p] = "done"]
        /\ UNCHANGED <<input, ht, build, at, place, total, pc>>

\* probe_right_semi_anti: the matches are marked, nothing is written out.
ProbeRightSemiAnti(p) ==
    LET row == Probe(p)
    IN  /\ Probing /\ input.join \in {"RIGHT_SEMI", "RIGHT_ANTI"}
        /\ probe[p] = "probe" /\ Stops(row)
        /\ ht' = Marked(row, p)
        /\ probe' = [probe EXCEPT ![p] = "done"]
        /\ UNCHANGED <<input, build, at, place, total, out, pc>>

Reserves == input.join = "SEMI" \/ input.join = "RIGHT"

\* atomicAdd gives the thread the places total .. total + matches - 1.
Count(p) ==
    LET row == Probe(p)
    IN  /\ Probing /\ Reserves /\ probe[p] = "probe" /\ Stops(row)
        /\ place' = [place EXCEPT ![p] = total]
        /\ total' = total + Cardinality(Found(row))
        /\ probe' = [probe EXCEPT ![p] = "write"]
        /\ UNCHANGED <<input, ht, build, at, out, pc>>

\* probe_multikey walks the slots a second time, in a kernel of its own;
\* probe_single_match writes what it found in the same one.
Write(p) ==
    LET row == Probe(p)
        rank(i) == Cardinality({j \in Found(row) : j < i})
        positions == place[p] .. place[p] + Cardinality(Found(row)) - 1
        right(k) == ht[Slot(row, CHOOSE i \in Found(row) : rank(i) = k - place[p])].row
    IN  /\ Probing /\ Reserves /\ probe[p] = "write"
        /\ SingleMatch \/ \A q \in ProbeRows : probe[q] # "probe"
        /\ out' = [k \in DOMAIN out \cup positions |->
                     IF k \in positions
                     THEN <<p, IF input.join = "SEMI" THEN 0 ELSE right(k)>> ELSE out[k]]
        /\ ht' = IF input.join = "RIGHT" THEN Marked(row, p) ELSE ht
        /\ probe' = [probe EXCEPT ![p] = "done"]
        /\ UNCHANGED <<input, build, at, place, total, pc>>

\* The threads with a row have returned: the others scan what is in their shared
\* memory, nobody writes a row id or a mark, and the arrays stay as they came.
ProbeReturns ==
    /\ pc = "probe" /\ Launched /\ ~Hashed
    /\ total' \in IF Reserves THEN Strays ELSE {0}
    /\ out' \in IF input.join = "MARK"
                THEN {[p \in ProbeRows |-> <<p, marks[p]>>] : marks \in [ProbeRows -> {0, 1}]}
                ELSE [0 .. total' - 1 -> (ProbeRows \cup {0}) \X (BuildRows \cup {0})]
    /\ pc' = IF input.join \in {"SEMI", "MARK"} THEN "done" ELSE "scan"
    /\ UNCHANGED <<input, ht, build, at, probe, place>>

\* An empty hash table marks no row of a MARK join; then the kernel is waited for.
EndProbe ==
    /\ pc = "probe" /\ (Launched => Hashed /\ \A p \in ProbeRows : probe[p] = "done")
    /\ out' = IF ~Launched /\ input.join = "MARK" THEN [p \in ProbeRows |-> <<p, 0>>] ELSE out
    /\ pc' = IF input.join \in {"SEMI", "MARK"} THEN "done" ELSE "scan"
    /\ UNCHANGED <<input, ht, build, at, probe, place, total>>

-------------------------------------------------------------------------------
(* GetData: scan_right *)

\* Faulty variant: a slot no row was put in is taken for one nobody matched.
SelectedAny(s) == IF input.join = "RIGHT_SEMI" THEN ht[s].mark # Empty ELSE ht[s].mark = Empty

Selected(s) ==
    IF input.join = "RIGHT_SEMI" THEN ht[s].mark # Empty
    ELSE ht[s].mark = Empty /\ ht[s].row # Empty

\* The rows selected go behind the matches of the probe, in the order of slots.
Scan ==
    LET rows == {s \in Slots : Selected(s)}
        behind(s) == total + Cardinality({r \in rows : r < s})
        positions == {behind(s) : s \in rows}
    IN  /\ pc = "scan" /\ pc' = "done"
        /\ out' = [k \in DOMAIN out \cup positions |->
                     IF k \in positions THEN <<0, ht[CHOOSE s \in rows : behind(s) = k].row>> ELSE out[k]]
        /\ UNCHANGED <<input, ht, build, at, probe, place, total>>

Next ==
    \/ RefuseJoin \/ EndBuild \/ ProbeReturns \/ EndProbe \/ Scan
    \/ \E t \in BuildRows : Claim(t) \/ FillKeys(t) \/ FillRow(t)
    \/ \E p \in ProbeRows : ProbeMark(p) \/ ProbeRightSemiAnti(p) \/ Count(p) \/ Write(p)

Spec == Init /\ [][Next]_vars

\* A kernel that can run goes on; which of its threads do is up to the device.
FairSpec == Spec /\ WF_vars(Next)

-------------------------------------------------------------------------------
(* What the join means *)

\* Two values of a condition are equal: of a FLOAT, 0.0 and -0.0 are.
Zeros(type) == CASE type = "FLOAT32" -> {0, -(HalfWrap \div 2)}
                 [] type = "FLOAT64" -> {0, -(Wrap \div 2)}
                 [] OTHER -> {}
Same(n, x, y) == x = y \/ {x, y} \subseteq Zeros(input.types[n])

Matches(p, b) ==
    LET l == input.probe[p] r == input.build[b]
    IN  /\ l.valid /\ r.valid
        /\ \A n \in Keys : Same(n, l.keys[n], r.keys[n]) <=> input.modes[n] = "="
Partnered(b) == \E p \in ProbeRows : Matches(p, b)

Expected ==
    CASE input.join = "SEMI" -> {<<p, 0>> : p \in {q \in ProbeRows : \E b \in BuildRows : Matches(q, b)}}
      [] input.join = "MARK" -> {<<p, IF \E b \in BuildRows : Matches(p, b) THEN 1 ELSE 0>> : p \in ProbeRows}
      [] input.join = "RIGHT" -> {r \in ProbeRows \X BuildRows : Matches(r[1], r[2])}
                                   \cup {<<0, b>> : b \in {c \in BuildRows : ~Partnered(c)}}
      [] input.join = "RIGHT_SEMI" -> {<<0, b>> : b \in {c \in BuildRows : Partnered(c)}}
      [] input.join = "RIGHT_ANTI" -> {<<0, b>> : b \in {c \in BuildRows : ~Partnered(c)}}

(* The cases the code is not ready for *)

\* A build key whose word is that of an empty slot.
SentinelKey == \E b \in BuildRows : Key(b) = Empty
\* A step that comes back before it has seen every slot: 100007 is 97 * 1031, so
\* a build side of 97 rows is enough.
ShortCycle == HtLen > 0 /\ \E i \in 1 .. HtLen - 1 : (input.stride * i) % HtLen = 0
\* A NULL among the keys.
NullKey == \E rows \in {input.build, input.probe} : \E b \in DOMAIN rows : ~rows[b].valid
\* A build column that is unique, but compared with !=.
UniqueInequality == \E n \in input.unique : input.modes[n] = "#"

\* A build column that is called unique, but repeats a value: the keys of two
\* batches that were each unique, combined by an aggregate's sink.
UniqueRepeats ==
    \E n \in input.unique : \E b, c \in BuildRows :
        b # c /\ Same(n, input.build[b].keys[n], input.build[c].keys[n])

\* A right join then marks the first match of a row only.
MissesMatches == (UniqueInequality \/ UniqueRepeats) /\ input.join \notin {"SEMI", "MARK"}

\* Rows to place under three equalities or more: none is.
Unhashed == ~Hashed /\ BuildRows # {}
\* A key of another width than the first whose word is not its value.
MisreadKey == \E rows \in {input.build, input.probe} : \E t \in DOMAIN rows, n \in Keys :
                  Word(rows, t, n) # rows[t].keys[n]
\* 0.0 on one side and -0.0 on the other.
SignedZero == \E p \in ProbeRows, b \in BuildRows, n \in Keys :
    LET x == input.probe[p].keys[n] y == input.build[b].keys[n] IN x # y /\ Same(n, x, y)

Ready == /\ ~SentinelKey /\ ~NullKey /\ ~MissesMatches
         /\ ~Unhashed /\ ~MisreadKey /\ ~SignedZero

-------------------------------------------------------------------------------
(* Slots hold words and row ids; a thread counts its steps modulo ht_len.      *)
TypeOK ==
    /\ ht \in [Slots -> [keys : [Keys -> Int], row : BuildRows \cup {Empty}, mark : ProbeRows \cup {Empty}]]
    /\ build \in [BuildRows -> {"claim", "keys", "row", "placed"}]
    /\ at \in [BuildRows -> 0 .. HtLen - 1]
    /\ probe \in [ProbeRows -> {"probe", "write", "done"}]
    /\ place \in [ProbeRows -> Nat] /\ total \in Nat
    /\ pc \in {"build", "probe", "scan", "done", "refused"}

\* The slot a thread claimed is its own, whatever the others do between its
\* atomicCAS and its plain writes: once placed, its words and row id are there.
RowsAreKept ==
    ~SentinelKey => \A t \in BuildRows :
        /\ build[t] # "claim" => ht[At(t)].keys[1] = Key(t)
        /\ build[t] = "placed" => ht[At(t)].row = t
        /\ build[t] \in {"row", "placed"} => \A n \in Keys : ht[At(t)].keys[n] = Built(t).keys[n]

\* A probe for the key of a row comes to the row before it comes to an empty
\* slot: no slot the build stepped over is ever empty again.
RowsAreReachable ==
    ~SentinelKey => \A t \in BuildRows : \A j \in 0 .. at[t] - 1 : ~Ends(Built(t), j)

\* The output is the join: every pair once, nothing written over, nothing made
\* up, whatever the order of the threads.
AnswerIsJoin ==
    (pc = "done" /\ Ready) =>
        /\ {out[k] : k \in DOMAIN out} = Expected
        /\ Cardinality(DOMAIN out) = Cardinality(Expected)

\* The kernels end: a half full table always has an empty slot to stop at, and
\* a thread gets to it unless its steps come round before.
Goals == IF ShortCycle THEN {pc} ELSE {"done", "refused"}
KernelsEnd == <>(pc \in Goals)
===============================================================================
