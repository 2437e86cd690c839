--------------------------- MODULE HashJoinProofs ---------------------------
(* What holds of HashJoin for any number of rows, any keys, any stride and    *)
(* any order of the threads: slots stay well formed, what a thread claimed is *)
(* its own, and every row can be reached.                                     *)
EXTENDS HashJoin, FiniteSetTheorems, SequenceTheorems, TLAPS

-----------------------------------------------------------------------------
(* Slots *)

\* A remainder is smaller than the divisor, and no larger than what is divided.
LEMMA Remainder ==
    ASSUME NEW n \in Nat \ {0}, NEW a \in Int
    PROVE  a % n \in 0 .. n - 1 /\ (a >= 0 => a % n <= a)
  BY SMT

Rows == [keys : [Keys -> Int], stray : [Keys -> Int], valid : BOOLEAN]

LEMMA InputFacts ==
    ASSUME input \in Inputs
    PROVE  /\ BuildRows = 1 .. Len(input.build) /\ ProbeRows = 1 .. Len(input.probe)
           /\ HtLen \in Nat
           /\ BuildRows # {} => HtLen \in Nat \ {0}
           /\ input.build \in Seq(Rows) /\ input.probe \in Seq(Rows)
           /\ input.stride \in Nat /\ HalfWrap \in Nat \ {0} /\ Wrap \in Nat \ {0}
           /\ 1 \in Keys
<1>1. input.build \in Seq(Rows) /\ input.probe \in Seq(Rows)
  BY HashJoinAssumption DEF HashJoinAssumption, Keys, Rows
<1>2. input.stride \in Nat /\ HalfWrap \in Nat \ {0}
  BY HashJoinAssumption DEF HashJoinAssumption
<1>3. Wrap \in Nat \ {0}
  BY <1>2, SMT DEF Wrap
<1>4. BuildRows = 1 .. Len(input.build) /\ ProbeRows = 1 .. Len(input.probe)
  BY <1>1, LenProperties DEF BuildRows, ProbeRows
<1>5. HtLen \in Nat /\ (BuildRows # {} => HtLen \in Nat \ {0})
  BY <1>1, <1>4, LenProperties DEF HtLen
<1>6. 1 \in Keys
  <2>1. input.modes \in Seq({"=", "#", "<"}) /\ input.modes # <<>>
    BY HashJoinAssumption DEF HashJoinAssumption
  <2> QED
    BY <2>1, LenProperties, EmptySeq DEF Keys
<1> QED
  BY <1>1, <1>2, <1>3, <1>4, <1>5, <1>6

LEMMA HalfIsNumber ==
    ASSUME input \in Inputs, NEW x \in Int, NEW t \in Int
    PROVE  Signed(IF t % 2 = 1 THEN (x % Wrap) % HalfWrap ELSE (x % Wrap) \div HalfWrap, HalfWrap) \in Int
<1>1. HalfWrap \in Nat \ {0} /\ Wrap \in Nat \ {0}
  BY InputFacts
<1>2. x % Wrap \in Int
  BY <1>1, Remainder
<1>3. (x % Wrap) % HalfWrap \in Int
  BY <1>1, <1>2, Remainder
<1>4. \A y \in Int : y \div HalfWrap \in Int
  BY <1>1, SMT
<1>5. (x % Wrap) \div HalfWrap \in Int
  BY <1>2, <1>4
<1> QED
  BY <1>1, <1>3, <1>5 DEF Signed

LEMMA BothAreNumber ==
    ASSUME input \in Inputs, NEW x \in Int, NEW y \in Int
    PROVE  Signed((x % HalfWrap) + HalfWrap * (y % HalfWrap), Wrap) \in Int
<1>1. HalfWrap \in Nat \ {0} /\ Wrap \in Nat \ {0}
  BY InputFacts
<1>2. x % HalfWrap \in Int /\ y % HalfWrap \in Int
  BY <1>1, Remainder
<1>3. HalfWrap * (y % HalfWrap) \in Int
  BY <1>1, <1>2
<1> QED
  BY <1>1, <1>2, <1>3 DEF Signed

\* Whatever the widths, what a kernel reads is a word.
LEMMA WordIsNumber ==
    ASSUME input \in Inputs, NEW rows \in Seq(Rows), NEW t \in 1 .. Len(rows), NEW n \in Keys
    PROVE  Word(rows, t, n) \in Int
<1>1. Len(rows) \in Nat /\ \A i \in 1 .. Len(rows) : rows[i] \in Rows
  BY LenProperties, ElementOfSeq
<1>2. \A i \in 1 .. Len(rows) : rows[i].keys[n] \in Int /\ rows[i].stray[n] \in Int
  BY <1>1 DEF Rows
<1>3. (t + 1) \div 2 \in 1 .. Len(rows)
  BY <1>1, SMT
<1>4. 2 * t <= Len(rows) => 2 * t - 1 \in 1 .. Len(rows) /\ 2 * t \in 1 .. Len(rows)
  BY <1>1
<1>5. Signed(IF t % 2 = 1 THEN (rows[(t + 1) \div 2].keys[n] % Wrap) % HalfWrap
             ELSE (rows[(t + 1) \div 2].keys[n] % Wrap) \div HalfWrap, HalfWrap) \in Int
  <2>1. \A x, k \in Int : Signed(IF k % 2 = 1 THEN (x % Wrap) % HalfWrap
                                ELSE (x % Wrap) \div HalfWrap, HalfWrap) \in Int
    BY HalfIsNumber
  <2>2. rows[(t + 1) \div 2].keys[n] \in Int /\ t \in Int
    BY <1>2, <1>3
  <2> QED
    BY <2>1, <2>2, Zenon
<1>6. 2 * t <= Len(rows) =>
         Signed((rows[2 * t - 1].keys[n] % HalfWrap) + HalfWrap * (rows[2 * t].keys[n] % HalfWrap), Wrap) \in Int
  BY <1>2, <1>4, BothAreNumber
<1> QED
  BY <1>2, <1>5, <1>6, Zenon DEF Word

LEMMA RowsAreWords ==
    ASSUME input \in Inputs
    PROVE  /\ \A t \in BuildRows : Built(t).keys \in [Keys -> Int] /\ Key(t) \in Int
                                   /\ Built(t).keys[1] = Key(t)
           /\ \A p \in ProbeRows : Probe(p).keys \in [Keys -> Int]
  BY InputFacts, WordIsNumber DEF Built, Probe, Key

\* A key hashes to a number, and the slots a thread walks are slots of the table.
LEMMA SlotInTable ==
    ASSUME input \in Inputs, BuildRows # {},
           NEW row, row.keys \in [Keys -> Int], NEW i \in Int
    PROVE  Slot(row, i) \in Slots
<1>1. 1 \in Keys
  BY InputFacts
<1>2. \A k \in Int : Unsigned(k) \in Int
  BY InputFacts DEF Unsigned
<1>3. Unsigned(row.keys[1]) \in Int
  BY <1>1, <1>2
<1>4. 2 \in EqualKeys => Unsigned(row.keys[2]) \in Int
  BY <1>2 DEF EqualKeys
<1>5. HtLen \in Nat \ {0}
  BY InputFacts
<1>6. Hash(row) \in Int
  BY <1>3, <1>4, <1>5, Remainder DEF Hash
<1>7. input.stride * i \in Int
  BY InputFacts
<1>8. Hash(row) + input.stride * i \in Int
  BY <1>6, <1>7
<1> QED
  BY <1>5, <1>8, Remainder DEF Slot, Slots

LEMMA WalkInTable ==
    ASSUME input \in Inputs, NEW t \in BuildRows, NEW i \in Int
    PROVE  Slot(Built(t), i) \in Slots
<1>1. Built(t).keys \in [Keys -> Int] /\ BuildRows # {}
  BY RowsAreWords
<1> QED
  BY <1>1, SlotInTable

-----------------------------------------------------------------------------
(* Types *)

Entries == [keys : [Keys -> Int], row : BuildRows \cup {Empty}, mark : ProbeRows \cup {Empty}]
Typed == TypeOK /\ input \in Inputs

\* No step changes the join, nor what is computed from it alone.
LEMMA SameJoin ==
    ASSUME input' = input
    PROVE  /\ BuildRows' = BuildRows /\ ProbeRows' = ProbeRows /\ Keys' = Keys
           /\ HtLen' = HtLen /\ Slots' = Slots
           /\ \A row, i : Slot(row, i)' = Slot(row, i)
           /\ \A rows, t, n : Word(rows, t, n)' = Word(rows, t, n)
           /\ \A t : Built(t)' = Built(t) /\ Probe(t)' = Probe(t) /\ Key(t)' = Key(t)
           /\ Taken' = Taken /\ Hashed' = Hashed
<1>1. \A rows, t, n : Word(rows, t, n)' = Word(rows, t, n)
  BY DEF Word, ReadWidth, Width, Signed, Wrap
<1>2. Keys' = Keys
  BY DEF Keys
<1>3. \A t : Built(t)' = Built(t) /\ Probe(t)' = Probe(t) /\ Key(t)' = Key(t)
  BY <1>1, <1>2 DEF Built, Probe, Key
<1>4. \A n : Comparable(n)' = Comparable(n)
  BY DEF Comparable
<1> QED
  BY <1>1, <1>2, <1>3, <1>4
     DEF BuildRows, ProbeRows, Keys, HtLen, Slots, Slot, Hash, EqualKeys, Unsigned, Wrap,
         Taken, Supported, KeyTypes, Hashed

LEMMA StepsKeepTheJoin == [Next]_vars => input' = input
  BY DEF Next, vars, RefuseJoin, EndBuild, ProbeReturns, EndProbe, Scan, Claim, FillKeys, FillRow,
         ProbeMark, ProbeRightSemiAnti, Count, Write

\* What the probes write into the table leaves keys and rows alone.
LEMMA MarkedIsTyped ==
    ASSUME Typed, NEW p \in ProbeRows, NEW row
    PROVE  /\ Marked(row, p) \in [Slots -> Entries]
           /\ \A s \in Slots : Marked(row, p)[s].keys = ht[s].keys /\ Marked(row, p)[s].row = ht[s].row
<1>1. ht \in [Slots -> Entries]
  BY DEF Typed, TypeOK, Entries
<1>2. \A s \in Slots : [ht[s] EXCEPT !.mark = p] \in Entries
  BY <1>1 DEF Entries
<1> QED
  BY <1>1, <1>2 DEF Marked, Entries

LEMMA FoundIsFinite ==
    ASSUME input \in Inputs, NEW row
    PROVE  Cardinality(Found(row)) \in Nat
<1>1. IsFiniteSet(0 .. HtLen - 1)
  BY InputFacts, FS_Interval
<1>2. Found(row) \subseteq 0 .. HtLen - 1
  BY DEF Found, Hits, Reach
<1> QED
  BY <1>1, <1>2, FS_Subset, FS_CardinalityType

LEMMA InitIsTyped == Init => Typed
<1> SUFFICES ASSUME Init PROVE Typed
  OBVIOUS
<1>1. input \in Inputs
  BY DEF Init
<1>2. NoEntry \in Entries
  BY DEF NoEntry, Entries, Empty
<1>3. ht \in [Slots -> Entries]
  BY <1>2 DEF Init
<1>4. at \in [BuildRows -> 0 .. HtLen - 1]
  BY <1>1, InputFacts DEF Init
<1> QED
  BY <1>1, <1>3, <1>4 DEF Init, Typed, TypeOK, Entries

LEMMA NextIsTyped == Typed /\ [Next]_vars => Typed'
<1> SUFFICES ASSUME Typed, [Next]_vars PROVE TypeOK'
  BY StepsKeepTheJoin DEF Typed
<1> USE DEF Typed
<1>1. input' = input
  BY StepsKeepTheJoin
<1>2. /\ BuildRows' = BuildRows /\ ProbeRows' = ProbeRows
      /\ Keys' = Keys /\ HtLen' = HtLen /\ Slots' = Slots
  BY <1>1, SameJoin
<1>3. /\ ht \in [Slots -> Entries]
      /\ build \in [BuildRows -> {"claim", "keys", "row", "placed"}]
      /\ at \in [BuildRows -> 0 .. HtLen - 1]
      /\ probe \in [ProbeRows -> {"probe", "write", "done"}]
      /\ place \in [ProbeRows -> Nat] /\ total \in Nat
      /\ pc \in {"build", "probe", "scan", "done", "refused"}
  BY DEF TypeOK, Entries
<1> SUFFICES /\ ht' \in [Slots -> Entries]
             /\ build' \in [BuildRows -> {"claim", "keys", "row", "placed"}]
             /\ at' \in [BuildRows -> 0 .. HtLen - 1]
             /\ probe' \in [ProbeRows -> {"probe", "write", "done"}]
             /\ place' \in [ProbeRows -> Nat] /\ total' \in Nat
             /\ pc' \in {"build", "probe", "scan", "done", "refused"}
  BY <1>2 DEF TypeOK, Entries, Empty
<1>4. ASSUME NEW t \in BuildRows, Claim(t)
      PROVE  ht' \in [Slots -> Entries] /\ at' \in [BuildRows -> 0 .. HtLen - 1]
  <2>1. 1 \in Keys
    BY InputFacts
  <2>2. Key(t) \in Int
    BY RowsAreWords
  <2>3. CASE ht[At(t)].keys[1] = Empty
    <3>1. ht' = [ht EXCEPT ![At(t)].keys[1] = Key(t)] /\ at' = at
      BY <1>4, <2>3 DEF Claim
    <3> QED
      BY <3>1, <2>2, <1>3 DEF Entries
  <2>4. CASE ht[At(t)].keys[1] # Empty
    <3>1. ht' = ht /\ at' = [at EXCEPT ![t] = (@ + 1) % HtLen]
      BY <1>4, <2>4 DEF Claim
    <3>2. HtLen \in Nat \ {0} /\ at[t] + 1 \in Int
      BY <1>3, InputFacts
    <3>3. (at[t] + 1) % HtLen \in 0 .. HtLen - 1
      BY <3>2, Remainder
    <3> QED
      BY <3>1, <3>3, <1>3
  <2> QED
    BY <2>3, <2>4
<1>5. ASSUME NEW t \in BuildRows, Claim(t) \/ FillKeys(t) \/ FillRow(t)
      PROVE  build' \in [BuildRows -> {"claim", "keys", "row", "placed"}]
  BY <1>3, <1>5 DEF Claim, FillKeys, FillRow
<1>6. ASSUME NEW t \in BuildRows, FillKeys(t)
      PROVE  ht' \in [Slots -> Entries]
  <2>1. ht' = [ht EXCEPT ![At(t)].keys = [n \in Keys |-> IF n = 1 THEN @[n] ELSE Built(t).keys[n]]]
    BY <1>6 DEF FillKeys
  <2>2. CASE At(t) \in Slots
    <3>1. [n \in Keys |-> IF n = 1 THEN ht[At(t)].keys[n] ELSE Built(t).keys[n]] \in [Keys -> Int]
      BY <2>2, <1>3, RowsAreWords DEF Entries
    <3> QED
      BY <2>1, <3>1, <1>3 DEF Entries
  <2>3. CASE At(t) \notin Slots
    BY <2>1, <2>3, <1>3
  <2> QED
    BY <2>2, <2>3
<1>7. ASSUME NEW t \in BuildRows, FillRow(t)
      PROVE  ht' \in [Slots -> Entries]
  BY <1>3, <1>7 DEF FillRow, Entries
<1>8. ASSUME NEW p \in ProbeRows, ProbeRightSemiAnti(p) \/ Write(p)
      PROVE  ht' \in [Slots -> Entries]
  BY <1>3, <1>8, MarkedIsTyped DEF ProbeRightSemiAnti, Write
<1>9. ASSUME NEW p \in ProbeRows, Count(p)
      PROVE  place' \in [ProbeRows -> Nat] /\ total' \in Nat
  <2>1. Cardinality(Found(Probe(p))) \in Nat
    BY FoundIsFinite
  <2> QED
    BY <2>1, <1>3, <1>9 DEF Count
<1>10. ASSUME NEW p \in ProbeRows,
              ProbeMark(p) \/ ProbeRightSemiAnti(p) \/ Count(p) \/ Write(p)
       PROVE  probe' \in [ProbeRows -> {"probe", "write", "done"}]
  BY <1>3, <1>10 DEF ProbeMark, ProbeRightSemiAnti, Count, Write
<1>11. CASE RefuseJoin \/ EndBuild \/ EndProbe \/ Scan
  BY <1>3, <1>11 DEF RefuseJoin, EndBuild, EndProbe, Scan
<1>18. ASSUME ProbeReturns
       PROVE  /\ total' \in Nat /\ pc' \in {"build", "probe", "scan", "done", "refused"}
              /\ UNCHANGED <<ht, build, at, probe, place>>
  BY <1>18, HashJoinAssumption DEF ProbeReturns, HashJoinAssumption
<1>12. ASSUME NEW t \in BuildRows, Claim(t) PROVE UNCHANGED <<probe, place, total, pc>>
  BY <1>12 DEF Claim
<1>13. ASSUME NEW t \in BuildRows, FillKeys(t) \/ FillRow(t) PROVE UNCHANGED <<at, probe, place, total, pc>>
  BY <1>13 DEF FillKeys, FillRow
<1>14. ASSUME NEW p \in ProbeRows, ProbeMark(p) \/ Count(p) PROVE UNCHANGED <<ht, build, at, pc>>
  BY <1>14 DEF ProbeMark, Count
<1>15. ASSUME NEW p \in ProbeRows, ProbeRightSemiAnti(p) \/ Write(p) PROVE UNCHANGED <<build, at, place, total, pc>>
  BY <1>15 DEF ProbeRightSemiAnti, Write
<1>16. ASSUME NEW p \in ProbeRows, ProbeMark(p) PROVE UNCHANGED <<place, total>>
  BY <1>16 DEF ProbeMark
<1>17. CASE UNCHANGED vars
  BY <1>3, <1>17 DEF vars
<1> QED
  BY <1>3, <1>4, <1>5, <1>6, <1>7, <1>8, <1>9, <1>10, <1>11, <1>12, <1>13, <1>14, <1>15, <1>16, <1>17, <1>18 DEF Next

\* Slots hold words and row ids of the join, threads are at a step of theirs, and the
\* steps a thread counts stay below ht_len, for every join.
THEOREM TypeCorrect == Spec => []TypeOK
<1>1. Typed => TypeOK
  BY DEF Typed
<1> QED
  BY <1>1, InitIsTyped, NextIsTyped, PTL DEF Spec

-----------------------------------------------------------------------------
(* Claims *)

Claimed(t) == build[t] # "claim"

\* No two threads hold the same slot.
ClaimsApart == \A t, u \in BuildRows : t # u /\ Claimed(t) /\ Claimed(u) => At(t) # At(u)

\* A slot somebody holds begins with the key of that row, which is not the word of an
\* empty slot.
ClaimsHold == \A t \in BuildRows : Claimed(t) => ht[At(t)].keys[1] = Key(t)
KeysHold ==
    \A t \in BuildRows : build[t] \in {"row", "placed"} =>
        \A n \in Keys : ht[At(t)].keys[n] = Built(t).keys[n]
RowsHold == \A t \in BuildRows : build[t] = "placed" => ht[At(t)].row = t
PathsFull == \A t \in BuildRows : \A j \in 0 .. at[t] - 1 : ~ Ends(Built(t), j)

IInv == /\ Typed
        /\ ~ SentinelKey => ClaimsApart /\ ClaimsHold /\ KeysHold /\ RowsHold /\ PathsFull

LEMMA InitClaims == Init => IInv
<1> SUFFICES ASSUME Init PROVE IInv
  OBVIOUS
<1>1. Typed
  BY InitIsTyped
<1>2. \A t \in BuildRows : build[t] = "claim" /\ at[t] = 0
  BY DEF Init
<1> QED
  BY <1>1, <1>2 DEF IInv, ClaimsApart, ClaimsHold, KeysHold, RowsHold, PathsFull, Claimed

\* A step that keeps the threads, the keys and the rows keeps the claims.
LEMMA ProbesKeepClaims ==
    ASSUME IInv, Typed', input' = input, UNCHANGED <<build, at>>,
           \A s \in Slots : ht'[s].keys = ht[s].keys /\ ht'[s].row = ht[s].row
    PROVE  IInv'
<1> USE DEF IInv
<1>1. /\ BuildRows' = BuildRows /\ Keys' = Keys /\ Slots' = Slots
      /\ \A row, i : Slot(row, i)' = Slot(row, i)
      /\ \A t : Built(t)' = Built(t) /\ Key(t)' = Key(t)
  BY SameJoin
<1>3. \A t \in BuildRows : At(t)' = At(t) /\ (Claimed(t)' <=> Claimed(t))
  BY <1>1 DEF At, Claimed
<1>4. SentinelKey' = SentinelKey
  BY <1>1 DEF SentinelKey, Empty
<1> SUFFICES ASSUME ~ SentinelKey
             PROVE  (ClaimsApart /\ ClaimsHold /\ KeysHold /\ RowsHold /\ PathsFull)'
  BY <1>4
<1>5. ASSUME NEW t \in BuildRows PROVE At(t) \in Slots
  <2>1. at[t] \in Int
    BY InputFacts DEF Typed, TypeOK
  <2> QED
    BY <2>1, WalkInTable DEF At, Typed
<1>6. ASSUME NEW t \in BuildRows, NEW j \in Int PROVE Slot(Built(t), j) \in Slots
  BY WalkInTable DEF Typed
<1>7. ClaimsApart'
  BY <1>1, <1>3 DEF ClaimsApart
<1>8. ClaimsHold'
  BY <1>1, <1>3, <1>5 DEF ClaimsHold
<1>9. KeysHold'
  BY <1>1, <1>3, <1>5 DEF KeysHold, Claimed
<1>10. RowsHold'
  BY <1>1, <1>3, <1>5 DEF RowsHold, Claimed
<1>11. PathsFull'
  BY <1>1, <1>6 DEF PathsFull, Ends, Empty
<1> QED
  BY <1>7, <1>8, <1>9, <1>10, <1>11

\* A step of a thread of the build kernel keeps the claims: it writes to a slot that
\* is empty, or to its own.
LEMMA BuildKeepsClaims ==
    ASSUME IInv, Typed', NEW t \in BuildRows, Claim(t) \/ FillKeys(t) \/ FillRow(t)
    PROVE  IInv'
<1> USE DEF IInv
<1>1. input' = input /\ 1 \in Keys
  BY InputFacts DEF Claim, FillKeys, FillRow, Typed
<1>2. /\ BuildRows' = BuildRows /\ Keys' = Keys /\ Slots' = Slots /\ HtLen' = HtLen
      /\ \A row, i : Slot(row, i)' = Slot(row, i)
      /\ \A u : Built(u)' = Built(u)
  BY <1>1, SameJoin
<1>4. \A u \in BuildRows : Key(u)' = Key(u)
  BY <1>1, SameJoin
<1>5. SentinelKey' = SentinelKey
  BY <1>2, <1>4 DEF SentinelKey, Empty
<1> SUFFICES ASSUME ~ SentinelKey
             PROVE  (ClaimsApart /\ ClaimsHold /\ KeysHold /\ RowsHold /\ PathsFull)'
  BY <1>5
<1>6. /\ build \in [BuildRows -> {"claim", "keys", "row", "placed"}]
      /\ at \in [BuildRows -> 0 .. HtLen - 1] /\ HtLen \in Nat \ {0}
      /\ ht \in [Slots -> Entries]
  BY InputFacts DEF Typed, TypeOK, Entries
<1>7. \A u \in BuildRows : At(u) \in Slots
  BY <1>1, <1>6, WalkInTable DEF At, Typed
<1>8. \A u \in BuildRows, j \in Int : Slot(Built(u), j) \in Slots
  BY <1>1, WalkInTable DEF Typed
<1>9. \A u \in BuildRows : Key(u) # Empty
  BY DEF SentinelKey
<1>10. CASE Claim(t) /\ ht[At(t)].keys[1] = Empty
  <2>1. /\ ht' = [ht EXCEPT ![At(t)].keys[1] = Key(t)]
        /\ build' = [build EXCEPT ![t] = "keys"] /\ at' = at /\ build[t] = "claim"
    BY <1>10 DEF Claim
  <2>2. \A u \in BuildRows : At(u)' = At(u)
    BY <1>1, <1>2, <2>1 DEF At
  <2>3. \A u \in BuildRows : Claimed(u) => At(u) # At(t)
    BY <1>9, <1>10 DEF ClaimsHold
  <2>4. \A s \in Slots : s # At(t) => ht'[s] = ht[s]
    BY <2>1, <1>6
  <2>5. ht'[At(t)].keys[1] = Key(t)
    BY <2>1, <1>1, <1>6, <1>7 DEF Entries
  <2>6. \A u \in BuildRows : Claimed(u)' <=> (Claimed(u) \/ u = t)
    BY <2>1, <1>6 DEF Claimed
  <2>7. \A u \in BuildRows : build'[u] \in {"row", "placed"} => u # t /\ build'[u] = build[u] /\ Claimed(u)
    BY <2>1, <1>6 DEF Claimed
  <2>8. ClaimsApart'
    BY <1>2, <2>2, <2>3, <2>6 DEF ClaimsApart
  <2>9. ClaimsHold'
    BY <1>2, <1>4, <1>7, <2>2, <2>3, <2>4, <2>5, <2>6 DEF ClaimsHold
  <2>10. KeysHold'
    BY <1>1, <1>2, <1>7, <2>2, <2>3, <2>4, <2>7 DEF KeysHold
  <2>11. RowsHold'
    BY <1>2, <1>7, <2>2, <2>3, <2>4, <2>7 DEF RowsHold
  <2>12. PathsFull'
    <3> SUFFICES ASSUME NEW u \in BuildRows, NEW j \in 0 .. at[u] - 1
                 PROVE  ht'[Slot(Built(u), j)].keys[1] # Empty
      BY <1>1, <1>2, <2>1 DEF PathsFull, Ends, Empty
    <3>1. Slot(Built(u), j) \in Slots /\ ht[Slot(Built(u), j)].keys[1] # Empty
      BY <1>8 DEF PathsFull, Ends
    <3> QED
      BY <3>1, <1>9, <2>4, <2>5
  <2> QED
    BY <2>8, <2>9, <2>10, <2>11, <2>12
<1>11. CASE Claim(t) /\ ht[At(t)].keys[1] # Empty
  <2>1. /\ ht' = ht /\ build' = build /\ build[t] = "claim"
        /\ at' = [at EXCEPT ![t] = (at[t] + 1) % HtLen]
    BY <1>11 DEF Claim
  <2>2. \A u \in BuildRows : Claimed(u)' <=> Claimed(u)
    BY <2>1 DEF Claimed
  <2>3. \A u \in BuildRows : u # t => at'[u] = at[u] /\ At(u)' = At(u)
    BY <1>1, <1>2, <1>6, <2>1 DEF At
  <2>4. ~ Claimed(t)
    BY <2>1 DEF Claimed
  <2>5. ClaimsApart'
    BY <1>2, <2>2, <2>3, <2>4 DEF ClaimsApart
  <2>6. ClaimsHold'
    BY <1>2, <1>4, <2>1, <2>2, <2>3, <2>4 DEF ClaimsHold
  <2>7. KeysHold'
    BY <1>1, <1>2, <2>1, <2>3 DEF KeysHold
  <2>8. RowsHold'
    BY <1>2, <2>1, <2>3 DEF RowsHold
  <2>9. PathsFull'
    <3> SUFFICES ASSUME NEW u \in BuildRows, NEW j \in 0 .. at'[u] - 1
                 PROVE  ~ Ends(Built(u), j)
      BY <1>1, <1>2, <2>1 DEF PathsFull, Ends, Empty
    <3>1. CASE u # t
      BY <3>1, <2>3 DEF PathsFull
    <3>2. CASE u = t
      <4>1. at[t] + 1 \in Int /\ at[t] + 1 >= 0
        BY <1>6
      <4>2. (at[t] + 1) % HtLen <= at[t] + 1 /\ (at[t] + 1) % HtLen \in Int
        BY <4>1, <1>6, Remainder
      <4>3. at'[t] = (at[t] + 1) % HtLen
        BY <2>1, <1>6
      <4>4. j \in 0 .. at[t] - 1 \/ j = at[t]
        BY <3>2, <4>2, <4>3, <1>6
      <4>5. ~ Ends(Built(t), at[t])
        BY <1>11 DEF Ends, At
      <4> QED
        BY <3>2, <4>4, <4>5 DEF PathsFull
    <3> QED
      BY <3>1, <3>2
  <2> QED
    BY <2>5, <2>6, <2>7, <2>8, <2>9
<1>12. CASE FillKeys(t)
  <2> DEFINE filled == [n \in Keys |-> IF n = 1 THEN ht[At(t)].keys[n] ELSE Built(t).keys[n]]
  <2>1. /\ ht' = [ht EXCEPT ![At(t)].keys = filled] /\ at' = at
        /\ build' = [build EXCEPT ![t] = "row"] /\ build[t] = "keys"
    BY <1>12 DEF FillKeys
  <2>2. \A u \in BuildRows : At(u)' = At(u) /\ (Claimed(u)' <=> Claimed(u))
    BY <1>1, <1>2, <1>6, <2>1 DEF At, Claimed
  <2>3. Claimed(t)
    BY <2>1 DEF Claimed
  <2>4. \A s \in Slots : s # At(t) => ht'[s] = ht[s]
    BY <2>1, <1>6
  <2>5. ht'[At(t)].keys = filled
    BY <2>1, <1>6, <1>7 DEF Entries
  <2>6. \A u \in BuildRows : u # t => build'[u] = build[u]
    BY <2>1, <1>6
  <2>7. ht'[At(t)].keys[1] = ht[At(t)].keys[1]
    BY <2>5, <1>1
  <2>8. \A s \in Slots : ht'[s].keys[1] = ht[s].keys[1]
    BY <2>4, <2>7
  <2>9. \A n \in Keys : ht'[At(t)].keys[n] = Built(t).keys[n]
    <3>1. ht[At(t)].keys[1] = Built(t).keys[1]
      BY <2>3, RowsAreWords DEF ClaimsHold, Typed
    <3> QED
      BY <3>1, <2>5
  <2>10. ClaimsApart'
    BY <1>2, <2>2 DEF ClaimsApart
  <2>11. ClaimsHold'
    BY <1>2, <1>4, <1>7, <2>2, <2>8 DEF ClaimsHold
  <2>12. KeysHold'
    <3> SUFFICES ASSUME NEW u \in BuildRows, build'[u] \in {"row", "placed"}, NEW n \in Keys
                 PROVE  ht'[At(u)].keys[n] = Built(u).keys[n]
      BY <1>1, <1>2, <2>2 DEF KeysHold
    <3>1. CASE u = t
      BY <3>1, <2>9
    <3>2. CASE u # t
      <4>1. build[u] \in {"row", "placed"} /\ Claimed(u)
        BY <3>2, <2>6 DEF Claimed
      <4>2. At(u) # At(t)
        BY <3>2, <4>1, <2>3 DEF ClaimsApart
      <4> QED
        BY <4>1, <4>2, <2>4, <1>7 DEF KeysHold
    <3> QED
      BY <3>1, <3>2
  <2>13. RowsHold'
    <3> SUFFICES ASSUME NEW u \in BuildRows, build'[u] = "placed" PROVE ht'[At(u)].row = u
      BY <1>2, <2>2 DEF RowsHold
    <3>1. u # t
      BY <2>1, <1>6
    <3>2. build[u] = "placed" /\ Claimed(u)
      BY <3>1, <2>6 DEF Claimed
    <3>3. At(u) # At(t)
      BY <3>1, <3>2, <2>3 DEF ClaimsApart
    <3> QED
      BY <3>2, <3>3, <2>4, <1>7 DEF RowsHold
  <2>14. PathsFull'
    <3> SUFFICES ASSUME NEW u \in BuildRows, NEW j \in 0 .. at[u] - 1
                 PROVE  ht'[Slot(Built(u), j)].keys[1] # Empty
      BY <1>1, <1>2, <2>1 DEF PathsFull, Ends, Empty
    <3>1. Slot(Built(u), j) \in Slots /\ ht[Slot(Built(u), j)].keys[1] # Empty
      BY <1>8 DEF PathsFull, Ends
    <3> QED
      BY <3>1, <2>8
  <2> QED
    BY <2>10, <2>11, <2>12, <2>13, <2>14
<1>13. CASE FillRow(t)
  <2>1. /\ ht' = [ht EXCEPT ![At(t)].row = t] /\ at' = at
        /\ build' = [build EXCEPT ![t] = "placed"] /\ build[t] = "row"
    BY <1>13 DEF FillRow
  <2>2. \A u \in BuildRows : At(u)' = At(u) /\ (Claimed(u)' <=> Claimed(u))
    BY <1>1, <1>2, <1>6, <2>1 DEF At, Claimed
  <2>3. Claimed(t)
    BY <2>1 DEF Claimed
  <2>4. \A s \in Slots : ht'[s].keys = ht[s].keys /\ (s # At(t) => ht'[s] = ht[s])
    BY <2>1, <1>6 DEF Entries
  <2>5. ht'[At(t)].row = t
    BY <2>1, <1>6, <1>7 DEF Entries
  <2>6. \A u \in BuildRows : u # t => build'[u] = build[u]
    BY <2>1, <1>6
  <2>7. ClaimsApart'
    BY <1>2, <2>2 DEF ClaimsApart
  <2>8. ClaimsHold'
    BY <1>2, <1>4, <1>7, <2>2, <2>4 DEF ClaimsHold
  <2>9. KeysHold'
    BY <1>1, <1>2, <1>7, <2>1, <2>2, <2>4, <2>6 DEF KeysHold
  <2>10. RowsHold'
    <3> SUFFICES ASSUME NEW u \in BuildRows, build'[u] = "placed", u # t PROVE ht'[At(u)].row = u
      BY <1>2, <2>2, <2>5 DEF RowsHold
    <3>1. build[u] = "placed" /\ Claimed(u)
      BY <2>6 DEF Claimed
    <3>2. At(u) # At(t)
      BY <3>1, <2>3 DEF ClaimsApart
    <3> QED
      BY <3>1, <3>2, <2>4, <1>7 DEF RowsHold
  <2>11. PathsFull'
    <3> SUFFICES ASSUME NEW u \in BuildRows, NEW j \in 0 .. at[u] - 1
                 PROVE  ht'[Slot(Built(u), j)].keys[1] # Empty
      BY <1>1, <1>2, <2>1 DEF PathsFull, Ends, Empty
    <3>1. Slot(Built(u), j) \in Slots /\ ht[Slot(Built(u), j)].keys[1] # Empty
      BY <1>8 DEF PathsFull, Ends
    <3> QED
      BY <3>1, <2>4
  <2> QED
    BY <2>7, <2>8, <2>9, <2>10, <2>11
<1> QED
  BY <1>10, <1>11, <1>12, <1>13

LEMMA NextClaims == IInv /\ [Next]_vars => IInv'
<1> SUFFICES ASSUME IInv, [Next]_vars PROVE IInv'
  OBVIOUS
<1>1. Typed' /\ input' = input
  BY NextIsTyped, StepsKeepTheJoin DEF IInv
<1>2. CASE \E t \in BuildRows : Claim(t) \/ FillKeys(t) \/ FillRow(t)
  BY <1>1, <1>2, BuildKeepsClaims
<1>3. CASE \E p \in ProbeRows : ProbeRightSemiAnti(p) \/ Write(p)
  <2>1. PICK p \in ProbeRows : ProbeRightSemiAnti(p) \/ Write(p)
    BY <1>3
  <2>2. UNCHANGED <<build, at>> /\ (ht' = ht \/ ht' = Marked(Probe(p), p))
    BY <2>1 DEF ProbeRightSemiAnti, Write
  <2>3. \A s \in Slots : ht'[s].keys = ht[s].keys /\ ht'[s].row = ht[s].row
    BY <2>2, MarkedIsTyped DEF IInv
  <2> QED
    BY <1>1, <2>2, <2>3, ProbesKeepClaims
<1>4. CASE \/ RefuseJoin \/ EndBuild \/ ProbeReturns \/ EndProbe \/ Scan
           \/ \E p \in ProbeRows : ProbeMark(p) \/ Count(p)
           \/ UNCHANGED vars
  <2>1. UNCHANGED <<ht, build, at>>
    BY <1>4 DEF RefuseJoin, EndBuild, ProbeReturns, EndProbe, Scan, ProbeMark, Count, vars
  <2> QED
    BY <1>1, <2>1, ProbesKeepClaims
<1> QED
  BY <1>2, <1>3, <1>4 DEF Next

LEMMA ClaimsAlways == Spec => []IInv
  BY InitClaims, NextClaims, PTL DEF Spec

\* The slot a thread won by atomicCAS stays its own while it fills it with plain writes
\* and ever after, for any number of threads in any order, unless a key is the word
\* of an empty slot.
THEOREM ClaimedRowsAreKept == Spec => []RowsAreKept
<1>1. IInv => RowsAreKept
  BY DEF IInv, ClaimsHold, KeysHold, RowsHold, RowsAreKept, Claimed
<1> QED
  BY <1>1, ClaimsAlways, PTL

\* No slot the build stepped over is ever empty again, so that a probe with the same
\* keys comes to the row, for any stride and any length of the table.
THEOREM PlacedRowsAreReachable == Spec => []RowsAreReachable
<1>1. IInv => RowsAreReachable
  BY DEF IInv, PathsFull, RowsAreReachable
<1> QED
  BY <1>1, ClaimsAlways, PTL
=============================================================================
