------------------------------ MODULE MCHashJoin ------------------------------
(* Joins of up to three build rows and two probe rows over a few keys, among   *)
(* them the sentinel, NULL and -0.0, in a table of up to six slots.  The       *)
(* stride of the code has no factor in common with such a table: 3 stands for  *)
(* a build side whose table has one in common with 100007.  Columns of another *)
(* width than the first, three equalities, and what the build refuses come in  *)
(* families of their own.                                                      *)
EXTENDS HashJoin

SeqsUpTo(S, n) == UNION {[1 .. k -> S] : k \in 0 .. n}
Row(k) == [keys |-> k, stray |-> [n \in DOMAIN k |-> 9], valid |-> TRUE]
NullRow(k) == [Row(k) EXCEPT !.valid = FALSE]

OneKey == {Row(<<0>>), Row(<<2>>), Row(<<6>>)}
TwoKeys == {Row(<<0, 0>>), Row(<<0, 1>>), Row(<<1, 1>>)}
ThreeKeys == {Row(<<0, 0, 0>>), Row(<<0, 1, 0>>)}
Sentinel == {<<Row(<<-1>>)>>, <<Row(<<-1>>), Row(<<0>>)>>}

\* Second keys that fill one half of a word, or both, and a negative one.
WideKeys == {Row(<<0, 0>>), Row(<<0, 33>>), Row(<<1, -2>>)}
Zero(v) == Row(<<v>>)
NegativeZero == -(Wrap \div 2)

Distinct(rows, n) == \A i, j \in DOMAIN rows : i # j => rows[i].keys[n] # rows[j].keys[n]
TypedJoins(joins, modes, types, strides, builds, probes) ==
    {[join |-> j, modes |-> modes, types |-> types, unique |-> u, stride |-> s, build |-> b, probe |-> p] :
        j \in joins, u \in {{}}, s \in strides, b \in builds, p \in probes}
AllOf(type, modes) == [n \in DOMAIN modes |-> type]
Joins(joins, modes, strides, builds, probes) ==
    TypedJoins(joins, modes, AllOf("INT64", modes), strides, builds, probes)
UniqueJoins(joins, modes, n, builds, probes) ==
    {[in EXCEPT !.unique = {n}] : in \in Joins(joins, modes, {100007}, builds, probes)}

MCInputs ==
    Joins(Supported, <<"=">>, {100007, 3}, SeqsUpTo(OneKey, 3), SeqsUpTo({Row(<<0>>), Row(<<6>>)}, 2))
    \cup Joins(Supported, <<"=", "=">>, {100007}, SeqsUpTo(TwoKeys, 2), SeqsUpTo(TwoKeys, 1))
    \cup Joins(Supported, <<"=", "#">>, {100007}, SeqsUpTo(TwoKeys, 3), SeqsUpTo(TwoKeys, 1))
    \cup UniqueJoins(Supported, <<"=">>, 1, SeqsUpTo(OneKey, 3), SeqsUpTo({Row(<<0>>), Row(<<6>>)}, 2))
    \cup UniqueJoins(Supported, <<"=", "#">>, 2, {x \in SeqsUpTo(TwoKeys, 2) : Distinct(x, 2)}, SeqsUpTo(TwoKeys \cup {Row(<<0, 2>>)}, 1))
    \cup Joins(Supported, <<"=">>, {100007}, Sentinel \cup {<<NullRow(<<0>>)>>}, {<<Row(<<0>>)>>, <<Row(<<-1>>)>>})

\* Three equalities: the kernels return.
UnhashedInputs == Joins(Supported, <<"=", "=", "=">>, {100007}, SeqsUpTo(ThreeKeys, 2), SeqsUpTo(ThreeKeys, 1))

\* A second key twice as wide as the first, or half as wide, or of neither width; and
\* a FLOAT64 with two zeros.
MixedInputs ==
    UNION {TypedJoins(Supported, <<"=", m[1]>>, <<m[2], m[3]>>, {100007}, SeqsUpTo(WideKeys, 2), SeqsUpTo(WideKeys, 2)) :
        m \in {<<"=", "INT32", "INT64">>, <<"#", "INT32", "INT64">>, <<"=", "FLOAT64", "DATE">>}}
    \cup TypedJoins(Supported, <<"=", "=">>, <<"INT32", "VARCHAR">>, {100007}, SeqsUpTo(TwoKeys, 1), SeqsUpTo(TwoKeys, 1))
    \cup TypedJoins(Supported, <<"=">>, <<"FLOAT64">>, {100007}, SeqsUpTo({Zero(0), Zero(NegativeZero)}, 2), SeqsUpTo({Zero(0)}, 1))

\* What the build throws at: a join, a comparison, a type of the first key.
RefusedInputs ==
    Joins({"ANTI", "LEFT"}, <<"=">>, {100007}, {<<Row(<<0>>)>>}, {<<Row(<<0>>)>>})
    \cup UNION {Joins({"SEMI"}, m, {100007}, {<<Row([n \in DOMAIN m |-> 0])>>}, {<<Row([n \in DOMAIN m |-> 0])>>}) :
                    m \in {<<"#">>, <<"=", "<">>, <<"=", "=", "#">>, <<"=", "#", "#">>}}
    \cup UNION {TypedJoins({"MARK"}, <<"=">>, <<type>>, {100007}, {<<Row(<<0>>)>>}, {<<Row(<<0>>)>>}) :
                    type \in {"VARCHAR", "DATE", "DECIMAL64", "FLOAT32"}}

AllInputs == MCInputs \cup UnhashedInputs \cup MixedInputs \cup RefusedInputs
===============================================================================
