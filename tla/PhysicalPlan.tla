---------------------------- MODULE PhysicalPlan ----------------------------
(***************************************************************************)
(* Physical plans: trees of GPU operators, as far as the construction and  *)
(* the order of pipelines depend on them.                                  *)
(*                                                                         *)
(* A plan is a sequence of operators; an operator is known by its place.   *)
(* Children come after their parent, and operator 1 is the result          *)
(* collector.  The record of an operator holds                             *)
(*   type      its PhysicalOperatorType                                    *)
(*   join      the JoinType of a join                                      *)
(*   kids      its children                                                *)
(*   inner     the join a duplicate eliminating join works for             *)
(*   distinct  the aggregate such a join fills beside its join             *)
(*   scans     its DELIM_SCANs, or the CTE_SCANs of a CTE                  *)
(***************************************************************************)
EXTENDS Naturals, Sequences

Leaves == {"TABLE_SCAN", "COLUMN_DATA_SCAN", "DUMMY_SCAN", "EMPTY_RESULT"}
Scans == {"DELIM_SCAN", "CTE_SCAN"}
Streams == {"FILTER", "PROJECTION", "STREAMING_LIMIT"}
Blocking == {"RESULT_COLLECTOR", "GROUP_BY", "ORDER_BY", "TOP_N"}   \* also the other aggregates
Joins == {"HASH_JOIN", "NESTED_LOOP_JOIN"}
DelimJoins == {"LEFT_DELIM_JOIN", "RIGHT_DELIM_JOIN"}

\* The join types that output rows of the build side after the probe.
RightTypes == {"RIGHT", "RIGHT_SEMI", "RIGHT_ANTI"}

Ops(plan) == DOMAIN plan
Child(plan, o, i) == plan[o].kids[i]
OfType(plan, types) == {o \in Ops(plan) : plan[o].type \in types}

\* The delim joins, and the CTEs, with s among their scans.
ProducersOf(plan, s) == {o \in Ops(plan) : s \in plan[o].scans}

\* A right delim join fills the hash table of its join itself; the join's own
\* build side is a placeholder.
FilledByDelim(plan, j) ==
    {d \in OfType(plan, {"RIGHT_DELIM_JOIN"}) : plan[d].inner = j}

\* A left delim join keeps its input for the scan that it puts below its join.
CachedBy(plan, s) ==
    {d \in OfType(plan, {"LEFT_DELIM_JOIN"}) : Child(plan, plan[d].inner, 1) = s}

\* The operators whose Sink fills what is read from o.
FilledBy(plan, o) ==
    CASE plan[o].type \in Scans -> ProducersOf(plan, o)
      [] plan[o].type \in Leaves -> CachedBy(plan, o)
      [] plan[o].type \in Joins ->
           IF FilledByDelim(plan, o) = {} THEN {o} ELSE FilledByDelim(plan, o)
      [] plan[o].type \in Blocking ->
           IF \E d \in Ops(plan) : plan[d].distinct = o
           THEN {d \in Ops(plan) : plan[d].distinct = o}
           ELSE {o}

\* The operator whose output is sunk into o.
Input(plan, o) == Child(plan, o, IF plan[o].type \in Joins THEN 2 ELSE 1)

\* The operators that rows pass from the last sink before o on up to o, in this order.
Path(plan) ==
    LET path[o \in Ops(plan)] ==
          CASE plan[o].type \in Leaves \cup Scans \cup Blocking -> <<o>>
            [] plan[o].type \in Streams \cup Joins -> Append(path[Child(plan, o, 1)], o)
            [] plan[o].type \in DelimJoins -> path[plan[o].inner]
            [] plan[o].type = "CTE" -> path[Child(plan, o, 2)]
    IN path

\* The rows that fill o pass these operators.
Way(plan, o) == Path(plan)[Input(plan, o)]

\* The operators that are filled through a Sink.
Holders(plan) ==
    {o \in OfType(plan, Joins \cup DelimJoins \cup Blocking \cup {"CTE"}) :
        plan[o].kids # <<>> /\ FilledByDelim(plan, o) = {}}

\* The operators whose Sink fills something read on the way of o's rows.
ReadsOf(plan, o) ==
    UNION {FilledBy(plan, Way(plan, o)[i]) :
             i \in {k \in DOMAIN Way(plan, o) : plan[Way(plan, o)[k]].type \notin Streams}}

-----------------------------------------------------------------------------
(* Plans as the generator makes them.                                        *)

\* The operators an operator owns: its children, and the join a delim join works
\* for.  The distinct aggregate of a delim join stands beside the tree.
Owned(plan, o) ==
    {plan[o].kids[i] : i \in DOMAIN plan[o].kids} \cup (IF plan[o].inner = 0 THEN {} ELSE {plan[o].inner})

\* The operators from o on downwards.
Subtree(plan) ==
    LET below[o \in Ops(plan)] == {o} \cup UNION {below[k] : k \in Owned(plan, o)}
    IN below

\* An operator has one owner, which comes before it.
IsTree(plan) ==
    /\ \A o \in Ops(plan) :
          /\ \A k \in Owned(plan, o) : k \in Ops(plan) /\ k > o
          /\ \A i, k \in DOMAIN plan[o].kids : plan[o].kids[i] = plan[o].kids[k] => i = k
          /\ \A i \in DOMAIN plan[o].kids : plan[o].kids[i] # plan[o].inner
    /\ \A o, p \in Ops(plan) : o # p => Owned(plan, o) \cap Owned(plan, p) = {}

OpTypes == Leaves \cup Scans \cup Streams \cup Blocking \cup Joins \cup DelimJoins \cup {"CTE"}
Operator == [type : OpTypes, join : STRING, kids : Seq(Nat), inner : Nat, distinct : Nat, scans : SUBSET Nat]

\* The children of an operator of each type, and what a delim join or CTE has besides.
HasShape(plan, o) ==
    LET op == plan[o]
    IN  /\ Len(op.kids) = CASE op.type \in Leaves \cup Scans -> 0
                            [] op.type \in Streams \cup DelimJoins -> 1
                            [] op.type \in Joins \cup {"CTE"} -> 2
                            [] op.type \in Blocking ->
                                 IF \E d \in Ops(plan) : plan[d].distinct = o THEN 0 ELSE 1
        /\ op.type \in DelimJoins => /\ op.inner \in OfType(plan, Joins)
                                     /\ op.distinct \in OfType(plan, {"GROUP_BY"})
        /\ op.type \notin DelimJoins => op.inner = 0 /\ op.distinct = 0
        /\ op.type \notin DelimJoins \cup {"CTE"} => op.scans = {}

\* Below its join, a delim join has its scans and one leaf: in a left one the
\* input it caches, in a right one the place of a build side that is never built.
HasDelimShape(plan, d) ==
    LET inner == plan[d].inner
    IN  /\ plan[d].scans \subseteq OfType(plan, {"DELIM_SCAN"}) \cap Subtree(plan)[inner]
        /\ Child(plan, inner, IF plan[d].type = "LEFT_DELIM_JOIN" THEN 1 ELSE 2) \in OfType(plan, Leaves)
        /\ \A e \in OfType(plan, DelimJoins) : plan[e].distinct = plan[d].distinct => e = d
        /\ \A o \in Ops(plan) : plan[d].distinct \notin Owned(plan, o)

WellFormed(plan) ==
    /\ plan \in Seq(Operator) /\ plan # <<>> /\ plan[1].type = "RESULT_COLLECTOR"
    /\ IsTree(plan)
    /\ \A o \in Ops(plan) : HasShape(plan, o)
    /\ \A d \in OfType(plan, DelimJoins) : HasDelimShape(plan, d)
    /\ \A c \in OfType(plan, {"CTE"}) :
          plan[c].scans \subseteq OfType(plan, {"CTE_SCAN"}) \cap Subtree(plan)[Child(plan, c, 2)]
    /\ \A s \in OfType(plan, Scans) : \E d \in Ops(plan) : ProducersOf(plan, s) = {d}
    /\ Holders(plan) \subseteq Subtree(plan)[1]
=============================================================================
