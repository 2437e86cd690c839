------------------------------ MODULE DataFlow ------------------------------
(***************************************************************************)
(* What a query plan asks of its execution, with no word about pipelines:  *)
(* every operator that holds a result (a hash table, groups, a CTE, the    *)
(* query's rows) is filled once, after everything that its input reads on  *)
(* the way has been filled, and the query ends with its result collected   *)
(* or with an exception.                                                   *)
(***************************************************************************)
EXTENDS PhysicalPlan

VARIABLES plan,      \* the physical plan of the query
          filled,    \* the operators that hold their complete result
          thrown     \* an operator has thrown; DuckDB takes over

vars == <<plan, filled, thrown>>

Init == filled = {} /\ thrown = FALSE

Fill(o) ==
    /\ ~ thrown
    /\ o \in Holders(plan) \ filled
    /\ ReadsOf(plan, o) \subseteq filled
    /\ filled' = filled \cup {o}
    /\ UNCHANGED <<plan, thrown>>

Throw ==
    /\ 1 \notin filled
    /\ ~ thrown
    /\ thrown' = TRUE
    /\ UNCHANGED <<plan, filled>>

Next == Throw \/ \E o \in Ops(plan) : Fill(o)

Spec == Init /\ [][Next]_vars /\ WF_vars(Next)
=============================================================================
