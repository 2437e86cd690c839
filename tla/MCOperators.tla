----------------------------- MODULE MCOperators -----------------------------
(* The one-shot computations around a pipeline, each from what it is given to    *)
(* what it hands on: an aggregate, a sort, an INNER join or the generation of a  *)
(* physical plan, whichever the input is for.  They share the names of their     *)
(* variables; what the others keep is idle.                                      *)
EXTENDS MCAggregates

CONSTANTS
    PrefixBytes, MaxRows,    \* of the sorts
    BlockThreads, Wrap,      \* of the joins
    Text                     \* a string

VARIABLES conditions, kept, offset, total, pairs
joining == <<conditions, kept, offset, total, pairs>>

Sorts == INSTANCE MCTopN
Joins == INSTANCE MCInnerJoin
Top == INSTANCE TopN WITH Families <- Sorts!SortFamilies
Join == INSTANCE InnerJoin WITH Families <- Joins!JoinFamilies
Plans == INSTANCE MCPlannedQuery
Plan == INSTANCE PlannedQuery WITH Families <- Plans!PlanFamilies, Texts <- {Text}

IsAggregate == "aggs" \in DOMAIN input
IsSort == "keys" \in DOMAIN input
IsJoin == "conditions" \in DOMAIN input
IsPlan == "logical" \in DOMAIN input

JoinIdle == conditions = <<>> /\ kept = <<>> /\ offset = <<>> /\ total = 0 /\ pairs = <<>>

OperatorInit ==
    \/ Init /\ JoinIdle
    \/ Top!Init /\ projection = <<>> /\ JoinIdle
    \/ Join!Init /\ sinks = 0 /\ projection = <<>> /\ result = <<>>
    \/ Plan!Init /\ sinks = 0 /\ projection = <<>> /\ JoinIdle

OperatorNext ==
    \/ IsAggregate /\ Next /\ UNCHANGED joining
    \/ IsSort /\ Top!Next /\ UNCHANGED <<projection, joining>>
    \/ IsJoin /\ Join!Next /\ UNCHANGED <<sinks, projection, result>>
    \/ IsPlan /\ Plan!Next /\ UNCHANGED <<sinks, projection, joining>>

OperatorSpec == OperatorInit /\ [][OperatorNext]_<<vars, joining>>

-------------------------------------------------------------------------------
\* The groups of an aggregate are SQL's (Aggregates, GroupsAreSql).
AggregateGroupsAreSql == IsAggregate => GroupsAreSql

\* The aggregates of each group are SQL's (Aggregates, AggregatesAreSql).
AggregateValuesAreSql == IsAggregate => AggregatesAreSql

\* A sort or top-N that is answered has SQL's rows in SQL's order (TopN, SortedIsSql).
SortedRowsAreSql == IsSort => Top!SortedIsSql

\* An INNER join that is answered has SQL's pairs (InnerJoin, PairsAreSql).
JoinedPairsAreSql == IsJoin => Join!PairsAreSql

\* A row of an INNER join has the cells of its pair (InnerJoin, CellsArePaired).
JoinedCellsArePaired == IsJoin => Join!CellsArePaired

\* A generated plan has the rows of its logical plan (PlannedQuery, RowsAreThePlans).
PlannedRowsAreThePlans == IsPlan => Plan!RowsAreThePlans

\* Scans read the delim join or CTE they are planned for (PlannedQuery, ScansAreServed).
PlannedScansAreServed == IsPlan => Plan!ScansAreServed
===============================================================================
