---------------------------- MODULE GPUExecutor ----------------------------
(***************************************************************************)
(* GPUExecutor: orders the pipelines of a query (InitializeInternal) and   *)
(* runs them one after the other on one thread (Execute).                  *)
(*                                                                         *)
(* Rows are abstracted to the pipelines that produced them: held[o] lists  *)
(* the Sink calls whose rows operator o still holds.                       *)
(***************************************************************************)
EXTENDS GPUMetaPipeline

VARIABLES
    mode,           \* "build", "schedule", "execute", "done" or "thrown"
    calls,          \* calls of GetMetaPipelines to be made, by their meta-pipelines
    toSchedule,     \* to_schedule: all meta-pipelines but the root's
    cursor,         \* meta: place in toSchedule, from its end
    count,          \* schedule_count
    inside,         \* pipeline_inside: the pipelines still to be pushed
    scheduled,      \* the pipelines in the order in which they run
    next,           \* pipeline_idx
    held,           \* per operator, the Sink calls whose rows it holds
    table,          \* per hash join, gpu_hash_table: "none", "null", "built", "freed"
    stale           \* a freed table's address was used while it was another's

scheduleVars == <<calls, toSchedule, cursor, count, inside, scheduled>>
runVars == <<next, held, table, stale>>
vars == <<buildVars, mode, scheduleVars, runVars>>

Init ==
    /\ BuildInit
    /\ mode = "build"
    /\ calls = <<>> /\ toSchedule = <<>> /\ cursor = 0 /\ count = 0
    /\ inside = <<>> /\ scheduled = <<>>
    /\ next = 1
    /\ held = [o \in Ops(plan) |-> <<>>]
    /\ table = [o \in OfType(plan, {"HASH_JOIN"}) |-> "none"]
    /\ stale = FALSE

BuildPipelines ==
    /\ mode = "build"
    /\ BuildNext
    /\ UNCHANGED <<mode, scheduleVars, runVars>>

\* Ready turns the operators around, into the order in which rows pass them.
Ready ==
    /\ mode = "build"
    /\ stack = <<>>
    /\ pipes' = [p \in DOMAIN pipes |-> [pipes[p] EXCEPT !.ops = Reverse(@)]]
    /\ calls' = metas[1].kids
    /\ mode' = "schedule"
    /\ UNCHANGED <<plan, metas, stack, scanDeps, toSchedule, cursor, count, inside, scheduled, runVars>>

\* Faulty: without the recursion.
CollectChildren ==
    /\ mode = "schedule"
    /\ calls # <<>>
    /\ toSchedule' = Append(toSchedule, Head(calls))
    /\ calls' = Tail(calls)
    /\ UNCHANGED <<buildVars, mode, cursor, count, inside, scheduled, runVars>>

\* GetMetaPipelines: a meta-pipeline, then those below it.
GetMetaPipelines ==
    /\ mode = "schedule"
    /\ calls # <<>>
    /\ toSchedule' = Append(toSchedule, Head(calls))
    /\ calls' = metas[Head(calls)].kids \o Tail(calls)
    /\ UNCHANGED <<buildVars, mode, cursor, count, inside, scheduled, runVars>>

-----------------------------------------------------------------------------
\* Faulty: every pipeline is run.
RunsAlways(p) == p \in DOMAIN pipes

\* A hash join is the source of a pipeline whatever its type; only the types that
\* have rows to add are run.
Runs(p) == plan[pipes[p].source].type = "HASH_JOIN" => plan[pipes[p].source].join \in RightTypes

Current == toSchedule[Len(toSchedule) - cursor]

\* Faulty: dependencies are not looked at.
NotScheduled == Base(Current) \notin ToSet(scheduled)

\* The children are looked up without recursion and without the meta-pipeline itself:
\* there are none.  What the base pipeline depends on must come before it.
ShouldSchedule ==
    /\ Base(Current) \notin ToSet(scheduled)
    /\ pipes[Base(Current)].deps \subseteq ToSet(scheduled)

\* The scheduling loop is between two turns.
BetweenTurns == mode = "schedule" /\ calls = <<>> /\ inside = <<>>

\* Faulty: the pipelines of a meta-pipeline are pushed in reverse.
ScheduleLastFirst ==
    /\ BetweenTurns
    /\ count < Len(toSchedule)
    /\ IF ShouldSchedule
       THEN inside' = Reverse(metas[Current].pipes) /\ count' = count + 1
       ELSE UNCHANGED <<inside, count>>
    /\ cursor' = (cursor + 1) % Len(toSchedule)
    /\ UNCHANGED <<buildVars, mode, calls, toSchedule, scheduled, runVars>>

\* One turn of the scheduling loop, up to the loop over pipeline_inside.
ScheduleTurn ==
    /\ BetweenTurns
    /\ count < Len(toSchedule)
    /\ IF ShouldSchedule
       THEN inside' = metas[Current].pipes /\ count' = count + 1
       ELSE UNCHANGED <<inside, count>>
    /\ cursor' = (cursor + 1) % Len(toSchedule)
    /\ UNCHANGED <<buildVars, mode, calls, toSchedule, scheduled, runVars>>

\* One turn of the loop over pipeline_inside.
PushPipeline ==
    /\ mode = "schedule"
    /\ inside # <<>>
    /\ scheduled' = IF Runs(Head(inside)) THEN Append(scheduled, Head(inside)) ELSE scheduled
    /\ inside' = Tail(inside)
    /\ UNCHANGED <<buildVars, mode, calls, toSchedule, cursor, count, runVars>>

StartExecution ==
    /\ BetweenTurns
    /\ count = Len(toSchedule)
    /\ mode' = "execute"
    /\ UNCHANGED <<buildVars, scheduleVars, runVars>>

-----------------------------------------------------------------------------
\* Joins whose Execute has no case for their type.
Unsupported(j) ==
    \/ plan[j].type = "HASH_JOIN" /\ plan[j].join \in {"LEFT", "OUTER", "ANTI"}
    \/ plan[j].type = "NESTED_LOOP_JOIN" /\ plan[j].join # "INNER"

ProbedBy(p) == {o \in ToSet(pipes[p].ops) : plan[o].type \in Joins}

\* Faulty: tables are freed whatever the type of the join.
FreedAlways(p) == ProbedBy(p) \cap DOMAIN table

\* The joins that give up their hash table once a pipeline has probed it.
FreedBy(p) == {j \in ProbedBy(p) \cap DOMAIN table : plan[j].join \in {"INNER", "SEMI", "MARK"}}

\* Sink: operators that keep only the rows of this call, and those that add them.
ReplacedBy(s) ==
    CASE plan[s].type \in Joins \cup {"CTE"} -> {s}
      [] plan[s].type = "LEFT_DELIM_JOIN" -> {Child(plan, plan[s].inner, 1)}
      [] plan[s].type = "RIGHT_DELIM_JOIN" -> {plan[s].inner}
      [] plan[s].type \in Blocking -> {}
ExtendedBy(s) ==
    CASE plan[s].type \in Joins \cup {"CTE"} -> {}
      [] plan[s].type \in DelimJoins -> {plan[s].distinct}
      [] plan[s].type \in Blocking -> {s}

\* The tables that a pipeline scans or probes.
UsedBy(p) == (ProbedBy(p) \cup {pipes[p].source}) \cap DOMAIN table

\* GetData and Execute have a case for the join types of this pipeline.
Supported(p) == Runs(p) /\ \A j \in ProbedBy(p) : ~ Unsupported(j)

\* One turn of the execution loop: GetData, each operator's Execute, Sink.  To free a
\* table again throws, unless its address has been handed out anew.
RunPipeline ==
    /\ mode = "execute"
    /\ LET p == scheduled[next]
           s == pipes[p].sink
       IN /\ Supported(p)
          /\ stale' = (stale \/ \E j \in UsedBy(p) : table[j] = "freed")
          /\ held' = [o \in Ops(plan) |-> IF o \in ReplacedBy(s) THEN <<p>>
                                          ELSE IF o \in ExtendedBy(s) THEN Append(held[o], p)
                                          ELSE held[o]]
          /\ \E built \in {"built", "null"} :
               table' = [j \in DOMAIN table |->
                           IF j \in ReplacedBy(s) THEN built
                           ELSE IF j \in FreedBy(p) /\ table[j] = "built" THEN "freed"
                           ELSE table[j]]
    /\ next' = next + 1
    /\ mode' = IF next = Len(scheduled) THEN "done" ELSE mode
    /\ UNCHANGED <<buildVars, scheduleVars>>

\* Whatever throws in Execute ends it: unsupported work, or no memory.
Throw ==
    /\ mode = "execute"
    /\ mode' = "thrown"
    /\ UNCHANGED <<buildVars, scheduleVars, runVars>>

Progress == \/ BuildPipelines \/ Ready \/ GetMetaPipelines \/ ScheduleTurn \/ PushPipeline
            \/ StartExecution \/ RunPipeline
Next == Progress \/ Throw

Spec == Init /\ [][Next]_vars
FairSpec == Spec /\ WF_vars(Next)

-----------------------------------------------------------------------------
Executed == {scheduled[i] : i \in 1 .. next - 1}
Running == scheduled[next]

\* The pipelines that fill what is read from r; the operators that p reads from.
FeedersOf(r) == {p \in ToSet(scheduled) : pipes[p].sink \in FilledBy(plan, r)}
ReadBy(p) == {r \in ToSet(pipes[p].ops) \cup {pipes[p].source} :
                plan[r].type \notin Streams /\ FilledBy(plan, r) # {}}
RowsAt(r) == IF plan[r].type = "CTE_SCAN"
             THEN held[CHOOSE c \in ProducersOf(plan, r) : TRUE]
             ELSE held[r]

\* Joins that output rows of their build side when the probe is over.
AddsRows(j) == /\ plan[j].type \in Joins
               /\ plan[j].join \in RightTypes \cup (IF plan[j].type = "HASH_JOIN" THEN {} ELSE {"OUTER"})

\* BuildPipelines cuts the plan at its sinks and loses nothing, and no pipeline runs
\* twice: the pipelines into a sink are one that follows the plan from the last source
\* on and, for each join on the way that adds rows, one that follows it from there on.
PipelinesFollowPlan ==
    mode = "execute" =>
      /\ IsInjective(scheduled)
      /\ \A o \in Holders(plan) :
           LET way == Way(plan, o)
               Source(r) == IF plan[r].type = "DELIM_SCAN"
                            THEN plan[CHOOSE d \in ProducersOf(plan, r) : TRUE].distinct
                            ELSE r
           IN {<<pipes[p].source>> \o pipes[p].ops : p \in {q \in ToSet(scheduled) : pipes[q].sink = o}}
                = {<<Source(way[1])>> \o Tail(way)}
                    \cup {SubSeq(way, i, Len(way)) : i \in {k \in DOMAIN way : AddsRows(way[k])}}

\* The hash table of a join is scanned for unmatched rows only when every pipeline that
\* probes it has run, in whatever order the joins were nested.
ScanFollowsProbes ==
    mode = "execute" /\ plan[pipes[Running].source].type \in Joins =>
      \A p \in ToSet(scheduled) : pipes[Running].source \in ToSet(pipes[p].ops) => p \in Executed

\* A pipeline reads each result with the rows of all pipelines that fill it, unless one
\* of them was added by a join on the way: then Sink was called twice, and joins, CTEs
\* and delim joins keep the last call's rows only, aggregates two partial results.
RowsReachReaders ==
    mode = "execute" =>
      \A r \in ReadBy(Running) :
        \/ \E s \in FilledBy(plan, r) : \E i \in DOMAIN Way(plan, s) : AddsRows(Way(plan, s)[i])
        \/ Len(RowsAt(r)) = 1 /\ ToSet(RowsAt(r)) = FeedersOf(r)

\* No freed hash table is probed or freed again, unless a join below it adds rows: its
\* child pipeline probes the table a second time.
TablesAreLive ==
    stale => \E j \in DOMAIN table :
               /\ plan[j].join \in {"INNER", "SEMI", "MARK"}
               /\ \E i \in DOMAIN Path(plan)[j] : AddsRows(Path(plan)[j][i])

\* Execution does what the plan asks for: DataFlow, with an operator filled when the
\* last pipeline into it has run.
Flow == INSTANCE DataFlow WITH
    filled <- {o \in Ops(plan) : LET mine == {p \in ToSet(scheduled) : pipes[p].sink = o}
                                 IN mine # {} /\ mine \subseteq Executed},
    thrown <- mode = "thrown"
ImplementsDataFlow == Flow!Spec
=============================================================================
