-------------------------- MODULE GPUMetaPipeline --------------------------
(***************************************************************************)
(* Construction of the pipelines of a query (GPUMetaPipeline::Build and    *)
(* the operators' BuildPipelines).                                         *)
(*                                                                         *)
(* A meta-pipeline is the set of pipelines with one sink; its first one is *)
(* its base pipeline.  BuildPipelines recurses over the plan; `stack`      *)
(* holds the calls still to be made, the next one first, and every action  *)
(* is the body of one of them up to its last recursive call.  What a body  *)
(* does after a recursive call is a frame of its own: "scans" registers    *)
(* the scans of a delim join or CTE, "child" adds a join's child pipeline. *)
(***************************************************************************)
EXTENDS PhysicalPlan, SequencesExt

CONSTANT Plans      \* the physical plans that are executed

ASSUME PlansAssumption == \A p \in Plans : WellFormed(p)

VARIABLES
    plan,           \* the plan
    metas,          \* meta-pipelines: sink, pipelines in order of creation, children
    pipes,          \* pipelines: source, operators, sink, dependencies, intra-meta ones
    stack,          \* calls of BuildPipelines to be made
    scanDeps        \* delim_join_dependencies and cte_dependencies: scan -> pipeline

buildVars == <<plan, metas, pipes, stack, scanDeps>>

NoOp == 0
NoPipe == 0

Frame(do, o, p, m, last) == [do |-> do, op |-> o, pipe |-> p, meta |-> m, last |-> last]
Build(o, p, m) == Frame("build", o, p, m, NoPipe)

Pipeline(sink) == [source |-> NoOp, ops |-> <<>>, sink |-> sink, deps |-> {}, after |-> {}]

MetaPipeline(sink, p) == [sink |-> sink, pipes |-> <<p>>, kids |-> <<>>]

Base(m) == Head(metas[m].pipes)

BuildInit ==
    /\ plan \in Plans
    /\ metas = <<MetaPipeline(NoOp, 1)>>
    /\ pipes = <<Pipeline(NoOp)>>
    /\ stack = <<Build(1, 1, 1)>>
    /\ scanDeps = <<>>

-----------------------------------------------------------------------------
\* The next call, for an operator of one of these types.
Top == Head(stack)
Calls(do, types) ==
    /\ stack # <<>>
    /\ Top.do \in do
    /\ plan[Top.op].type \in types

Return(calls) == stack' = calls \o Tail(stack)

\* CreateChildMetaPipeline(current, op), after the pipelines were set to ps.
NewPipe == Len(pipes) + 1
NewMeta == Len(metas) + 1
CreateChildMetaPipeline(ps) ==
    /\ pipes' = Append([ps EXCEPT ![Top.pipe].deps = @ \cup {NewPipe}], Pipeline(Top.op))
    /\ metas' = Append([metas EXCEPT ![Top.meta].kids = Append(@, NewMeta)],
                       MetaPipeline(Top.op, NewPipe))

SetSource(ps, p, o) == [ps EXCEPT ![p].source = o]
AddOperator(ps, p, o) == [ps EXCEPT ![p].ops = Append(@, o)]

\* An operator without children becomes the source.
BuildLeaf ==
    /\ Calls({"build"}, Leaves)
    /\ pipes' = SetSource(pipes, Top.pipe, Top.op)
    /\ Return(<<>>)
    /\ UNCHANGED <<plan, metas, scanDeps>>

\* A streaming operator joins the current pipeline.
BuildStream ==
    /\ Calls({"build"}, Streams)
    /\ pipes' = AddOperator(pipes, Top.pipe, Top.op)
    /\ Return(<<Build(Child(plan, Top.op, 1), Top.pipe, Top.meta)>>)
    /\ UNCHANGED <<plan, metas, scanDeps>>

\* A sink is the source of this pipeline and the sink of a new meta-pipeline.
BuildBlocking ==
    /\ Calls({"build"}, Blocking)
    /\ CreateChildMetaPipeline(SetSource(pipes, Top.pipe, Top.op))
    /\ Return(<<Build(Child(plan, Top.op, 1), NewPipe, NewMeta)>>)
    /\ UNCHANGED <<plan, scanDeps>>

\* A join is probed in the current pipeline; its build side is a new meta-pipeline,
\* built first.  The join of a right delim join ("probe") has its build side already.
BuildJoin ==
    /\ Calls({"build", "probe"}, Joins)
    /\ LET probe == AddOperator(pipes, Top.pipe, Top.op)
           left == <<Build(Child(plan, Top.op, 1), Top.pipe, Top.meta),
                     Frame("child", Top.op, Top.pipe, Top.meta, Last(metas[Top.meta].pipes))>>
       IN \/ /\ Top.do = "build"
             /\ CreateChildMetaPipeline(probe)
             /\ Return(<<Build(Child(plan, Top.op, 2), NewPipe, NewMeta)>> \o left)
          \/ /\ Top.do = "probe"
             /\ pipes' = probe
             /\ metas' = metas
             /\ Return(left)
    /\ UNCHANGED <<plan, scanDeps>>

\* IsSource of the joins.
IsSource(j) == plan[j].type = "HASH_JOIN" \/ plan[j].join \in RightTypes \cup {"OUTER"}

PlaceOf(x, seq) == CHOOSE i \in DOMAIN seq : seq[i] = x

\* CreateChildPipeline: the join is the source of a pipeline that has the operators
\* above the join, to run after this pipeline and those created for its inputs.
CreateChildPipeline ==
    /\ Calls({"child"}, Joins)
    /\ IF IsSource(Top.op)
       THEN LET current == pipes[Top.pipe]
                above == PlaceOf(Top.op, current.ops) - 1
                mine == metas[Top.meta].pipes
                since == SubSeq(mine, PlaceOf(Top.last, mine) + 1, Len(mine))
            IN /\ pipes' = Append(pipes, [source |-> Top.op, ops |-> SubSeq(current.ops, 1, above),
                                          sink |-> current.sink, deps |-> {},
                                          after |-> {Top.pipe} \cup ToSet(since)])
               /\ metas' = [metas EXCEPT ![Top.meta].pipes = Append(@, NewPipe)]
       ELSE UNCHANGED <<pipes, metas>>
    /\ Return(<<>>)
    /\ UNCHANGED <<plan, scanDeps>>

\* A delim join or a CTE: its first child fills it in a new meta-pipeline; then its
\* scans are registered, and its join, or the rest of the query, is built here.
BuildProducer ==
    /\ Calls({"build"}, DelimJoins \cup {"CTE"})
    /\ CreateChildMetaPipeline(pipes)
    /\ Return(<<Build(Child(plan, Top.op, 1), NewPipe, NewMeta),
                Frame("scans", Top.op, NewPipe, NewMeta, NoPipe),
                CASE plan[Top.op].type = "LEFT_DELIM_JOIN" -> Build(plan[Top.op].inner, Top.pipe, Top.meta)
                  [] plan[Top.op].type = "RIGHT_DELIM_JOIN" ->
                       Frame("probe", plan[Top.op].inner, Top.pipe, Top.meta, NoPipe)
                  [] plan[Top.op].type = "CTE" -> Build(Child(plan, Top.op, 2), Top.pipe, Top.meta)>>)
    /\ UNCHANGED <<plan, scanDeps>>

RegisterScans ==
    /\ Calls({"scans"}, DelimJoins \cup {"CTE"})
    /\ scanDeps' = [s \in DOMAIN scanDeps \cup plan[Top.op].scans |->
                      IF s \in DOMAIN scanDeps THEN scanDeps[s] ELSE Base(Top.meta)]
    /\ Return(<<>>)
    /\ UNCHANGED <<plan, metas, pipes>>

\* A scan of such a result makes the current pipeline depend on the one that fills it.
BuildScan ==
    /\ Calls({"build"}, Scans)
    /\ LET from == scanDeps[Top.op]
           source == IF plan[Top.op].type = "DELIM_SCAN" THEN plan[pipes[from].sink].distinct ELSE Top.op
       IN pipes' = [pipes EXCEPT ![Top.pipe].deps = @ \cup {from}, ![Top.pipe].source = source]
    /\ Return(<<>>)
    /\ UNCHANGED <<plan, metas, scanDeps>>

BuildNext == BuildLeaf \/ BuildStream \/ BuildBlocking \/ BuildJoin \/ CreateChildPipeline
               \/ BuildProducer \/ RegisterScans \/ BuildScan
=============================================================================
