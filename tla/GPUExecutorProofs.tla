-------------------------- MODULE GPUExecutorProofs --------------------------
(***************************************************************************)
(* Proofs about GPUExecutor, for every well-formed plan of any size.       *)
(*                                                                         *)
(* The construction is a recursion over the plan that the model keeps on a *)
(* stack.  Its invariant says what each call still to be made may rely on: *)
(* the operators below its own are in no pipeline yet (FramesSound), the   *)
(* joins above its place wait for their child pipelines (ChildrenWait),    *)
(* the scans below it get their producers before them (ScansSound), and    *)
(* rows from there pass all operators above its place (PathsSound).        *)
(* What a pipeline reads is filled by a pipeline it waits for (FeedInv),   *)
(* which the scheduler puts before it (DepsScheduled), and is then held    *)
(* where it is read (HeldOnce).                                            *)
(***************************************************************************)
EXTENDS GPUExecutor, SequenceTheorems, FiniteSetTheorems, WellFoundedInduction, TLAPS

-----------------------------------------------------------------------------
(***************************************************************************)
(* The invariant of the construction.                                      *)
(***************************************************************************)
Sub(o) == Subtree(plan)[o]
JoinOps == OfType(plan, Joins)
Placing == {"build", "probe"}

\* The operators that are in a pipeline or fill one.
Placed == {metas[m].sink : m \in DOMAIN metas} \cup UNION {ToSet(pipes[p].ops) : p \in DOMAIN pipes}

PipeType == [source : Nat, ops : Seq(Nat), sink : Nat, deps : SUBSET Nat, after : SUBSET Nat]
MetaType == [sink : Nat, pipes : Seq(Nat), kids : Seq(Nat)]
FrameType == [do : {"build", "probe", "child", "scans"}, op : Nat, pipe : Nat, meta : Nat, last : Nat]

BuildTyped ==
    /\ plan \in Plans
    /\ pipes \in Seq(PipeType) /\ metas \in Seq(MetaType) /\ stack \in Seq(FrameType)
    /\ \A p \in DOMAIN pipes : ToSet(pipes[p].ops) \subseteq Ops(plan)

\* The pipelines of a meta-pipeline have its sink and were created in their order.
MetaSound(m) ==
    /\ metas[m].pipes # <<>>
    /\ \A i \in DOMAIN metas[m].pipes :
          /\ metas[m].pipes[i] \in DOMAIN pipes
          /\ pipes[metas[m].pipes[i]].sink = metas[m].sink
    /\ \A i, k \in DOMAIN metas[m].pipes : i < k => metas[m].pipes[i] < metas[m].pipes[k]
    /\ \A i \in DOMAIN metas[m].kids : metas[m].kids[i] \in m + 1 .. Len(metas)
    /\ IF m = 1 THEN metas[m].sink = NoOp ELSE metas[m].sink \in Ops(plan)
MetasSound ==
    /\ metas # <<>>
    /\ \A m \in DOMAIN metas : MetaSound(m)
    /\ \A m, n \in DOMAIN metas : metas[m].sink = metas[n].sink => m = n
    /\ \A p \in DOMAIN pipes : \E m \in DOMAIN metas : p \in ToSet(metas[m].pipes)
    /\ metas[1].kids # <<>> \/ stack = <<Build(1, 1, 1)>>

\* What is still to be built is in no pipeline yet, and is built once.
FrameSound(f) ==
    /\ f.op \in Ops(plan) /\ f.meta \in DOMAIN metas /\ f.pipe = Base(f.meta)
    /\ f.do \in Placing => /\ Sub(f.op) \cap Placed = {}
                           /\ \A d \in Ops(plan) : plan[d].distinct # f.op
    /\ f.do = "child" => /\ f.op \in JoinOps /\ f.op \in ToSet(pipes[f.pipe].ops)
                         /\ f.last \in ToSet(metas[f.meta].pipes)
                         /\ \A p \in DOMAIN pipes : pipes[p].source # f.op
    /\ f.do = "scans" => f.op \in OfType(plan, DelimJoins \cup {"CTE"}) /\ metas[f.meta].sink = f.op
Apart(f, g) ==
    /\ f.do \in Placing /\ g.do \in Placing => Sub(f.op) \cap Sub(g.op) = {} /\ f.pipe # g.pipe
    /\ f.do = "child" /\ g.do = "child" => f.op # g.op
FramesSound ==
    /\ \A i \in DOMAIN stack : FrameSound(stack[i])
    /\ \A i, k \in DOMAIN stack : i < k => Apart(stack[i], stack[k])

\* An operator is in the pipelines of one sink only, once, and where a join is a
\* source, it was probed by pipelines made before.
OpsSound ==
    /\ \A p \in DOMAIN pipes : IsInjective(pipes[p].ops)
    /\ \A p, q \in DOMAIN pipes :
          ToSet(pipes[p].ops) \cap ToSet(pipes[q].ops) # {} => pipes[p].sink = pipes[q].sink
    /\ \A p \in DOMAIN pipes : pipes[p].source \in JoinOps =>
          /\ pipes[p].source \in Placed
          /\ \A m \in DOMAIN metas : p # Base(m)
          /\ \A q \in DOMAIN pipes : pipes[p].source \in ToSet(pipes[q].ops) =>
                q < p /\ pipes[q].sink = pipes[p].sink

\* A pipeline has a source, or a call that will give it one.
SourcesComing ==
    \A p \in DOMAIN pipes :
        \/ pipes[p].source \in Ops(plan)
        \/ \E i \in DOMAIN stack : stack[i].do \in Placing /\ stack[i].pipe = p

\* The joins above the place that a frame works at have their own frames below it.
Waits(i, j, p) == \E k \in DOMAIN stack : i < k /\ stack[k].do = "child" /\ stack[k].op = j /\ stack[k].pipe = p
ChildrenWait ==
    \A i \in DOMAIN stack :
        /\ stack[i].do \in Placing =>
              \A j \in ToSet(pipes[stack[i].pipe].ops) \cap JoinOps : Waits(i, j, stack[i].pipe)
        /\ stack[i].do = "child" =>
              \A a, b \in DOMAIN pipes[stack[i].pipe].ops :
                  (/\ a < b /\ pipes[stack[i].pipe].ops[b] = stack[i].op
                   /\ pipes[stack[i].pipe].ops[a] \in JoinOps)
                      => Waits(i, pipes[stack[i].pipe].ops[a], stack[i].pipe)

\* A scan is built after its producer has been registered.
ScansSound ==
    /\ DOMAIN scanDeps \subseteq Ops(plan)
    /\ \A s \in DOMAIN scanDeps :
          scanDeps[s] \in DOMAIN pipes /\ pipes[scanDeps[s]].sink \in ProducersOf(plan, s)
    /\ \A i \in DOMAIN stack : stack[i].do \in Placing =>
          \A s \in Sub(stack[i].op) \cap OfType(plan, Scans) :
              \/ s \in DOMAIN scanDeps
              \/ ProducersOf(plan, s) \subseteq Sub(stack[i].op)
              \/ \E k \in DOMAIN stack : k < i /\ stack[k].do = "scans" /\ stack[k].op \in ProducersOf(plan, s)

\* The operators that rows pass on their way up to o.
Reach(o) == ToSet(Path(plan)[o])

\* The operators of a pipeline lie on the way up to those above them, and so does
\* all that is still to be placed there; a pipeline that is not the base one is a
\* join's, and the join lies on the way up to its operators.
PathsSound ==
    /\ stack # <<>> => \A p \in DOMAIN pipes : \A a, b \in DOMAIN pipes[p].ops :
          a < b => pipes[p].ops[b] \in Reach(pipes[p].ops[a])
    /\ \A i \in DOMAIN stack : stack[i].do \in Placing =>
          \A o \in ToSet(pipes[stack[i].pipe].ops) : Reach(stack[i].op) \subseteq Reach(o)
    /\ \A p \in DOMAIN pipes : pipes[p].source \in JoinOps =>
          IsSource(pipes[p].source) /\ \A o \in ToSet(pipes[p].ops) : pipes[p].source \in Reach(o)
    /\ \A m \in DOMAIN metas : \A i \in DOMAIN metas[m].pipes :
          i = 1 \/ pipes[metas[m].pipes[i]].source \in JoinOps

BuildInv == BuildTyped /\ MetasSound /\ FramesSound /\ OpsSound /\ SourcesComing /\ ChildrenWait /\ ScansSound
              /\ PathsSound

-----------------------------------------------------------------------------
(***************************************************************************)
(* The invariant of the schedule.                                          *)
(***************************************************************************)
ScheduleTyped ==
    /\ mode \in {"build", "schedule", "execute", "done", "thrown"}
    /\ mode # "build" => stack = <<>>
    /\ calls \in Seq(DOMAIN metas) /\ toSchedule \in Seq(DOMAIN metas)
    /\ cursor \in Nat /\ (IF toSchedule = <<>> THEN cursor = 0 ELSE cursor < Len(toSchedule)) /\ count \in Nat
    /\ inside \in Seq(DOMAIN pipes) /\ scheduled \in Seq(DOMAIN pipes)
    /\ mode = "build" => calls = <<>> /\ toSchedule = <<>> /\ cursor = 0 /\ count = 0 /\ inside = <<>> /\ scheduled = <<>>
    /\ mode \in {"execute", "done", "thrown"} => inside = <<>>
    /\ mode = "schedule" => calls # <<>> \/ toSchedule # <<>>
    /\ count # 0 => \E p \in ToSet(inside) \cup ToSet(scheduled) : Runs(p)
    /\ next \in Nat \ {0}
    /\ mode \in {"build", "schedule"} => next = 1
    /\ mode = "execute" => next \in DOMAIN scheduled

\* The pipelines of the meta-pipeline in hand are pushed in the order in which
\* they were created.
InOrder ==
    /\ \A k \in DOMAIN scheduled :
          /\ Runs(scheduled[k])
          /\ \A q \in DOMAIN pipes :
                q < scheduled[k] /\ pipes[q].sink = pipes[scheduled[k]].sink /\ Runs(q)
                    => \E i \in DOMAIN scheduled : i < k /\ scheduled[i] = q
    /\ \A k \in DOMAIN inside :
          \A q \in DOMAIN pipes :
                q < inside[k] /\ pipes[q].sink = pipes[inside[k]].sink /\ Runs(q)
                    => q \in ToSet(scheduled) \/ \E i \in DOMAIN inside : i < k /\ inside[i] = q
ScheduleInv == ScheduleTyped /\ InOrder

-----------------------------------------------------------------------------
(***************************************************************************)
(* The invariant of the execution.                                         *)
(***************************************************************************)
\* A pipeline is run once.
Once ==
    /\ IsInjective(scheduled) /\ IsInjective(inside)
    /\ ToSet(scheduled) \cap ToSet(inside) = {}

\* A freed table is one of a type that frees it, and was probed.
FreedWasProbed ==
    /\ DOMAIN table = OfType(plan, {"HASH_JOIN"})
    /\ \A j \in DOMAIN table : table[j] = "freed" =>
          /\ plan[j].join \in {"INNER", "SEMI", "MARK"}
          /\ \E k \in DOMAIN scheduled : k < next /\ j \in ToSet(pipes[scheduled[k]].ops)
TableInv == Once /\ FreedWasProbed /\ TablesAreLive

-----------------------------------------------------------------------------
(***************************************************************************)
(* What the pipelines wait for.                                            *)
(***************************************************************************)
\* Pipeline p waits for one that fills s.
Dep(p, s) == \E q \in pipes[p].deps : q \in DOMAIN pipes /\ pipes[q].sink = s

\* The delim joins that fill what is read at o: their join, or what is on its left.
Delims(o) == {d \in OfType(plan, DelimJoins) : o = plan[d].inner \/ o = Child(plan, plan[d].inner, 1)}

\* The operators of a pipeline that have results to be read, and their types.
Readable == Leaves \cup {"CTE_SCAN"} \cup Joins \cup Blocking
Reads(p) == {r \in ToSet(pipes[p].ops) \cup {pipes[p].source} : r \in Ops(plan) /\ plan[r].type \notin Streams}

\* The pipeline that a call builds at waits for the delim joins around its operator,
\* and what is to be placed lies on the way into the pipeline's sink.
FrameFed(f) ==
    f.do \in Placing =>
      /\ \A d \in Delims(f.op) : Dep(f.pipe, d)
      /\ f.do = "build" <=> FilledByDelim(plan, f.op) = {}
      /\ pipes[f.pipe].sink # NoOp => Reach(f.op) \subseteq ToSet(Way(plan, pipes[f.pipe].sink))
FramesFed == \A i \in DOMAIN stack : FrameFed(stack[i])

\* What the pipelines of a meta-pipeline read is filled by what its base pipeline
\* waits for, and they lie on the way into their sink.
PipeFed(m, p) ==
    /\ \A r \in Reads(p) : plan[r].type \in Readable /\ \A s \in FilledBy(plan, r) : Dep(Base(m), s)
    /\ ToSet(pipes[p].ops) \subseteq OfType(plan, Streams \cup Joins)
    /\ pipes[p].sink # NoOp =>
          ToSet(pipes[p].ops) \cup ({pipes[p].source} \cap JoinOps) \subseteq ToSet(Way(plan, pipes[p].sink))
PipesFed == \A m \in DOMAIN metas : \A p \in ToSet(metas[m].pipes) : PipeFed(m, p)

\* The sinks are operators that are filled through a Sink of their own.
SinkFed(s) ==
    /\ plan[s].type \in Joins \cup DelimJoins \cup Blocking \cup {"CTE"}
    /\ FilledByDelim(plan, s) = {}
    /\ \A d \in Ops(plan) : plan[d].distinct # s
SinksFed == \A m \in DOMAIN metas : metas[m].sink # NoOp => SinkFed(metas[m].sink)
FeedInv == FramesFed /\ PipesFed /\ SinksFed

\* The root meta-pipeline is not scheduled, so that all that is pushed has a sink.
SinksPushed ==
    /\ \A m \in ToSet(calls) \cup ToSet(toSchedule) : m # 1
    /\ \A p \in ToSet(inside) \cup ToSet(scheduled) : pipes[p].sink \in Ops(plan)

\* A pipeline is pushed after those that its meta-pipeline waits for.
DepsScheduled ==
    /\ \A k \in DOMAIN scheduled : \A m \in DOMAIN metas :
          scheduled[k] \in ToSet(metas[m].pipes) =>
            \A q \in pipes[Base(m)].deps : \E i \in DOMAIN scheduled : i < k /\ scheduled[i] = q
    /\ \A k \in DOMAIN inside : \A m \in DOMAIN metas :
          inside[k] \in ToSet(metas[m].pipes) => pipes[Base(m)].deps \subseteq ToSet(scheduled)

\* A result that only one pipeline has been sunk into holds that pipeline's rows.
Sunk(s) == {i \in DOMAIN scheduled : i < next /\ pipes[scheduled[i]].sink = s}
Holds(s) == ReplacedBy(s) \cup ExtendedBy(s)
HeldOnce ==
    /\ DOMAIN held = Ops(plan)
    /\ next = 1 => \A o \in Ops(plan) : held[o] = <<>>
    /\ \A s \in Ops(plan) : SinkFed(s) =>
          \A x \in Holds(s) \cap Ops(plan) :
            /\ Sunk(s) = {} => held[x] = <<>>
            /\ \A i \in Sunk(s) : Sunk(s) = {i} => held[x] = <<scheduled[i]>>

-----------------------------------------------------------------------------
(***************************************************************************)
(* Recursion over the operators of a plan.                                 *)
(***************************************************************************)

-----------------------------------------------------------------------------
(***************************************************************************)
(* Recursion over the operators of a plan.                                 *)
(***************************************************************************)
\* A set of naturals that is not empty has a least element.
LEMMA LeastNat ==
    ASSUME NEW T \in SUBSET Nat, T # {}
    PROVE  \E x \in T : \A y \in T : x <= y
<1> DEFINE R == OpToRel(<, Nat)
<1>1. IsWellFoundedOn(R, Nat)
  BY NatLessThanWellFounded
<1>2. PICK x \in T : \A y \in T : ~(<<y, x>> \in R)
  <2> HIDE DEF R
  <2> QED
    BY <1>1, WFMin
<1>3. \A y \in T : ~(y < x)
  BY <1>2 DEF OpToRel
<1> QED
  BY <1>3

\* A set of places up to n has a greatest element.
LEMMA GreatestUpTo ==
    ASSUME NEW n \in Nat, NEW T \in SUBSET (1 .. n), T # {}
    PROVE  \E x \in T : \A y \in T : y <= x
<1> DEFINE U == {n - x : x \in T}
<1>1. U \in SUBSET Nat /\ U # {}
  <2>1. \A x \in T : n - x \in Nat
    OBVIOUS
  <2> QED
    BY <2>1
<1>2. PICK u \in U : \A v \in U : u <= v
  <2> HIDE DEF U
  <2> QED
    BY <1>1, LeastNat
<1>3. PICK x \in T : u = n - x
  BY <1>2
<1>4. \A y \in T : y <= x
  <2> TAKE y \in T
  <2>1. n - y \in U
    OBVIOUS
  <2>2. u <= n - y
    BY <1>2, <2>1
  <2>3. x \in Nat /\ y \in Nat
    OBVIOUS
  <2> HIDE DEF U
  <2> QED
    BY <1>3, <2>2, <2>3
<1> QED
  BY <1>4

\* G defines functions from the end of 1 .. n downwards: what one is at o depends
\* only on what it is behind o.
LooksBehind(n, V, G) ==
    /\ G \in [[1 .. n -> V] \X (1 .. n) -> V]
    /\ \A f, g \in [1 .. n -> V] : \A o \in 1 .. n :
          (\A k \in o + 1 .. n : f[k] = g[k]) => G[<<f, o>>] = G[<<g, o>>]

\* There is a function that G defines.
Defines(n, V, G) == \E f \in [1 .. n -> V] : \A o \in 1 .. n : f[o] = G[<<f, o>>]

\* Such a G defines a function.
LEMMA DownwardRecursion ==
    ASSUME NEW n \in Nat, NEW V, V # {}, NEW G, LooksBehind(n, V, G)
    PROVE  Defines(n, V, G)
<1> DEFINE Done(m) == \E f \in [1 .. n -> V] : \A o \in n - m + 1 .. n : f[o] = G[<<f, o>>]
           Undone == {m \in 0 .. n : ~Done(m)}
<1>5. /\ G \in [[1 .. n -> V] \X (1 .. n) -> V]
      /\ \A f, g \in [1 .. n -> V] : \A o \in 1 .. n :
            (\A k \in o + 1 .. n : f[k] = g[k]) => G[<<f, o>>] = G[<<g, o>>]
  BY DEF LooksBehind
<1>1. Done(0)
  <2>1. PICK v \in V : TRUE
    OBVIOUS
  <2>2. [i \in 1 .. n |-> v] \in [1 .. n -> V]
    BY <2>1
  <2>3. \A o \in n - 0 + 1 .. n : FALSE
    OBVIOUS
  <2> QED
    BY <2>2, <2>3
<1>2. ASSUME NEW m \in 0 .. n - 1, Done(m) PROVE Done(m + 1)
  <2>1. PICK f \in [1 .. n -> V] : \A o \in n - m + 1 .. n : f[o] = G[<<f, o>>]
    BY <1>2
  <2> DEFINE x == n - m
             g == [f EXCEPT ![x] = G[<<f, x>>]]
  <2>2. x \in 1 .. n /\ g \in [1 .. n -> V] /\ g[x] = G[<<f, x>>] /\ \A k \in 1 .. n : k # x => g[k] = f[k]
    <3>1. x \in 1 .. n
      OBVIOUS
    <3>2. <<f, x>> \in [1 .. n -> V] \X (1 .. n)
      BY <3>1
    <3>3. G[<<f, x>>] \in V
      <4> HIDE DEF x
      <4> QED
        BY <1>5, <3>2
    <3> HIDE DEF x
    <3> QED
      BY <3>1, <3>3
  <2>3. \A o \in x .. n : \A k \in o + 1 .. n : f[k] = g[k]
    BY <2>2
  <2>7. x \in 1 .. n /\ \A o \in x .. n : o \in 1 .. n /\ (o = x \/ o \in n - m + 1 .. n)
    OBVIOUS
  <2>4. \A o \in x .. n : G[<<f, o>>] = G[<<g, o>>]
    <3> HIDE DEF g, x
    <3> QED
      BY <1>5, <2>2, <2>3, <2>7
  <2>5. \A o \in x .. n : g[o] = G[<<g, o>>]
    <3> HIDE DEF g, x
    <3> TAKE o \in x .. n
    <3>1. o \in 1 .. n /\ (o = x \/ (o # x /\ o \in n - m + 1 .. n))
      BY <2>7
    <3>2. g[o] = G[<<f, o>>]
      BY <2>1, <2>2, <3>1
    <3> QED
      BY <2>4, <3>2
  <2>6. n - (m + 1) + 1 = x
    OBVIOUS
  <2> HIDE DEF g, x
  <2> QED
    BY <2>2, <2>5, <2>6
<1>3. Undone = {}
  <2> SUFFICES ASSUME Undone # {} PROVE FALSE
    OBVIOUS
  <2> Undone \in SUBSET Nat
    OBVIOUS
  <2>1. PICK m \in Undone : \A k \in Undone : m <= k
    <3> HIDE DEF Undone
    <3> QED
      BY LeastNat
  <2>2. m # 0
    BY <1>1, <2>1
  <2>3. m - 1 \in 0 .. n - 1 /\ (m - 1) + 1 = m
    BY <2>1, <2>2
  <2>4. Done(m - 1)
    <3> HIDE DEF Done
    <3> QED
      BY <2>1, <2>3
  <2>5. Done(m)
    <3> HIDE DEF Done
    <3> QED
      BY <1>2, <2>3, <2>4
  <2> HIDE DEF Done
  <2> QED
    BY <2>1, <2>5
<1>4. Done(n)
  <2> HIDE DEF Done
  <2> QED
    BY <1>3
<1>6. \A o \in 1 .. n : o \in n - n + 1 .. n
  OBVIOUS
<1> QED
  BY <1>4, <1>6 DEF Defines

\* The types of a well-formed plan.
LEMMA PlanFacts ==
    ASSUME NEW p, WellFormed(p)
    PROVE  /\ p \in Seq(Operator) /\ Ops(p) = 1 .. Len(p) /\ Len(p) \in Nat /\ 1 \in Ops(p)
           /\ \A o \in Ops(p) : /\ p[o] \in Operator /\ HasShape(p, o) /\ p[o].kids \in Seq(Nat)
                                /\ Owned(p, o) \subseteq Ops(p) /\ \A k \in Owned(p, o) : k > o
<1>1. p \in Seq(Operator) /\ p # <<>> /\ IsTree(p) /\ \A o \in Ops(p) : HasShape(p, o)
  BY DEF WellFormed
<1>2. Ops(p) = 1 .. Len(p) /\ Len(p) \in Nat /\ Len(p) # 0
  BY <1>1 DEF Ops
<1>3. \A o \in Ops(p) : p[o] \in Operator
  BY <1>1 DEF Ops
<1>4. \A o \in Ops(p) : p[o].kids \in Seq(Nat)
  BY <1>3 DEF Operator
<1>5. \A o \in Ops(p) : Owned(p, o) \subseteq Ops(p) /\ \A k \in Owned(p, o) : k > o
  BY <1>1 DEF IsTree
<1> QED
  BY <1>1, <1>2, <1>3, <1>4, <1>5

\* Subtree is what its definition says.
LEMMA SubtreeDef ==
    ASSUME NEW p, WellFormed(p)
    PROVE  /\ Subtree(p) \in [Ops(p) -> SUBSET Ops(p)]
           /\ \A o \in Ops(p) : Subtree(p)[o] = {o} \cup UNION {Subtree(p)[k] : k \in Owned(p, o)}
<1> DEFINE n == Len(p)
           V == SUBSET Ops(p)
           Body(f, o) == {o} \cup UNION {f[k] : k \in Owned(p, o)}
           G == [x \in [1 .. n -> V] \X (1 .. n) |-> Body(x[1], x[2])]
<1>1. Ops(p) = 1 .. n /\ n \in Nat /\ \A o \in 1 .. n : Owned(p, o) \subseteq 1 .. n /\ \A k \in Owned(p, o) : k > o
  BY PlanFacts
<1> HIDE DEF n
<1>2. \A f \in [1 .. n -> V], o \in 1 .. n : Body(f, o) \in V
  BY <1>1
<1>3. G \in [[1 .. n -> V] \X (1 .. n) -> V]
  <2> HIDE DEF Body
  <2> QED
    BY <1>2
<1>4. \A f \in [1 .. n -> V], o \in 1 .. n : G[<<f, o>>] = Body(f, o)
  <2> HIDE DEF Body
  <2> QED
    OBVIOUS
<1>5. ASSUME NEW f \in [1 .. n -> V], NEW g \in [1 .. n -> V], NEW o \in 1 .. n, \A k \in o + 1 .. n : f[k] = g[k]
      PROVE  G[<<f, o>>] = G[<<g, o>>]
  <2>1. \A k \in Owned(p, o) : k \in o + 1 .. n
    BY <1>1
  <2>2. {f[k] : k \in Owned(p, o)} = {g[k] : k \in Owned(p, o)}
    BY <1>5, <2>1
  <2>3. Body(f, o) = Body(g, o)
    BY <2>2
  <2> HIDE DEF Body, G
  <2> QED
    BY <1>4, <2>3
<1>6. V # {}
  OBVIOUS
<1>12. LooksBehind(n, V, G)
  <2> HIDE DEF G, V
  <2> QED
    BY <1>3, <1>5 DEF LooksBehind
<1>13. Defines(n, V, G)
  <2>1. n \in Nat
    BY <1>1
  <2> HIDE DEF G, V
  <2> QED
    BY <2>1, <1>6, <1>12, DownwardRecursion
<1>7. PICK f \in [1 .. n -> V] : \A o \in 1 .. n : f[o] = G[<<f, o>>]
  <2> HIDE DEF G, V
  <2> QED
    BY <1>13 DEF Defines
<1>8. f = [o \in Ops(p) |-> Body(f, o)]
  <2> HIDE DEF G, Body
  <2> QED
    BY <1>1, <1>4, <1>7
<1>9. Subtree(p) = [o \in Ops(p) |-> Body(Subtree(p), o)]
  BY <1>8 DEF Subtree
<1> DEFINE S == Subtree(p)
<1>10. DOMAIN S = 1 .. n /\ \A o \in 1 .. n : S[o] = {o} \cup UNION {S[k] : k \in Owned(p, o)}
  BY <1>1, <1>9
<1> HIDE DEF S
<1>11. \A o \in 1 .. n : S[o] \in SUBSET (1 .. n)
  <2> DEFINE Bad == {o \in 1 .. n : S[o] \notin SUBSET (1 .. n)}
  <2> SUFFICES ASSUME Bad # {} PROVE FALSE
    OBVIOUS
  <2>1. PICK o \in Bad : \A k \in Bad : k <= o
    <3> Bad \in SUBSET (1 .. n)
      OBVIOUS
    <3> HIDE DEF Bad
    <3> QED
      BY <1>1, GreatestUpTo
  <2>2. \A k \in Owned(p, o) : k \in 1 .. n /\ k \notin Bad
    BY <1>1, <2>1
  <2>3. S[o] \in SUBSET (1 .. n)
    BY <1>10, <2>1, <2>2
  <2> QED
    BY <2>1, <2>3
<1> QED
  BY <1>1, <1>9, <1>10, <1>11 DEF S

\* Operators of a subtree come from its root on; a subtree holds those of its members.
LEMMA SubtreeBelow ==
    ASSUME NEW p, WellFormed(p)
    PROVE  \A o \in Ops(p) : /\ o \in Subtree(p)[o]
                             /\ \A x \in Subtree(p)[o] : x \in Ops(p) /\ o <= x /\ Subtree(p)[x] \subseteq Subtree(p)[o]
                             /\ \A x \in Subtree(p)[o] : x = o \/ \E k \in Owned(p, o) : x \in Subtree(p)[k]
                             /\ \A x \in Subtree(p)[o] : x = o \/ \E y \in Subtree(p)[o] : x \in Owned(p, y)
<1> DEFINE n == Len(p)
           S == Subtree(p)
           Good(o) == \A x \in S[o] : /\ o <= x /\ S[x] \subseteq S[o]
                                      /\ x = o \/ \E y \in S[o] : x \in Owned(p, y)
           Bad == {o \in 1 .. n : ~Good(o)}
<1>1. Ops(p) = 1 .. n /\ n \in Nat /\ \A o \in 1 .. n : Owned(p, o) \subseteq 1 .. n /\ \A k \in Owned(p, o) : k > o
  BY PlanFacts
<1>2. \A o \in 1 .. n : S[o] \subseteq 1 .. n /\ S[o] = {o} \cup UNION {S[k] : k \in Owned(p, o)}
  BY <1>1, SubtreeDef
<1>3. \A o \in 1 .. n : o \in S[o] /\ \A k \in Owned(p, o) : S[k] \subseteq S[o]
  BY <1>2
<1>4. \A o \in 1 .. n : \A x \in S[o] : x = o \/ \E k \in Owned(p, o) : x \in S[k]
  BY <1>2
<1> HIDE DEF S, n
<1>5. Bad = {}
  <2> SUFFICES ASSUME Bad # {} PROVE FALSE
    OBVIOUS
  <2>1. PICK o \in Bad : \A k \in Bad : k <= o
    <3> Bad \in SUBSET (1 .. n)
      OBVIOUS
    <3> HIDE DEF Bad
    <3> QED
      BY <1>1, GreatestUpTo
  <2>2. \A k \in Owned(p, o) : k \in 1 .. n /\ k > o /\ Good(k)
    BY <1>1, <2>1
  <2>3. ASSUME NEW x \in S[o]
        PROVE  /\ o <= x /\ S[x] \subseteq S[o]
               /\ x = o \/ \E y \in S[o] : x \in Owned(p, y)
    <3>1. CASE x = o
      BY <1>1, <2>1, <3>1
    <3>2. CASE x # o
      <4>1. PICK k \in Owned(p, o) : x \in S[k]
        BY <1>4, <2>1, <3>2
      <4>2. k <= x /\ S[x] \subseteq S[k] /\ (x = k \/ \E y \in S[k] : x \in Owned(p, y))
        BY <2>2, <4>1
      <4>3. S[k] \subseteq S[o] /\ o \in S[o]
        BY <1>3, <2>1, <4>1
      <4>4. x \in 1 .. n /\ o \in 1 .. n /\ k \in 1 .. n /\ k > o
        BY <1>2, <2>1, <2>2, <4>1
      <4>5. o <= x
        BY <4>2, <4>4
      <4>6. \E y \in S[o] : x \in Owned(p, y)
        BY <4>1, <4>2, <4>3
      <4> QED
        BY <4>2, <4>3, <4>5, <4>6
    <3> QED
      BY <3>1, <3>2
  <2> QED
    BY <2>1, <2>3
<1> QED
  BY <1>1, <1>2, <1>3, <1>4, <1>5 DEF S

\* Two subtrees are apart, or the root of one is in the other.
LEMMA SubtreesMeet ==
    ASSUME NEW p, WellFormed(p), NEW a \in Ops(p), NEW b \in Ops(p),
           Subtree(p)[a] \cap Subtree(p)[b] # {}
    PROVE  a \in Subtree(p)[b] \/ b \in Subtree(p)[a]
<1> DEFINE S == Subtree(p)
           C == S[a] \cap S[b]
<1>1. C \in SUBSET Nat
  BY SubtreeBelow, PlanFacts
<1>2. PICK x \in C : \A y \in C : x <= y
  <2> HIDE DEF S
  <2>1. C # {}
    BY DEF S
  <2> HIDE DEF C
  <2> QED
    BY <1>1, <2>1, LeastNat
<1>3. CASE x = a \/ x = b
  BY <1>2, <1>3
<1>4. CASE x # a /\ x # b
  <2>1. PICK y \in S[a] : x \in Owned(p, y)
    BY <1>2, <1>4, SubtreeBelow
  <2>2. PICK z \in S[b] : x \in Owned(p, z)
    BY <1>2, <1>4, SubtreeBelow
  <2>3. y \in Ops(p) /\ z \in Ops(p)
    BY <2>1, <2>2, SubtreeBelow
  <2>4. y = z
    BY <2>1, <2>2, <2>3 DEF WellFormed, IsTree
  <2>5. y \in Nat /\ x \in Nat /\ x > y
    BY <1>1, <1>2, <2>1, <2>3, PlanFacts
  <2>6. x <= y
    BY <1>2, <2>1, <2>2, <2>4
  <2> QED
    BY <2>5, <2>6
<1> QED
  BY <1>3, <1>4

\* What an operator owns stands apart, and below it.
LEMMA SubtreesApart ==
    ASSUME NEW p, WellFormed(p), NEW o \in Ops(p)
    PROVE  /\ \A k \in Owned(p, o) : Subtree(p)[k] \subseteq Subtree(p)[o] /\ o \notin Subtree(p)[k]
           /\ \A k, l \in Owned(p, o) : k # l => Subtree(p)[k] \cap Subtree(p)[l] = {}
<1> DEFINE S == Subtree(p)
<1>1. \A k \in Owned(p, o) : k \in Ops(p) /\ k > o /\ k \in Nat /\ o \in Nat
  BY PlanFacts
<1>2. \A k \in Owned(p, o) : S[k] \subseteq S[o]
  BY SubtreeDef
<1>3. \A k \in Owned(p, o) : o \notin S[k]
  <2> SUFFICES ASSUME NEW k \in Owned(p, o), o \in S[k] PROVE FALSE
    OBVIOUS
  <2>1. k <= o
    BY <1>1, SubtreeBelow
  <2> QED
    BY <1>1, <2>1
<1>4. ASSUME NEW k \in Owned(p, o), NEW l \in Owned(p, o), k # l PROVE k \notin S[l]
  <2> SUFFICES ASSUME k \in S[l] PROVE FALSE
    OBVIOUS
  <2>1. PICK y \in S[l] : k \in Owned(p, y)
    BY <1>1, <1>4, SubtreeBelow
  <2>2. y \in Ops(p)
    BY <1>1, <2>1, SubtreeBelow
  <2>3. y = o
    BY <2>1, <2>2 DEF WellFormed, IsTree
  <2> QED
    BY <1>3, <2>1, <2>3
<1>5. ASSUME NEW k \in Owned(p, o), NEW l \in Owned(p, o), k # l PROVE S[k] \cap S[l] = {}
  BY <1>1, <1>4, <1>5, SubtreesMeet
<1> QED
  BY <1>2, <1>3, <1>5

\* What an operator of each type owns; nothing owns the distinct aggregate of a delim join.
LEMMA OwnedByType ==
    ASSUME NEW p, WellFormed(p), NEW o \in Ops(p)
    PROVE  /\ p[o].type \in Leaves \cup Scans => Owned(p, o) = {}
           /\ p[o].type \in Streams => Child(p, o, 1) \in Owned(p, o)
           /\ p[o].type \in Blocking /\ (\A d \in Ops(p) : p[d].distinct # o) => Child(p, o, 1) \in Owned(p, o)
           /\ p[o].type \in Joins \cup {"CTE"} =>
                 Child(p, o, 1) \in Owned(p, o) /\ Child(p, o, 2) \in Owned(p, o) /\ Child(p, o, 1) # Child(p, o, 2)
           /\ p[o].type \in DelimJoins =>
                 /\ Child(p, o, 1) \in Owned(p, o) /\ p[o].inner \in Owned(p, o) /\ Child(p, o, 1) # p[o].inner
                 /\ p[o].inner \in OfType(p, Joins)
           /\ \A k \in Owned(p, o) : \A d \in Ops(p) : p[d].distinct # k
<1>1. /\ p[o] \in Operator /\ HasShape(p, o) /\ p[o].kids \in Seq(Nat)
      /\ Ops(p) = 1 .. Len(p) /\ Len(p) \in Nat
      /\ \A x \in Ops(p) : p[x] \in Operator /\ HasShape(p, x)
      /\ Owned(p, o) \subseteq Ops(p)
  BY PlanFacts
<1>2. \A i \in DOMAIN p[o].kids : p[o].kids[i] \in Owned(p, o)
  BY DEF Owned
<1>3. p[o].inner # 0 => p[o].inner \in Owned(p, o)
  BY DEF Owned
<1>4. DOMAIN p[o].kids = 1 .. Len(p[o].kids)
  BY <1>1
<1>5. /\ \A i, k \in DOMAIN p[o].kids : p[o].kids[i] = p[o].kids[k] => i = k
      /\ \A i \in DOMAIN p[o].kids : p[o].kids[i] # p[o].inner
  BY DEF WellFormed, IsTree
<1>6. p[o].type \in Leaves \cup Scans => Len(p[o].kids) = 0 /\ p[o].inner = 0
  BY <1>1 DEF HasShape, Leaves, Scans, Streams, Blocking, Joins, DelimJoins
<1>7. p[o].type \in Streams => Len(p[o].kids) = 1
  BY <1>1 DEF HasShape, Leaves, Scans, Streams, Blocking, Joins, DelimJoins
<1>8. p[o].type \in Blocking /\ (\A d \in Ops(p) : p[d].distinct # o) => Len(p[o].kids) = 1
  BY <1>1 DEF HasShape, Leaves, Scans, Streams, Blocking, Joins, DelimJoins
<1>9. p[o].type \in Joins \cup {"CTE"} => Len(p[o].kids) = 2
  BY <1>1 DEF HasShape, Leaves, Scans, Streams, Blocking, Joins, DelimJoins
<1>10. p[o].type \in DelimJoins => Len(p[o].kids) = 1 /\ p[o].inner \in OfType(p, Joins)
  BY <1>1 DEF HasShape, Leaves, Scans, Streams, Blocking, Joins, DelimJoins
<1>11. p[o].type \in Leaves \cup Scans => Owned(p, o) = {}
  BY <1>4, <1>6 DEF Owned
<1>12. ASSUME NEW k \in Owned(p, o), NEW d \in Ops(p) PROVE p[d].distinct # k
  <2>1. CASE p[d].type \in DelimJoins
    <3>1. d \in OfType(p, DelimJoins)
      BY <2>1 DEF OfType
    <3>2. HasDelimShape(p, d)
      BY <3>1 DEF WellFormed
    <3> QED
      BY <3>2 DEF HasDelimShape
  <2>2. CASE p[d].type \notin DelimJoins
    <3>1. p[d].distinct = 0
      BY <1>1, <2>2 DEF HasShape
    <3> QED
      BY <1>1, <3>1
  <2> QED
    BY <2>1, <2>2
<1>13. p[o].type \in DelimJoins => p[o].inner # 0
  BY <1>1, <1>10 DEF OfType
<1> QED
  BY <1>2, <1>3, <1>4, <1>5, <1>7, <1>8, <1>9, <1>10, <1>11, <1>12, <1>13 DEF Child

-----------------------------------------------------------------------------
(***************************************************************************)
(* A step that builds an operator, and the frames it puts on the stack.    *)
(***************************************************************************)
\* The new meta-pipeline of such a step.
MetaGrows ==
    /\ pipes'[NewPipe].sink = Top.op /\ pipes'[NewPipe].ops = <<>> /\ pipes'[NewPipe].source = NoOp
    /\ Len(metas') = NewMeta /\ metas'[NewMeta] = MetaPipeline(Top.op, NewPipe)
    /\ \A m \in DOMAIN metas :
          metas'[m] = [metas[m] EXCEPT !.kids = IF m = Top.meta THEN Append(metas[m].kids, NewMeta) ELSE @]
Grows ==
    /\ plan' = plan /\ pipes' \in Seq(PipeType) /\ metas' \in Seq(MetaType)
    /\ stack # <<>> /\ Top.do \in Placing
    /\ Len(pipes') \in {Len(pipes), NewPipe}
    /\ \A p \in DOMAIN pipes :
          /\ pipes'[p].sink = pipes[p].sink
          /\ pipes'[p].ops = pipes[p].ops \/ (p = Top.pipe /\ pipes'[p].ops = Append(pipes[p].ops, Top.op))
          /\ pipes'[p].source = pipes[p].source \/ (p = Top.pipe /\ pipes'[p].source \in Ops(plan) \ JoinOps)
    /\ Len(pipes') = Len(pipes) => metas' = metas
    /\ Len(pipes') = NewPipe => MetaGrows
    /\ Len(stack) = 1 /\ Top = Build(1, 1, 1) => Len(pipes') = NewPipe

\* The place of a new frame.
Here(f) == f.meta = Top.meta /\ f.pipe = Top.pipe
There(f) == Len(pipes') = NewPipe /\ f.meta = NewMeta /\ f.pipe = NewPipe
NewFrames(N) ==
    /\ N \in Seq(FrameType) /\ stack' = N \o Tail(stack)
    /\ \A i \in DOMAIN N :
          /\ Here(N[i]) \/ There(N[i])
          /\ N[i].do \in Placing => N[i].op \in Owned(plan, Top.op)
          /\ N[i].do = "child" =>
                /\ N[i].op = Top.op /\ Top.op \in JoinOps /\ Here(N[i])
                /\ pipes'[Top.pipe].ops = Append(pipes[Top.pipe].ops, Top.op)
                /\ N[i].last \in ToSet(metas[Top.meta].pipes)
          /\ N[i].do = "scans" =>
                N[i].op = Top.op /\ There(N[i]) /\ Top.op \in OfType(plan, DelimJoins \cup {"CTE"})
    /\ \A i, k \in DOMAIN N : i < k =>
          /\ N[i].do \in Placing /\ N[k].do \in Placing => N[i].op # N[k].op /\ N[i].pipe # N[k].pipe
          /\ ~(N[i].do = "child" /\ N[k].do = "child")
    /\ \A i \in DOMAIN N : N[i].do \in Placing /\ N[i].pipe = Top.pipe => Reach(N[i].op) \subseteq Reach(Top.op)
    /\ pipes'[Top.pipe].ops # pipes[Top.pipe].ops => Top.op \in Reach(Top.op)
    /\ Len(pipes') = NewPipe => \E i \in DOMAIN N : N[i].do \in Placing /\ N[i].pipe = NewPipe
    /\ pipes'[Top.pipe].source \in Ops(plan) \/ \E i \in DOMAIN N : N[i].do \in Placing /\ N[i].pipe = Top.pipe
    /\ Top.op \in JoinOps => \A i \in DOMAIN N : N[i].do \in Placing /\ N[i].pipe = Top.pipe
          => \E k \in DOMAIN N : i < k /\ N[k].do = "child"
    /\ Top.op \in OfType(plan, DelimJoins \cup {"CTE"}) => \A i \in DOMAIN N : N[i].do \in Placing =>
          \/ \E k \in DOMAIN N : k < i /\ N[k].do = "scans"
          \/ N[i].op = Child(plan, Top.op, 1)

\* What the pipelines wait for after the step.
NewDep(p, s) == \E q \in pipes'[p].deps : q \in DOMAIN pipes' /\ pipes'[q].sink = s
Feeds(N) ==
    /\ \A p \in DOMAIN pipes : pipes[p].deps \subseteq pipes'[p].deps
    /\ Len(pipes') = NewPipe => /\ NewPipe \in pipes'[Top.pipe].deps /\ Top.do = "build"
                                /\ plan[Top.op].type \in Joins \cup DelimJoins \cup Blocking \cup {"CTE"}
    /\ plan[Top.op].type \in Joins /\ Top.do = "build" => Len(pipes') = NewPipe
    /\ plan[Top.op].type \in DelimJoins => Len(pipes') = NewPipe
    /\ pipes'[Top.pipe].ops # pipes[Top.pipe].ops => plan[Top.op].type \in Streams \cup Joins
    /\ pipes'[Top.pipe].source # pipes[Top.pipe].source =>
          /\ plan[pipes'[Top.pipe].source].type \in Readable
          /\ \A s \in FilledBy(plan, pipes'[Top.pipe].source) : s \in Delims(Top.op) \/ NewDep(Top.pipe, s)
    /\ \A i \in DOMAIN N : N[i].do \in Placing =>
          /\ N[i].pipe = NewPipe => N[i].op = Input(plan, Top.op)
          /\ N[i].do = "probe" <=> plan[Top.op].type = "RIGHT_DELIM_JOIN" /\ N[i].op = plan[Top.op].inner

\* The frame on top of the stack.
LEMMA TopFacts ==
    ASSUME BuildInv, stack # <<>>
    PROVE  /\ WellFormed(plan) /\ Top \in FrameType /\ FrameSound(Top) /\ Top.op \in Ops(plan)
           /\ Top.op \in Nat /\ 1 \in DOMAIN stack /\ Top = stack[1]
           /\ Top.meta \in DOMAIN metas /\ Top.pipe = Base(Top.meta) /\ Top.pipe \in DOMAIN pipes
           /\ pipes[Top.pipe].sink = metas[Top.meta].sink /\ metas[Top.meta].pipes \in Seq(Nat)
           /\ Top.pipe \in ToSet(metas[Top.meta].pipes) /\ metas[Top.meta].pipes # <<>>
           /\ Tail(stack) \in Seq(FrameType) /\ Len(Tail(stack)) = Len(stack) - 1
           /\ \A i \in DOMAIN Tail(stack) : Tail(stack)[i] = stack[i + 1] /\ i + 1 \in DOMAIN stack
<1>1. WellFormed(plan)
  BY PlansAssumption DEF BuildInv, BuildTyped
<1>2. stack \in Seq(FrameType) /\ metas \in Seq(MetaType) /\ pipes \in Seq(PipeType)
  BY DEF BuildInv, BuildTyped
<1>3. 1 \in DOMAIN stack /\ Top = stack[1] /\ Top \in FrameType
  BY <1>2 DEF Top
<1>4. FrameSound(Top)
  BY <1>3 DEF BuildInv, FramesSound
<1>5. Top.op \in Ops(plan) /\ Top.meta \in DOMAIN metas /\ Top.pipe = Base(Top.meta)
  BY <1>4 DEF FrameSound
<1>6. MetaSound(Top.meta)
  BY <1>5 DEF BuildInv, MetasSound
<1>7. metas[Top.meta] \in MetaType
  BY <1>2, <1>5
<1>8. metas[Top.meta].pipes \in Seq(Nat)
  BY <1>7 DEF MetaType
<1>9. metas[Top.meta].pipes # <<>> /\ 1 \in DOMAIN metas[Top.meta].pipes /\ Top.pipe = metas[Top.meta].pipes[1]
  BY <1>5, <1>6, <1>8 DEF MetaSound, Base
<1>10. Top.pipe \in DOMAIN pipes /\ pipes[Top.pipe].sink = metas[Top.meta].sink
  BY <1>6, <1>9 DEF MetaSound
<1>11. Top.pipe \in ToSet(metas[Top.meta].pipes)
  BY <1>9 DEF ToSet
<1>12. Tail(stack) \in Seq(FrameType) /\ Len(Tail(stack)) = Len(stack) - 1
       /\ \A i \in DOMAIN Tail(stack) : Tail(stack)[i] = stack[i + 1] /\ i + 1 \in DOMAIN stack
  BY <1>2
<1>13. Top.op \in Nat
  BY <1>3 DEF FrameType
<1> QED
  BY <1>1, <1>3, <1>4, <1>5, <1>8, <1>9, <1>10, <1>11, <1>12, <1>13

LEMMA MetaFacts ==
    ASSUME BuildInv, NEW m \in DOMAIN metas
    PROVE  /\ MetaSound(m) /\ metas[m].pipes \in Seq(Nat) /\ metas[m].pipes # <<>>
           /\ Base(m) \in DOMAIN pipes /\ Base(m) \in ToSet(metas[m].pipes)
           /\ \A p \in ToSet(metas[m].pipes) : p \in DOMAIN pipes /\ pipes[p].sink = metas[m].sink
<1>1. MetaSound(m) /\ metas[m] \in MetaType
  BY DEF BuildInv, BuildTyped, MetasSound
<1>2. metas[m].pipes \in Seq(Nat) /\ metas[m].pipes # <<>>
  BY <1>1 DEF MetaType, MetaSound
<1>3. 1 \in DOMAIN metas[m].pipes /\ Base(m) = metas[m].pipes[1]
  BY <1>2 DEF Base
<1>4. \A p \in ToSet(metas[m].pipes) : p \in DOMAIN pipes /\ pipes[p].sink = metas[m].sink
  BY <1>1 DEF MetaSound, ToSet
<1>5. Base(m) \in ToSet(metas[m].pipes)
  BY <1>3 DEF ToSet
<1> QED
  BY <1>1, <1>2, <1>4, <1>5


\* A sequence and one more element.
LEMMA AppendFacts ==
    ASSUME NEW S, NEW s \in Seq(S), NEW x \in S
    PROVE  /\ ToSet(Append(s, x)) = ToSet(s) \cup {x}
           /\ IsInjective(s) /\ x \notin ToSet(s) => IsInjective(Append(s, x))
           /\ Append(s, x) \in Seq(S) /\ DOMAIN Append(s, x) = 1 .. Len(s) + 1 /\ DOMAIN s = 1 .. Len(s)
           /\ \A i \in DOMAIN s : Append(s, x)[i] = s[i]
           /\ Append(s, x)[Len(s) + 1] = x
<1>1. /\ Append(s, x) \in Seq(S) /\ DOMAIN Append(s, x) = 1 .. Len(s) + 1 /\ DOMAIN s = 1 .. Len(s)
      /\ \A i \in DOMAIN s : Append(s, x)[i] = s[i]
      /\ Append(s, x)[Len(s) + 1] = x
  OBVIOUS
<1>2. ToSet(Append(s, x)) = ToSet(s) \cup {x}
  <2>1. \A y \in ToSet(Append(s, x)) : y \in ToSet(s) \cup {x}
    BY <1>1 DEF ToSet
  <2>2. \A y \in ToSet(s) : y \in ToSet(Append(s, x))
    <3>1. \A i \in DOMAIN s : i \in DOMAIN Append(s, x)
      BY <1>1
    <3> QED
      BY <1>1, <3>1 DEF ToSet
  <2>3. x \in ToSet(Append(s, x))
    <3>1. Len(s) + 1 \in DOMAIN Append(s, x)
      BY <1>1
    <3> QED
      BY <1>1, <3>1 DEF ToSet
  <2> QED
    BY <2>1, <2>2, <2>3
<1>3. ASSUME IsInjective(s), x \notin ToSet(s) PROVE IsInjective(Append(s, x))
  <2> SUFFICES ASSUME NEW a \in DOMAIN Append(s, x), NEW b \in DOMAIN Append(s, x),
                      Append(s, x)[a] = Append(s, x)[b]
               PROVE  a = b
    BY DEF IsInjective
  <2>1. /\ a \in DOMAIN s \/ a = Len(s) + 1
        /\ b \in DOMAIN s \/ b = Len(s) + 1
    BY <1>1
  <2>2. \A i \in DOMAIN s : s[i] # x
    BY <1>3 DEF ToSet
  <2> QED
    BY <1>1, <1>3, <2>1, <2>2 DEF IsInjective
<1> QED
  BY <1>1, <1>2, <1>3

\* What such a step leaves as it was.
LEMMA GrowsKeeps ==
    ASSUME BuildInv, Grows
    PROVE  /\ DOMAIN pipes = 1 .. Len(pipes) /\ DOMAIN metas = 1 .. Len(metas)
           /\ \/ DOMAIN pipes' = DOMAIN pipes /\ metas' = metas
              \/ /\ DOMAIN pipes' = DOMAIN pipes \cup {NewPipe} /\ MetaGrows
                 /\ DOMAIN metas' = DOMAIN metas \cup {NewMeta}
           /\ NewPipe \notin DOMAIN pipes /\ NewMeta \notin DOMAIN metas /\ NewPipe \in Nat /\ NewMeta \in Nat
           /\ \A p \in DOMAIN pipes :
                 /\ pipes[p].ops \in Seq(Nat) /\ pipes'[p].ops \in Seq(Nat)
                 /\ ToSet(pipes[p].ops) \subseteq ToSet(pipes'[p].ops)
                 /\ ToSet(pipes'[p].ops) \subseteq ToSet(pipes[p].ops) \cup {Top.op}
                 /\ p # Top.pipe => pipes'[p].ops = pipes[p].ops
           /\ \A m \in DOMAIN metas :
                 /\ metas'[m].sink = metas[m].sink /\ metas'[m].pipes = metas[m].pipes
                 /\ Base(m)' = Base(m) /\ Base(m) \in DOMAIN pipes
                 /\ metas[m].kids \in Seq(Nat) /\ metas[m].pipes \in Seq(Nat)
           /\ Top.op \notin Placed /\ Placed \subseteq Placed' /\ Placed' \subseteq Placed \cup {Top.op}
<1> USE DEF NewPipe, NewMeta
<1>0. stack # <<>>
  BY DEF Grows
<1>1. /\ pipes \in Seq(PipeType) /\ metas \in Seq(MetaType)
      /\ pipes' \in Seq(PipeType) /\ metas' \in Seq(MetaType)
  BY DEF BuildInv, BuildTyped, Grows
<1>2. DOMAIN pipes = 1 .. Len(pipes) /\ DOMAIN metas = 1 .. Len(metas)
  BY <1>1
<1>3. \/ DOMAIN pipes' = DOMAIN pipes /\ metas' = metas
      \/ /\ DOMAIN pipes' = DOMAIN pipes \cup {NewPipe} /\ MetaGrows
         /\ DOMAIN metas' = DOMAIN metas \cup {NewMeta}
  <2>1. CASE Len(pipes') = Len(pipes)
    BY <1>1, <2>1 DEF Grows
  <2>2. CASE Len(pipes') = NewPipe
    <3>1. MetaGrows
      BY <2>2 DEF Grows
    <3>2. Len(metas') = Len(metas) + 1
      BY <3>1 DEF MetaGrows
    <3> QED
      BY <1>1, <2>2, <3>1, <3>2
  <2> QED
    BY <2>1, <2>2 DEF Grows
<1>4. NewPipe \notin DOMAIN pipes /\ NewMeta \notin DOMAIN metas /\ NewPipe \in Nat /\ NewMeta \in Nat
  BY <1>1
<1>5. ASSUME NEW p \in DOMAIN pipes
      PROVE  /\ pipes[p].ops \in Seq(Nat) /\ pipes'[p].ops \in Seq(Nat)
             /\ ToSet(pipes[p].ops) \subseteq ToSet(pipes'[p].ops)
             /\ ToSet(pipes'[p].ops) \subseteq ToSet(pipes[p].ops) \cup {Top.op}
             /\ p # Top.pipe => pipes'[p].ops = pipes[p].ops
  <2>1. pipes[p] \in PipeType
    BY <1>1
  <2>2. pipes[p].ops \in Seq(Nat) /\ Top.op \in Nat
    BY <1>0, <2>1, TopFacts DEF PipeType
  <2>3. pipes'[p].ops = pipes[p].ops \/ (p = Top.pipe /\ pipes'[p].ops = Append(pipes[p].ops, Top.op))
    BY DEF Grows
  <2>4. Append(pipes[p].ops, Top.op) \in Seq(Nat) /\ ToSet(Append(pipes[p].ops, Top.op)) = ToSet(pipes[p].ops) \cup {Top.op}
    BY <2>2, AppendFacts
  <2> QED
    BY <2>2, <2>3, <2>4
<1>6. ASSUME NEW m \in DOMAIN metas
      PROVE  /\ metas'[m].sink = metas[m].sink /\ metas'[m].pipes = metas[m].pipes
             /\ Base(m)' = Base(m) /\ Base(m) \in DOMAIN pipes
             /\ metas[m].kids \in Seq(Nat) /\ metas[m].pipes \in Seq(Nat)
  <2>1. metas[m] \in MetaType
    BY <1>1
  <2>2. metas'[m].sink = metas[m].sink /\ metas'[m].pipes = metas[m].pipes
    BY <1>3, <2>1 DEF MetaGrows, MetaType
  <2>3. metas[m].kids \in Seq(Nat) /\ metas[m].pipes \in Seq(Nat)
    BY <2>1 DEF MetaType
  <2>4. MetaSound(m)
    BY DEF BuildInv, MetasSound
  <2>5. 1 \in DOMAIN metas[m].pipes /\ Base(m) = metas[m].pipes[1]
    BY <2>3, <2>4 DEF MetaSound, Base
  <2>6. Base(m) \in DOMAIN pipes
    BY <2>4, <2>5 DEF MetaSound
  <2> QED
    BY <2>2, <2>3, <2>6 DEF Base
<1>7. Top.op \notin Placed
  <2>1. Sub(Top.op) \cap Placed = {} /\ Top.op \in Ops(plan)
    BY <1>0, TopFacts DEF FrameSound, Grows
  <2>2. Top.op \in Sub(Top.op)
    BY <1>0, <2>1, TopFacts, SubtreeBelow DEF Sub
  <2> QED
    BY <2>1, <2>2
<1>8. Placed \subseteq Placed'
  <2>1. DOMAIN pipes \subseteq DOMAIN pipes' /\ DOMAIN metas \subseteq DOMAIN metas'
    BY <1>3
  <2> SUFFICES ASSUME NEW x \in Placed PROVE x \in Placed'
    OBVIOUS
  <2>2. CASE \E m \in DOMAIN metas : x = metas[m].sink
    BY <1>6, <2>1, <2>2 DEF Placed
  <2>3. CASE \E p \in DOMAIN pipes : x \in ToSet(pipes[p].ops)
    BY <1>5, <2>1, <2>3 DEF Placed
  <2> QED
    BY <2>2, <2>3 DEF Placed
<1>9. Placed' \subseteq Placed \cup {Top.op}
  <2> SUFFICES ASSUME NEW x \in Placed', x \notin Placed PROVE x = Top.op
    OBVIOUS
  <2>1. (\E m \in DOMAIN metas' : x = metas'[m].sink) \/ (\E p \in DOMAIN pipes' : x \in ToSet(pipes'[p].ops))
    BY DEF Placed
  <2>2. /\ \A m \in DOMAIN metas : x # metas[m].sink
        /\ \A p \in DOMAIN pipes : x \notin ToSet(pipes[p].ops)
    BY DEF Placed
  <2>3. \A m \in DOMAIN metas' : m \in DOMAIN metas \/ metas'[m].sink = Top.op
    BY <1>3 DEF MetaGrows, MetaPipeline
  <2>4. \A p \in DOMAIN pipes' : p \in DOMAIN pipes \/ pipes'[p].ops = <<>>
    BY <1>3 DEF MetaGrows
  <2>5. ToSet(<<>>) = {}
    BY DEF ToSet
  <2> QED
    BY <1>5, <1>6, <2>1, <2>2, <2>3, <2>4, <2>5
<1> QED
  BY <1>2, <1>3, <1>4, <1>5, <1>6, <1>7, <1>8, <1>9

\* It keeps the meta-pipelines sound.
LEMMA GrowsMetas ==
    ASSUME BuildInv, Grows
    PROVE  MetasSound'
<1> USE DEF NewPipe, NewMeta
<1>0. stack # <<>>
  BY DEF Grows
<1>1. \A m \in DOMAIN metas : MetaSound(m)
  BY DEF BuildInv, MetasSound
<1>2. ASSUME NEW m \in DOMAIN metas PROVE MetaSound(m)'
  <2>1. metas[m].kids \in Seq(Nat) /\ metas[m].pipes \in Seq(Nat)
    BY GrowsKeeps
  <2>2. metas'[m].sink = metas[m].sink /\ metas'[m].pipes = metas[m].pipes
    BY GrowsKeeps
  <2>3. /\ metas[m].pipes # <<>>
        /\ \A i \in DOMAIN metas[m].pipes :
              /\ metas[m].pipes[i] \in DOMAIN pipes
              /\ pipes[metas[m].pipes[i]].sink = metas[m].sink
        /\ \A i, k \in DOMAIN metas[m].pipes : i < k => metas[m].pipes[i] < metas[m].pipes[k]
    BY <1>1 DEF MetaSound
  <2>4. \A i \in DOMAIN metas[m].pipes :
              /\ metas[m].pipes[i] \in DOMAIN pipes'
              /\ pipes'[metas[m].pipes[i]].sink = metas[m].sink
    <3>1. DOMAIN pipes \subseteq DOMAIN pipes'
      BY GrowsKeeps
    <3>2. \A p \in DOMAIN pipes : pipes'[p].sink = pipes[p].sink
      BY DEF Grows
    <3> QED
      BY <2>3, <3>1, <3>2
  <2>5. IF m = 1 THEN metas'[m].sink = NoOp ELSE metas'[m].sink \in Ops(plan')
    BY <1>1, <2>2 DEF MetaSound, Grows
  <2>6. \A i \in DOMAIN metas'[m].kids : metas'[m].kids[i] \in m + 1 .. Len(metas')
    <3>1. \A i \in DOMAIN metas[m].kids : metas[m].kids[i] \in m + 1 .. Len(metas)
      BY <1>1 DEF MetaSound
    <3>2. CASE metas' = metas
      BY <3>1, <3>2
    <3>3. CASE MetaGrows
      <4>1. Len(metas') = Len(metas) + 1 /\ Len(metas) \in Nat /\ m \in 1 .. Len(metas)
        <5>1. metas \in Seq(MetaType)
          BY DEF BuildInv, BuildTyped
        <5> QED
          BY <3>3, <5>1 DEF MetaGrows
      <4>2. metas'[m].kids = metas[m].kids \/ metas'[m].kids = Append(metas[m].kids, Len(metas) + 1)
        <5>1. metas'[m] = [metas[m] EXCEPT !.kids = IF m = Top.meta THEN Append(metas[m].kids, NewMeta) ELSE @]
          BY <3>3 DEF MetaGrows
        <5>2. metas[m] \in MetaType
          BY DEF BuildInv, BuildTyped
        <5> QED
          BY <5>1, <5>2 DEF MetaType
      <4>3. CASE metas'[m].kids = metas[m].kids
        BY <3>1, <4>1, <4>3
      <4>4. CASE metas'[m].kids = Append(metas[m].kids, Len(metas) + 1)
        BY <2>1, <3>1, <4>1, <4>4
      <4> QED
        BY <4>2, <4>3, <4>4
    <3> QED
      BY <3>2, <3>3, GrowsKeeps
  <2> QED
    BY <2>2, <2>3, <2>4, <2>5, <2>6 DEF MetaSound
<1>3. ASSUME NEW m \in DOMAIN metas', m \notin DOMAIN metas PROVE MetaSound(m)'
  <2>1. m = NewMeta /\ MetaGrows /\ DOMAIN pipes' = DOMAIN pipes \cup {NewPipe}
    BY <1>3, GrowsKeeps
  <2>2. /\ metas'[m].sink = Top.op /\ metas'[m].pipes = <<NewPipe>> /\ metas'[m].kids = <<>>
        /\ pipes'[NewPipe].sink = Top.op
    BY <2>1 DEF MetaGrows, MetaPipeline
  <2>3. m # 1
    <3>1. metas \in Seq(MetaType) /\ metas # <<>>
      BY DEF BuildInv, BuildTyped, MetasSound
    <3> QED
      BY <2>1, <3>1
  <2>4. Top.op \in Ops(plan') /\ NewPipe \in DOMAIN pipes'
    BY <1>0, <2>1, TopFacts DEF Grows
  <2> HIDE DEF NewPipe, NewMeta
  <2>5. DOMAIN <<NewPipe>> = {1} /\ <<NewPipe>>[1] = NewPipe /\ <<NewPipe>> # <<>>
    BY DEF NewPipe
  <2>6. \A i, k \in {1} : ~(i < k)
    OBVIOUS
  <2>7. \A i \in DOMAIN <<>> : FALSE
    OBVIOUS
  <2> QED
    BY <2>2, <2>3, <2>4, <2>5, <2>6, <2>7 DEF MetaSound
<1>4. \A m \in DOMAIN metas' : MetaSound(m)'
  <2> TAKE m \in DOMAIN metas'
  <2> QED
    BY <1>2, <1>3
<1>5. metas' # <<>>
  BY GrowsKeeps DEF BuildInv, MetasSound
<1>6. ASSUME NEW m \in DOMAIN metas', NEW n \in DOMAIN metas', metas'[m].sink = metas'[n].sink PROVE m = n
  <2>1. \A a \in DOMAIN metas : metas[a].sink \in Placed
    BY DEF Placed
  <2>2. \A a, b \in DOMAIN metas : metas[a].sink = metas[b].sink => a = b
    BY DEF BuildInv, MetasSound
  <2>3. \A a \in DOMAIN metas : metas'[a].sink = metas[a].sink
    BY GrowsKeeps
  <2>4. CASE DOMAIN metas' = DOMAIN metas
    BY <1>6, <2>2, <2>3, <2>4
  <2>5. CASE DOMAIN metas' = DOMAIN metas \cup {NewMeta} /\ MetaGrows
    <3>1. metas'[NewMeta].sink = Top.op
      BY <2>5 DEF MetaGrows, MetaPipeline
    <3>2. Top.op \notin Placed
      BY GrowsKeeps
    <3> QED
      BY <1>6, <2>1, <2>2, <2>3, <2>5, <3>1, <3>2
  <2> QED
    BY <2>4, <2>5, GrowsKeeps
<1>7. ASSUME NEW p \in DOMAIN pipes' PROVE \E m \in DOMAIN metas' : p \in ToSet(metas'[m].pipes)
  <2>1. CASE p \in DOMAIN pipes
    <3>1. PICK m \in DOMAIN metas : p \in ToSet(metas[m].pipes)
      BY <2>1 DEF BuildInv, MetasSound
    <3> QED
      BY <3>1, GrowsKeeps
  <2>2. CASE p \notin DOMAIN pipes
    <3>1. p = NewPipe /\ MetaGrows /\ NewMeta \in DOMAIN metas'
      BY <2>2, GrowsKeeps
    <3>2. metas'[NewMeta].pipes = <<p>>
      BY <3>1 DEF MetaGrows, MetaPipeline
    <3>3. p \in ToSet(<<p>>)
      BY DEF ToSet
    <3> QED
      BY <3>1, <3>2, <3>3
  <2> QED
    BY <2>1, <2>2
<1>8. metas'[1].kids # <<>>
  <2>1. 1 \in DOMAIN metas /\ metas[1] \in MetaType /\ metas[1].kids \in Seq(Nat)
    <3>1. metas \in Seq(MetaType) /\ metas # <<>>
      BY DEF BuildInv, BuildTyped, MetasSound
    <3>2. 1 \in DOMAIN metas /\ metas[1] \in MetaType
      BY <3>1
    <3> QED
      BY <3>2 DEF MetaType
  <2>2. metas[1].kids # <<>> \/ stack = <<Build(1, 1, 1)>>
    BY DEF BuildInv, MetasSound
  <2>3. CASE metas[1].kids # <<>>
    <3>1. CASE metas' = metas
      BY <2>3, <3>1
    <3>2. CASE MetaGrows
      <4>1. metas'[1].kids = metas[1].kids \/ metas'[1].kids = Append(metas[1].kids, NewMeta)
        BY <2>1, <3>2 DEF MetaGrows, MetaType
      <4>2. NewMeta \in Nat
        BY GrowsKeeps
      <4> HIDE DEF NewMeta
      <4> QED
        BY <2>1, <2>3, <4>1, <4>2
    <3> QED
      BY <3>1, <3>2, GrowsKeeps
  <2>4. CASE stack = <<Build(1, 1, 1)>>
    <3>1. Len(stack) = 1 /\ Top = Build(1, 1, 1) /\ Top.meta = 1
      BY <2>4 DEF Top, Build, Frame
    <3>2. MetaGrows
      BY <3>1 DEF Grows
    <3>3. metas'[1].kids = Append(metas[1].kids, NewMeta)
      BY <2>1, <3>1, <3>2 DEF MetaGrows, MetaType
    <3>4. NewMeta \in Nat
      BY GrowsKeeps
    <3> HIDE DEF NewMeta
    <3> QED
      BY <2>1, <3>3, <3>4
  <2> QED
    BY <2>2, <2>3, <2>4
<1> QED
  BY <1>4, <1>5, <1>6, <1>7, <1>8 DEF MetasSound

\* Path is what its definition says, and an operator's types are apart.
LEMMA PathDef ==
    ASSUME NEW p, WellFormed(p)
    PROVE  /\ Path(p) \in [Ops(p) -> Seq(Nat)]
           /\ \A o \in Ops(p) :
                 /\ p[o].type \in Leaves \cup Scans \cup Blocking => Path(p)[o] = <<o>>
                 /\ p[o].type \in Streams \cup Joins => Path(p)[o] = Append(Path(p)[Child(p, o, 1)], o)
                 /\ p[o].type \in DelimJoins => Path(p)[o] = Path(p)[p[o].inner]
                 /\ p[o].type = "CTE" => Path(p)[o] = Path(p)[Child(p, o, 2)]
<1> DEFINE n == Len(p)
           V == Seq(Nat)
           Body(f, o) ==
             CASE p[o].type \in Leaves \cup Scans \cup Blocking -> <<o>>
               [] p[o].type \in Streams \cup Joins -> Append(f[Child(p, o, 1)], o)
               [] p[o].type \in DelimJoins -> f[p[o].inner]
               [] p[o].type = "CTE" -> f[Child(p, o, 2)]
           G == [x \in [1 .. n -> V] \X (1 .. n) |-> Body(x[1], x[2])]
<1>1. Ops(p) = 1 .. n /\ n \in Nat
  BY PlanFacts
<1>2. ASSUME NEW o \in 1 .. n
      PROVE  /\ p[o].type \in Streams \cup Joins => Child(p, o, 1) \in o + 1 .. n
             /\ p[o].type \in DelimJoins => p[o].inner \in o + 1 .. n
             /\ p[o].type = "CTE" => Child(p, o, 2) \in o + 1 .. n
             /\ p[o].type \in OpTypes
  <2>1. \A k \in Owned(p, o) : k \in o + 1 .. n
    <3>1. Owned(p, o) \subseteq Ops(p) /\ \A k \in Owned(p, o) : k > o
      BY <1>1, PlanFacts
    <3> HIDE DEF n
    <3> QED
      BY <1>1, <3>1
  <2>2. /\ p[o].type \in Streams => Child(p, o, 1) \in Owned(p, o)
        /\ p[o].type \in Joins \cup {"CTE"} => Child(p, o, 1) \in Owned(p, o) /\ Child(p, o, 2) \in Owned(p, o)
        /\ p[o].type \in DelimJoins => p[o].inner \in Owned(p, o)
    BY <1>1, OwnedByType
  <2>3. p[o].type \in OpTypes
    <3>1. p[o] \in Operator
      BY <1>1, PlanFacts
    <3> QED
      BY <3>1 DEF Operator
  <2> HIDE DEF n
  <2> QED
    BY <2>1, <2>2, <2>3
<1> HIDE DEF n
<1>3. ASSUME NEW f, NEW o \in 1 .. n
      PROVE  /\ p[o].type \in Leaves \cup Scans \cup Blocking => Body(f, o) = <<o>>
             /\ p[o].type \in Streams \cup Joins => Body(f, o) = Append(f[Child(p, o, 1)], o)
             /\ p[o].type \in DelimJoins => Body(f, o) = f[p[o].inner]
             /\ p[o].type = "CTE" => Body(f, o) = f[Child(p, o, 2)]
  BY DEF Leaves, Scans, Blocking, Streams, Joins, DelimJoins
<1> HIDE DEF Body
<1>4. ASSUME NEW o \in 1 .. n
      PROVE  \/ p[o].type \in Leaves \cup Scans \cup Blocking
             \/ p[o].type \in Streams \cup Joins
             \/ p[o].type \in DelimJoins
             \/ p[o].type = "CTE"
  BY <1>2 DEF OpTypes
<1>19. ASSUME NEW f, NEW g, NEW o \in 1 .. n, \A k \in o + 1 .. n : f[k] = g[k]
       PROVE  Body(f, o) = Body(g, o)
  <2>1. CASE p[o].type \in Leaves \cup Scans \cup Blocking
    BY <1>3, <2>1
  <2>2. CASE p[o].type \in Streams \cup Joins
    <3>1. f[Child(p, o, 1)] = g[Child(p, o, 1)]
      BY <1>2, <1>19, <2>2
    <3> QED
      BY <1>3, <2>2, <3>1
  <2>3. CASE p[o].type \in DelimJoins
    <3>1. f[p[o].inner] = g[p[o].inner]
      BY <1>2, <1>19, <2>3
    <3> QED
      BY <1>3, <2>3, <3>1
  <2>4. CASE p[o].type = "CTE"
    <3>1. f[Child(p, o, 2)] = g[Child(p, o, 2)]
      BY <1>2, <1>19, <2>4
    <3> QED
      BY <1>3, <2>4, <3>1
  <2> QED
    BY <1>4, <2>1, <2>2, <2>3, <2>4
<1>5. ASSUME NEW f \in [1 .. n -> V], NEW o \in 1 .. n PROVE Body(f, o) \in V
  <2>1. CASE p[o].type \in Leaves \cup Scans \cup Blocking
    <3>1. o \in Nat
      BY <1>1
    <3>2. <<o>> \in V
      BY <3>1
    <3> QED
      BY <1>3, <2>1, <3>2
  <2>2. CASE p[o].type \in Streams \cup Joins
    <3>1. Child(p, o, 1) \in 1 .. n /\ o \in Nat
      BY <1>1, <1>2, <2>2
    <3>2. f[Child(p, o, 1)] \in V
      BY <3>1
    <3>3. Append(f[Child(p, o, 1)], o) \in V
      BY <3>1, <3>2
    <3> QED
      BY <1>3, <2>2, <3>3
  <2>3. CASE p[o].type \in DelimJoins
    <3>1. p[o].inner \in 1 .. n
      BY <1>1, <1>2, <2>3
    <3> QED
      BY <1>3, <2>3, <3>1
  <2>4. CASE p[o].type = "CTE"
    <3>1. Child(p, o, 2) \in 1 .. n
      BY <1>1, <1>2, <2>4
    <3> QED
      BY <1>3, <2>4, <3>1
  <2> QED
    BY <1>4, <2>1, <2>2, <2>3, <2>4
<1>6. G \in [[1 .. n -> V] \X (1 .. n) -> V]
  <2> HIDE DEF V
  <2> QED
    BY <1>5
<1>7. \A f \in [1 .. n -> V], o \in 1 .. n : G[<<f, o>>] = Body(f, o)
  <2> HIDE DEF V
  <2> QED
    OBVIOUS
<1>8. ASSUME NEW f \in [1 .. n -> V], NEW g \in [1 .. n -> V], NEW o \in 1 .. n, \A k \in o + 1 .. n : f[k] = g[k]
      PROVE  G[<<f, o>>] = G[<<g, o>>]
  <2>1. Body(f, o) = Body(g, o)
    BY <1>8, <1>19
  <2> HIDE DEF G, V
  <2> QED
    BY <1>7, <2>1
<1>9. V # {}
  <2>1. <<>> \in V
    OBVIOUS
  <2> QED
    BY <2>1
<1>10. LooksBehind(n, V, G)
  <2> HIDE DEF G, V
  <2> QED
    BY <1>6, <1>8 DEF LooksBehind
<1>11. Defines(n, V, G)
  <2>1. n \in Nat
    BY <1>1
  <2> HIDE DEF G, V
  <2> QED
    BY <2>1, <1>9, <1>10, DownwardRecursion
<1>12. PICK f \in [1 .. n -> V] : \A o \in 1 .. n : f[o] = G[<<f, o>>]
  <2> HIDE DEF G, V
  <2> QED
    BY <1>11 DEF Defines
<1>13. f = [o \in Ops(p) |-> Body(f, o)]
  <2> HIDE DEF G, V
  <2> QED
    BY <1>1, <1>7, <1>12
<1>14. Path(p) = [o \in Ops(p) |-> Body(Path(p), o)]
  BY <1>13 DEF Path, Body
<1> DEFINE P == Path(p)
<1>15. DOMAIN P = 1 .. n /\ \A o \in 1 .. n : P[o] = Body(P, o)
  BY <1>1, <1>14
<1> HIDE DEF P
<1>16. \A o \in 1 .. n : P[o] \in V
  <2> DEFINE Bad == {o \in 1 .. n : P[o] \notin V}
  <2> SUFFICES ASSUME Bad # {} PROVE FALSE
    OBVIOUS
  <2>1. PICK o \in Bad : \A k \in Bad : k <= o
    <3> Bad \in SUBSET (1 .. n)
      OBVIOUS
    <3> HIDE DEF Bad, V
    <3> QED
      BY <1>1, GreatestUpTo
  <2>2. \A k \in o + 1 .. n : k \in 1 .. n /\ k \notin Bad
    BY <1>1, <2>1
  <2> DEFINE g == [k \in 1 .. n |-> IF k \in Bad THEN <<>> ELSE P[k]]
  <2>3. g \in [1 .. n -> V]
    OBVIOUS
  <2>4. \A k \in o + 1 .. n : g[k] = P[k]
    BY <2>2
  <2> HIDE DEF g, V
  <2>5. Body(g, o) \in V
    BY <1>5, <2>1, <2>3
  <2>6. Body(g, o) = Body(P, o)
    BY <1>19, <2>1, <2>4
  <2> QED
    BY <1>15, <2>1, <2>5, <2>6
<1>17. P \in [1 .. n -> V]
  <2>1. P = [o \in 1 .. n |-> P[o]]
    BY <1>1, <1>14 DEF P
  <2> HIDE DEF V
  <2> QED
    BY <1>16, <2>1
<1>18. ASSUME NEW o \in 1 .. n
       PROVE  /\ p[o].type \in Leaves \cup Scans \cup Blocking => P[o] = <<o>>
              /\ p[o].type \in Streams \cup Joins => P[o] = Append(P[Child(p, o, 1)], o)
              /\ p[o].type \in DelimJoins => P[o] = P[p[o].inner]
              /\ p[o].type = "CTE" => P[o] = P[Child(p, o, 2)]
  BY <1>3, <1>15
<1> QED
  BY <1>1, <1>17, <1>18 DEF P

\* The way up to an operator, step by step.
LEMMA ReachFacts ==
    ASSUME WellFormed(plan), NEW o \in Ops(plan)
    PROVE  /\ plan[o].type \in Streams \cup Joins =>
                 o \in Reach(o) /\ Reach(Child(plan, o, 1)) \subseteq Reach(o)
           /\ plan[o].type \in DelimJoins => Reach(plan[o].inner) \subseteq Reach(o)
           /\ plan[o].type = "CTE" => Reach(Child(plan, o, 2)) \subseteq Reach(o)
<1>1. ASSUME plan[o].type \in Streams \cup Joins
      PROVE  o \in Reach(o) /\ Reach(Child(plan, o, 1)) \subseteq Reach(o)
  <2>1. Path(plan)[o] = Append(Path(plan)[Child(plan, o, 1)], o)
    BY <1>1, PathDef
  <2>2. Child(plan, o, 1) \in Ops(plan) /\ o \in Nat
    BY <1>1, OwnedByType, PlanFacts
  <2>3. Path(plan)[Child(plan, o, 1)] \in Seq(Nat)
    BY <2>2, PathDef
  <2>4. ToSet(Append(Path(plan)[Child(plan, o, 1)], o)) = ToSet(Path(plan)[Child(plan, o, 1)]) \cup {o}
    BY <2>2, <2>3, AppendFacts
  <2> QED
    BY <2>1, <2>4 DEF Reach
<1>2. plan[o].type \in DelimJoins => Path(plan)[o] = Path(plan)[plan[o].inner]
  BY PathDef
<1>3. plan[o].type = "CTE" => Path(plan)[o] = Path(plan)[Child(plan, o, 2)]
  BY PathDef
<1> QED
  BY <1>1, <1>2, <1>3 DEF Reach

\* It keeps each operator in the pipelines of one sink.
LEMMA GrowsOps ==
    ASSUME BuildInv, Grows
    PROVE  /\ OpsSound'
           /\ \A p \in DOMAIN pipes' : ToSet(pipes'[p].ops) \subseteq Ops(plan')
<1> USE DEF NewPipe, NewMeta
<1>0. stack # <<>> /\ plan' = plan
  BY DEF Grows
<1>1. \A p \in DOMAIN pipes' : p \in DOMAIN pipes \/ /\ p = NewPipe /\ MetaGrows
                                                     /\ pipes'[p].ops = <<>> /\ ToSet(pipes'[p].ops) = {}
                                                     /\ pipes'[p].source = NoOp /\ pipes'[p].sink = Top.op
  <2>1. ToSet(<<>>) = {}
    BY DEF ToSet
  <2> TAKE p \in DOMAIN pipes'
  <2>2. CASE p \notin DOMAIN pipes
    <3>1. p = NewPipe /\ MetaGrows
      BY <2>2, GrowsKeeps
    <3> QED
      BY <2>1, <3>1 DEF MetaGrows
  <2> QED
    BY <2>2
<1>2. ASSUME NEW p \in DOMAIN pipes' PROVE IsInjective(pipes'[p].ops) /\ ToSet(pipes'[p].ops) \subseteq Ops(plan)
  <2>1. CASE p \in DOMAIN pipes
    <3>1. IsInjective(pipes[p].ops) /\ ToSet(pipes[p].ops) \subseteq Ops(plan) /\ pipes[p].ops \in Seq(Nat)
      BY <2>1, GrowsKeeps DEF BuildInv, BuildTyped, OpsSound
    <3>2. Top.op \notin ToSet(pipes[p].ops)
      BY <2>1, GrowsKeeps DEF Placed
    <3>3. Top.op \in Ops(plan) /\ Top.op \in Nat
      BY <1>0, TopFacts
    <3>4. pipes'[p].ops = pipes[p].ops \/ pipes'[p].ops = Append(pipes[p].ops, Top.op)
      BY <2>1 DEF Grows
    <3>5. CASE pipes'[p].ops = pipes[p].ops
      BY <3>1, <3>5
    <3>6. CASE pipes'[p].ops = Append(pipes[p].ops, Top.op)
      <4>1. IsInjective(Append(pipes[p].ops, Top.op)) /\ ToSet(Append(pipes[p].ops, Top.op)) = ToSet(pipes[p].ops) \cup {Top.op}
        BY <3>1, <3>2, <3>3, AppendFacts
      <4> QED
        BY <3>1, <3>3, <3>6, <4>1
    <3> QED
      BY <3>4, <3>5, <3>6
  <2>2. CASE p \notin DOMAIN pipes
    <3>1. pipes'[p].ops = <<>> /\ ToSet(pipes'[p].ops) = {}
      BY <1>1, <2>2
    <3> QED
      BY <3>1 DEF IsInjective
  <2> QED
    BY <2>1, <2>2
<1>3. ASSUME NEW p \in DOMAIN pipes', NEW q \in DOMAIN pipes', NEW x \in ToSet(pipes'[p].ops) \cap ToSet(pipes'[q].ops)
      PROVE  pipes'[p].sink = pipes'[q].sink
  <2>1. p \in DOMAIN pipes /\ q \in DOMAIN pipes
    BY <1>1, <1>3
  <2>2. pipes'[p].sink = pipes[p].sink /\ pipes'[q].sink = pipes[q].sink
    BY <2>1 DEF Grows
  <2>3. CASE x = Top.op
    <3>1. Top.op \notin ToSet(pipes[p].ops) /\ Top.op \notin ToSet(pipes[q].ops)
      BY <2>1, GrowsKeeps DEF Placed
    <3>2. p = Top.pipe /\ q = Top.pipe
      BY <1>3, <2>1, <2>3, <3>1, GrowsKeeps
    <3> QED
      BY <3>2
  <2>4. CASE x # Top.op
    <3>1. x \in ToSet(pipes[p].ops) \cap ToSet(pipes[q].ops)
      BY <1>3, <2>1, <2>4, GrowsKeeps
    <3>2. pipes[p].sink = pipes[q].sink
      BY <2>1, <3>1 DEF BuildInv, OpsSound
    <3> QED
      BY <2>2, <3>2
  <2> QED
    BY <2>3, <2>4
<1>4. ASSUME NEW p \in DOMAIN pipes', pipes'[p].source \in JoinOps
      PROVE  /\ pipes'[p].source \in Placed'
             /\ \A m \in DOMAIN metas' : p # Base(m)'
             /\ \A q \in DOMAIN pipes' : pipes'[p].source \in ToSet(pipes'[q].ops) =>
                   q < p /\ pipes'[q].sink = pipes'[p].sink
  <2>1. NoOp \notin JoinOps
    <3>1. \A o \in Ops(plan) : o # 0
      BY <1>0, TopFacts, PlanFacts
    <3> QED
      BY <3>1 DEF JoinOps, OfType, NoOp
  <2>2. p \in DOMAIN pipes
    BY <1>1, <1>4, <2>1
  <2>3. pipes'[p].source = pipes[p].source
    BY <1>4, <2>2 DEF Grows
  <2>4. /\ pipes[p].source \in Placed
        /\ \A m \in DOMAIN metas : p # Base(m)
        /\ \A q \in DOMAIN pipes : pipes[p].source \in ToSet(pipes[q].ops) =>
                   q < p /\ pipes[q].sink = pipes[p].sink
    BY <1>4, <2>2, <2>3 DEF BuildInv, OpsSound
  <2>5. pipes'[p].source \in Placed' /\ pipes[p].source # Top.op
    BY <2>3, <2>4, GrowsKeeps
  <2>6. ASSUME NEW m \in DOMAIN metas' PROVE p # Base(m)'
    <3>1. CASE m \in DOMAIN metas
      BY <2>4, <3>1, GrowsKeeps
    <3>2. CASE m \notin DOMAIN metas
      <4>1. m = NewMeta /\ metas'[NewMeta] = MetaPipeline(Top.op, NewPipe)
        BY <3>2, GrowsKeeps DEF MetaGrows
      <4>2. metas'[m].pipes = <<NewPipe>>
        BY <4>1 DEF MetaPipeline
      <4>3. Base(m)' = NewPipe
        BY <4>2 DEF Base
      <4>4. NewPipe \notin DOMAIN pipes
        BY GrowsKeeps
      <4> QED
        BY <2>2, <4>3, <4>4
    <3> QED
      BY <3>1, <3>2
  <2>7. ASSUME NEW q \in DOMAIN pipes', pipes'[p].source \in ToSet(pipes'[q].ops)
        PROVE  q < p /\ pipes'[q].sink = pipes'[p].sink
    <3>1. q \in DOMAIN pipes
      BY <1>1, <2>7
    <3>2. pipes[p].source \in ToSet(pipes[q].ops)
      BY <2>3, <2>5, <2>7, <3>1, GrowsKeeps
    <3> QED
      BY <2>2, <2>4, <3>1, <3>2 DEF Grows
  <2> QED
    BY <2>5, <2>6, <2>7
<1>5. JoinOps' = JoinOps
  BY <1>0 DEF JoinOps
<1> QED
  BY <1>0, <1>2, <1>3, <1>4, <1>5 DEF OpsSound

\* Two sequences, one after the other.
LEMMA ConcatFacts ==
    ASSUME NEW S, NEW s \in Seq(S), NEW t \in Seq(S)
    PROVE  /\ s \o t \in Seq(S) /\ Len(s \o t) = Len(s) + Len(t) /\ Len(s) \in Nat
           /\ \A i \in 1 .. Len(s) : (s \o t)[i] = s[i]
           /\ \A i \in 1 .. Len(t) : (s \o t)[Len(s) + i] = t[i]
  OBVIOUS

\* The new stack: what the step puts on it, and what was below the top.
LEMMA NewStack ==
    ASSUME BuildInv, Grows, NEW N, NewFrames(N)
    PROVE  /\ stack' \in Seq(FrameType) /\ Len(N) \in Nat /\ DOMAIN N = 1 .. Len(N)
           /\ \A i \in DOMAIN N : i \in DOMAIN stack' /\ stack'[i] = N[i] /\ N[i] \in FrameType
           /\ \A i \in DOMAIN stack : i # 1 => Len(N) + i - 1 \in DOMAIN stack' /\ stack'[Len(N) + i - 1] = stack[i]
           /\ \A k \in DOMAIN stack' :
                 k \in DOMAIN N \/ \E i \in DOMAIN stack : i # 1 /\ k = Len(N) + i - 1
           /\ DOMAIN stack = 1 .. Len(stack) /\ DOMAIN stack' = 1 .. Len(stack')
<1> DEFINE T == Tail(stack)
<1>0. stack # <<>> /\ N \in Seq(FrameType) /\ stack' = N \o T
  BY DEF Grows, NewFrames
<1>1. stack \in Seq(FrameType) /\ T \in Seq(FrameType) /\ Len(T) = Len(stack) - 1 /\ Len(stack) \in Nat
  BY <1>0, TopFacts DEF BuildInv, BuildTyped
<1>2. \A i \in 1 .. Len(T) : T[i] = stack[i + 1]
  BY <1>0, <1>1, TopFacts
<1> HIDE DEF T
<1>3. /\ stack' \in Seq(FrameType) /\ Len(stack') = Len(N) + Len(T) /\ Len(N) \in Nat
      /\ \A i \in 1 .. Len(N) : stack'[i] = N[i]
      /\ \A i \in 1 .. Len(T) : stack'[Len(N) + i] = T[i]
  <2>1. N \in Seq(FrameType) /\ T \in Seq(FrameType)
    BY <1>0, <1>1
  <2>2. /\ N \o T \in Seq(FrameType) /\ Len(N \o T) = Len(N) + Len(T) /\ Len(N) \in Nat
        /\ \A i \in 1 .. Len(N) : (N \o T)[i] = N[i]
        /\ \A i \in 1 .. Len(T) : (N \o T)[Len(N) + i] = T[i]
    BY <2>1, ConcatFacts
  <2> QED
    BY <1>0, <2>2
<1>4. DOMAIN stack = 1 .. Len(stack) /\ DOMAIN stack' = 1 .. Len(stack') /\ DOMAIN N = 1 .. Len(N)
  BY <1>0, <1>1, <1>3
<1>5. ASSUME NEW i \in DOMAIN stack, i # 1
      PROVE  Len(N) + i - 1 \in DOMAIN stack' /\ stack'[Len(N) + i - 1] = stack[i]
  <2>1. i - 1 \in 1 .. Len(T) /\ (i - 1) + 1 = i
    BY <1>1, <1>4, <1>5
  <2>2. stack'[Len(N) + (i - 1)] = stack[i]
    BY <1>2, <1>3, <2>1
  <2>3. Len(N) + (i - 1) = Len(N) + i - 1 /\ Len(N) + i - 1 \in 1 .. Len(N) + Len(T)
    BY <1>3, <2>1, <1>1
  <2> QED
    BY <1>3, <1>4, <2>2, <2>3
<1>6. ASSUME NEW k \in DOMAIN stack', k \notin DOMAIN N
      PROVE  \E i \in DOMAIN stack : i # 1 /\ k = Len(N) + i - 1
  <2>1. k - Len(N) + 1 \in 1 .. Len(stack) /\ k - Len(N) + 1 # 1 /\ k = Len(N) + (k - Len(N) + 1) - 1
    BY <1>1, <1>3, <1>4, <1>6
  <2> QED
    BY <1>4, <2>1
<1>7. \A i \in DOMAIN N : i \in DOMAIN stack' /\ stack'[i] = N[i] /\ N[i] \in FrameType
  BY <1>0, <1>1, <1>3, <1>4
<1> QED
  BY <1>3, <1>4, <1>5, <1>6, <1>7

\* The frames below the top stay sound, and so are the new ones.
LEMMA OldFrame ==
    ASSUME BuildInv, Grows, NEW i \in DOMAIN stack, i # 1, NEW f, f = stack[i]
    PROVE  FrameSound(f)'
<1>0. stack # <<>> /\ plan' = plan /\ Top.do \in Placing
  BY DEF Grows
<1>1. FrameSound(f) /\ f \in FrameType
  BY DEF BuildInv, BuildTyped, FramesSound
<1>2. Apart(Top, f)
  <2>1. 1 \in DOMAIN stack /\ Top = stack[1]
    BY <1>0, TopFacts
  <2>2. 1 < i
    <3>1. stack \in Seq(FrameType)
      BY DEF BuildInv, BuildTyped
    <3> QED
      BY <3>1
  <2> QED
    BY <2>1, <2>2 DEF BuildInv, FramesSound
<1>3. f.op \in Ops(plan') /\ f.meta \in DOMAIN metas' /\ f.pipe = Base(f.meta)'
  <2>1. f.op \in Ops(plan) /\ f.meta \in DOMAIN metas /\ f.pipe = Base(f.meta)
    BY <1>1 DEF FrameSound
  <2>2. DOMAIN metas \subseteq DOMAIN metas' /\ Base(f.meta)' = Base(f.meta)
    BY <2>1, GrowsKeeps
  <2> QED
    BY <1>0, <2>1, <2>2
<1>4. ASSUME f.do \in Placing PROVE Sub(f.op)' \cap Placed' = {} /\ \A d \in Ops(plan') : plan'[d].distinct # f.op
  <2>1. Sub(f.op)' = Sub(f.op)
    BY <1>0 DEF Sub
  <2>2. Top.op \notin Sub(f.op)
    <3>1. Top.op \in Sub(Top.op)
      BY <1>0, TopFacts, SubtreeBelow DEF Sub
    <3> QED
      BY <1>0, <1>2, <1>4, <3>1 DEF Apart
  <2>3. Sub(f.op) \cap Placed = {} /\ \A d \in Ops(plan) : plan[d].distinct # f.op
    BY <1>1, <1>4 DEF FrameSound
  <2>4. Placed' \subseteq Placed \cup {Top.op}
    BY GrowsKeeps
  <2> QED
    BY <1>0, <2>1, <2>2, <2>3, <2>4
<1>5. ASSUME f.do = "child"
      PROVE  /\ f.op \in JoinOps' /\ f.op \in ToSet(pipes'[f.pipe].ops)
             /\ f.last \in ToSet(metas'[f.meta].pipes)
             /\ \A p \in DOMAIN pipes' : pipes'[p].source # f.op
  <2>1. /\ f.op \in JoinOps /\ f.op \in ToSet(pipes[f.pipe].ops)
        /\ f.last \in ToSet(metas[f.meta].pipes)
        /\ \A p \in DOMAIN pipes : pipes[p].source # f.op
    BY <1>1, <1>5 DEF FrameSound
  <2>2. f.meta \in DOMAIN metas /\ f.pipe \in DOMAIN pipes
    <3>1. f.meta \in DOMAIN metas /\ f.pipe = Base(f.meta)
      BY <1>1 DEF FrameSound
    <3> QED
      BY <3>1, GrowsKeeps
  <2>3. JoinOps' = JoinOps
    BY <1>0 DEF JoinOps
  <2>4. f.op \in ToSet(pipes'[f.pipe].ops) /\ f.last \in ToSet(metas'[f.meta].pipes)
    BY <2>1, <2>2, GrowsKeeps
  <2>5. ASSUME NEW p \in DOMAIN pipes' PROVE pipes'[p].source # f.op
    <3>1. CASE p \in DOMAIN pipes
      BY <2>1, <3>1 DEF Grows
    <3>2. CASE p \notin DOMAIN pipes
      <4>1. pipes'[p].source = 0
        BY <3>2, GrowsKeeps DEF MetaGrows, NoOp
      <4>2. f.op # 0
        BY <1>0, <1>1, TopFacts, PlanFacts DEF FrameSound
      <4> QED
        BY <4>1, <4>2
    <3> QED
      BY <3>1, <3>2
  <2> QED
    BY <2>1, <2>3, <2>4, <2>5
<1>6. ASSUME f.do = "scans" PROVE f.op \in OfType(plan', DelimJoins \cup {"CTE"}) /\ metas'[f.meta].sink = f.op
  <2>1. f.op \in OfType(plan, DelimJoins \cup {"CTE"}) /\ metas[f.meta].sink = f.op /\ f.meta \in DOMAIN metas
    BY <1>1, <1>6 DEF FrameSound
  <2> QED
    BY <1>0, <2>1, GrowsKeeps
<1> QED
  BY <1>3, <1>4, <1>5, <1>6 DEF FrameSound

LEMMA NewFrame ==
    ASSUME BuildInv, Grows, NEW N, NewFrames(N), NEW i \in DOMAIN N, NEW f, f = N[i]
    PROVE  FrameSound(f)'
<1>0. stack # <<>> /\ plan' = plan /\ Top.do \in Placing
  BY DEF Grows
<1>1. /\ WellFormed(plan) /\ Top.op \in Ops(plan) /\ Top.meta \in DOMAIN metas /\ Top.pipe = Base(Top.meta)
      /\ Top.pipe \in DOMAIN pipes
  BY <1>0, TopFacts
<1>2. Here(f) \/ There(f)
  BY DEF NewFrames
<1>3. There(f) => /\ MetaGrows /\ NewMeta \in DOMAIN metas' /\ metas'[f.meta] = MetaPipeline(Top.op, NewPipe)
                  /\ f.meta \in DOMAIN metas'
  <2>1. Len(pipes') = NewPipe => MetaGrows
    BY DEF Grows
  <2>2. MetaGrows => Len(metas') = NewMeta /\ metas'[NewMeta] = MetaPipeline(Top.op, NewPipe)
    BY DEF MetaGrows
  <2>3. metas' \in Seq(MetaType) /\ metas \in Seq(MetaType)
    BY DEF Grows, BuildInv, BuildTyped
  <2>4. Len(metas') = NewMeta => NewMeta \in DOMAIN metas'
    BY <2>3 DEF NewMeta
  <2> QED
    BY <2>1, <2>2, <2>4 DEF There
<1>4. f.meta \in DOMAIN metas' /\ f.pipe = Base(f.meta)'
  <2>1. CASE Here(f)
    <3>1. f.meta \in DOMAIN metas /\ f.pipe = Base(f.meta)
      BY <1>1, <2>1 DEF Here
    <3>2. DOMAIN metas \subseteq DOMAIN metas' /\ Base(f.meta)' = Base(f.meta)
      BY <3>1, GrowsKeeps
    <3> QED
      BY <3>1, <3>2
  <2>2. CASE There(f)
    <3>1. metas'[f.meta].pipes = <<f.pipe>>
      BY <1>3, <2>2 DEF MetaPipeline, There
    <3> QED
      BY <1>3, <2>2, <3>1 DEF Base
  <2> QED
    BY <1>2, <2>1, <2>2
<1>5. f.op = Top.op \/ f.op \in Owned(plan, Top.op)
  <2>1. f \in FrameType
    BY DEF NewFrames
  <2>2. f.do \in {"build", "probe", "child", "scans"}
    BY <2>1 DEF FrameType
  <2> QED
    BY <2>2 DEF NewFrames, Placing
<1>6. f.op \in Ops(plan)
  BY <1>1, <1>5, PlanFacts
<1>7. ASSUME f.do \in Placing PROVE Sub(f.op)' \cap Placed' = {} /\ \A d \in Ops(plan') : plan'[d].distinct # f.op
  <2>1. f.op \in Owned(plan, Top.op)
    BY <1>7 DEF NewFrames
  <2>2. Sub(f.op)' = Sub(f.op)
    BY <1>0 DEF Sub
  <2>3. Sub(f.op) \subseteq Sub(Top.op) /\ Top.op \notin Sub(f.op)
    BY <1>1, <2>1, SubtreesApart DEF Sub
  <2>4. Sub(Top.op) \cap Placed = {}
    BY <1>0, TopFacts DEF FrameSound
  <2>5. Placed' \subseteq Placed \cup {Top.op}
    BY GrowsKeeps
  <2>6. \A d \in Ops(plan) : plan[d].distinct # f.op
    BY <1>1, <2>1, OwnedByType
  <2> QED
    BY <1>0, <2>2, <2>3, <2>4, <2>5, <2>6
<1>8. ASSUME f.do = "child"
      PROVE  /\ f.op \in JoinOps' /\ f.op \in ToSet(pipes'[f.pipe].ops)
             /\ f.last \in ToSet(metas'[f.meta].pipes)
             /\ \A p \in DOMAIN pipes' : pipes'[p].source # f.op
  <2>1. /\ f.op = Top.op /\ Top.op \in JoinOps /\ Here(f)
        /\ pipes'[Top.pipe].ops = Append(pipes[Top.pipe].ops, Top.op)
        /\ f.last \in ToSet(metas[Top.meta].pipes)
    BY <1>8 DEF NewFrames
  <2>2. JoinOps' = JoinOps
    BY <1>0 DEF JoinOps
  <2>3. Top.op \in ToSet(pipes'[Top.pipe].ops)
    <3>1. pipes[Top.pipe].ops \in Seq(Nat) /\ Top.op \in Nat
      BY <1>0, <1>1, TopFacts, GrowsKeeps
    <3> QED
      BY <2>1, <3>1, AppendFacts
  <2>4. metas'[Top.meta].pipes = metas[Top.meta].pipes
    BY <1>1, GrowsKeeps
  <2>5. ASSUME NEW p \in DOMAIN pipes' PROVE pipes'[p].source # Top.op
    <3>1. CASE p \in DOMAIN pipes
      <4>1. pipes[p].source # Top.op
        <5>1. pipes[p].source = Top.op => Top.op \in Placed
          BY <2>1, <3>1 DEF BuildInv, OpsSound
        <5> QED
          BY <5>1, GrowsKeeps
      <4> QED
        BY <2>1, <3>1, <4>1 DEF Grows
    <3>2. CASE p \notin DOMAIN pipes
      <4>1. pipes'[p].source = 0
        BY <3>2, GrowsKeeps DEF MetaGrows, NoOp
      <4>2. Top.op # 0
        BY <1>1, PlanFacts
      <4> QED
        BY <4>1, <4>2
    <3> QED
      BY <3>1, <3>2
  <2> QED
    BY <2>1, <2>2, <2>3, <2>4, <2>5 DEF Here
<1>9. ASSUME f.do = "scans" PROVE f.op \in OfType(plan', DelimJoins \cup {"CTE"}) /\ metas'[f.meta].sink = f.op
  <2>1. f.op = Top.op /\ There(f) /\ Top.op \in OfType(plan, DelimJoins \cup {"CTE"})
    BY <1>9 DEF NewFrames
  <2> QED
    BY <1>0, <1>3, <2>1 DEF MetaPipeline
<1> QED
  BY <1>0, <1>4, <1>6, <1>7, <1>8, <1>9 DEF FrameSound

LEMMA GrowsFrames ==
    ASSUME BuildInv, Grows, NEW N, NewFrames(N)
    PROVE  FramesSound'
<1>0. stack # <<>> /\ plan' = plan /\ Top.do \in Placing
  BY DEF Grows
<1>1. ASSUME NEW k \in DOMAIN stack' PROVE FrameSound(stack[k])'
  <2> DEFINE f == stack'[k]
  <2>1. CASE k \in DOMAIN N
    <3>1. stack'[k] = N[k]
      BY <2>1, NewStack
    <3>2. \A g : g = N[k] => FrameSound(g)'
      BY <2>1, NewFrame
    <3> QED
      BY <3>1, <3>2 DEF FrameSound
  <2>2. CASE \E i \in DOMAIN stack : i # 1 /\ k = Len(N) + i - 1
    <3>1. PICK i \in DOMAIN stack : i # 1 /\ k = Len(N) + i - 1
      BY <2>2
    <3>2. stack'[k] = stack[i]
      BY <3>1, NewStack
    <3>3. \A g : g = stack[i] => FrameSound(g)'
      BY <3>1, OldFrame
    <3> QED
      BY <3>2, <3>3 DEF FrameSound
  <2> QED
    BY <2>1, <2>2, NewStack
<1>2. ASSUME NEW k \in DOMAIN stack', NEW l \in DOMAIN stack', k < l PROVE Apart(stack[k], stack[l])'
  <2> DEFINE f == stack'[k]
             g == stack'[l]
  <2>1. \A x : Subtree(plan')[x] = Sub(x)
    BY <1>0 DEF Sub
  <2>2. /\ DOMAIN N = 1 .. Len(N) /\ Len(N) \in Nat
        /\ DOMAIN stack = 1 .. Len(stack) /\ DOMAIN stack' = 1 .. Len(stack')
        /\ WellFormed(plan) /\ Top.op \in Ops(plan) /\ Top.pipe \in DOMAIN pipes
        /\ stack[1] = Top /\ 1 \in DOMAIN stack /\ FrameSound(Top)
    BY <1>0, TopFacts, NewStack
  <2>3. \A i \in DOMAIN N : /\ N[i].do \in Placing => Sub(N[i].op) \subseteq Sub(Top.op)
                            /\ N[i].do = "child" => N[i].op = Top.op
                            /\ N[i].pipe = Top.pipe \/ N[i].pipe = NewPipe
    BY <2>2, SubtreesApart DEF NewFrames, Sub, Here, There
  <2>4. ASSUME NEW i \in DOMAIN stack, i # 1
        PROVE  /\ Apart(Top, stack[i]) /\ stack[i].pipe \in DOMAIN pipes
               /\ stack[i].do = "child" => stack[i].op # Top.op
    <3>1. 1 < i
      BY <2>2, <2>4
    <3>2. Apart(Top, stack[i]) /\ FrameSound(stack[i])
      BY <2>2, <3>1 DEF BuildInv, FramesSound
    <3>3. stack[i].meta \in DOMAIN metas /\ stack[i].pipe = Base(stack[i].meta)
      BY <3>2 DEF FrameSound
    <3>4. stack[i].pipe \in DOMAIN pipes
      BY <3>3, GrowsKeeps
    <3>5. stack[i].do = "child" => stack[i].op \in Placed
      BY <3>2, <3>4 DEF FrameSound, Placed
    <3> QED
      BY <3>2, <3>4, <3>5, GrowsKeeps
  <2>5. CASE k \in DOMAIN N /\ l \in DOMAIN N
    <3>1. f = N[k] /\ g = N[l]
      BY <2>5, NewStack
    <3>2. f.do \in Placing /\ g.do \in Placing => f.op # g.op /\ f.pipe # g.pipe
      BY <1>2, <2>5, <3>1 DEF NewFrames
    <3>3. ~(f.do = "child" /\ g.do = "child")
      BY <1>2, <2>5, <3>1 DEF NewFrames
    <3>4. f.do \in Placing /\ g.do \in Placing => f.op \in Owned(plan, Top.op) /\ g.op \in Owned(plan, Top.op)
      BY <2>5, <3>1 DEF NewFrames
    <3>5. f.do \in Placing /\ g.do \in Placing => Sub(f.op) \cap Sub(g.op) = {}
      <4> HIDE DEF f, g
      <4> QED
        BY <2>2, <3>2, <3>4, SubtreesApart DEF Sub
    <3> QED
      BY <2>1, <3>2, <3>3, <3>5 DEF Apart, Sub
  <2>6. CASE k \in DOMAIN N /\ l \notin DOMAIN N
    <3>1. PICK j \in DOMAIN stack : j # 1 /\ l = Len(N) + j - 1
      BY <2>6, NewStack
    <3>2. f = N[k] /\ g = stack[j]
      BY <2>6, <3>1, NewStack
    <3>3. Apart(Top, g) /\ g.pipe \in DOMAIN pipes /\ (g.do = "child" => g.op # Top.op)
      BY <2>4, <3>1, <3>2
    <3>4. f.do = "child" /\ g.do = "child" => f.op # g.op
      BY <2>3, <2>6, <3>2, <3>3
    <3>5. f.do \in Placing /\ g.do \in Placing => Sub(f.op) \cap Sub(g.op) = {}
      BY <1>0, <2>3, <2>6, <3>2, <3>3 DEF Apart
    <3>6. f.do \in Placing /\ g.do \in Placing => f.pipe # g.pipe
      BY <1>0, <2>3, <2>6, <3>2, <3>3, GrowsKeeps DEF Apart
    <3> QED
      BY <2>1, <3>4, <3>5, <3>6 DEF Apart, Sub
  <2>7. CASE k \notin DOMAIN N /\ l \notin DOMAIN N
    <3>1. PICK i \in DOMAIN stack : i # 1 /\ k = Len(N) + i - 1
      BY <2>7, NewStack
    <3>2. PICK j \in DOMAIN stack : j # 1 /\ l = Len(N) + j - 1
      BY <2>7, NewStack
    <3>3. f = stack[i] /\ g = stack[j]
      BY <3>1, <3>2, NewStack
    <3>4. i < j
      BY <1>2, <2>2, <3>1, <3>2
    <3>5. Apart(f, g)
      BY <3>3, <3>4 DEF BuildInv, FramesSound
    <3> QED
      BY <2>1, <3>5 DEF Apart, Sub
  <2>8. ~(k \notin DOMAIN N /\ l \in DOMAIN N)
    BY <1>2, <2>2
  <2> QED
    BY <2>5, <2>6, <2>7, <2>8
<1> QED
  BY <1>1, <1>2 DEF FramesSound

\* Every pipeline has a source, or will get one.
LEMMA GrowsSources ==
    ASSUME BuildInv, Grows, NEW N, NewFrames(N)
    PROVE  SourcesComing'
<1>0. stack # <<>> /\ plan' = plan
  BY DEF Grows
<1> SUFFICES ASSUME NEW p \in DOMAIN pipes', pipes'[p].source \notin Ops(plan)
             PROVE  \E k \in DOMAIN stack' : stack'[k].do \in Placing /\ stack'[k].pipe = p
  BY <1>0 DEF SourcesComing
<1>1. ASSUME NEW i \in DOMAIN N, N[i].do \in Placing, N[i].pipe = p
      PROVE  \E k \in DOMAIN stack' : stack'[k].do \in Placing /\ stack'[k].pipe = p
  BY <1>1, NewStack
<1>2. CASE p \notin DOMAIN pipes
  <2>1. p = NewPipe /\ Len(pipes') = NewPipe
    <3>1. p = NewPipe /\ MetaGrows
      BY <1>2, GrowsKeeps
    <3>2. Len(pipes') = Len(pipes) => DOMAIN pipes' = DOMAIN pipes
      BY DEF Grows, BuildInv, BuildTyped
    <3> QED
      BY <1>2, <3>1, <3>2 DEF Grows
  <2> QED
    BY <1>1, <2>1 DEF NewFrames
<1>3. CASE p = Top.pipe
  BY <1>1, <1>3 DEF NewFrames
<1>4. CASE p \in DOMAIN pipes /\ p # Top.pipe
  <2>1. pipes[p].source \notin Ops(plan)
    BY <1>4 DEF Grows
  <2>2. PICK i \in DOMAIN stack : stack[i].do \in Placing /\ stack[i].pipe = p
    BY <1>4, <2>1 DEF BuildInv, SourcesComing
  <2>3. i # 1
    BY <1>0, <1>4, <2>2, TopFacts
  <2> QED
    BY <2>2, <2>3, NewStack
<1> QED
  BY <1>2, <1>3, <1>4

\* The joins above each new frame have their frames below it.
LEMMA GrowsWaits ==
    ASSUME BuildInv, Grows, NEW N, NewFrames(N)
    PROVE  ChildrenWait'
<1>0. stack # <<>> /\ plan' = plan /\ Top.do \in Placing
  BY DEF Grows
<1> DEFINE Later(i, j, p) == \E k \in DOMAIN stack' :
                                i < k /\ stack'[k].do = "child" /\ stack'[k].op = j /\ stack'[k].pipe = p
<1>1. /\ DOMAIN N = 1 .. Len(N) /\ Len(N) \in Nat
      /\ DOMAIN stack = 1 .. Len(stack) /\ DOMAIN stack' = 1 .. Len(stack')
      /\ Top.pipe \in DOMAIN pipes
      /\ stack[1] = Top /\ 1 \in DOMAIN stack
  BY <1>0, TopFacts, NewStack
<1>2. ASSUME NEW i \in DOMAIN stack, NEW j, NEW p, Waits(i, j, p), NEW h \in DOMAIN stack', h <= Len(N) + i - 1
      PROVE  Later(h, j, p)
  <2>1. PICK k \in DOMAIN stack : i < k /\ stack[k].do = "child" /\ stack[k].op = j /\ stack[k].pipe = p
    BY <1>2 DEF Waits
  <2>2. k # 1 /\ h < Len(N) + k - 1
    BY <1>1, <1>2, <2>1
  <2> QED
    BY <2>1, <2>2, NewStack
<1>3. \A p \in DOMAIN pipes : Top.op \notin ToSet(pipes[p].ops) /\ pipes[p].ops \in Seq(Nat)
  BY GrowsKeeps DEF Placed
<1>4. \A j \in ToSet(pipes[Top.pipe].ops) \cap JoinOps : Waits(1, j, Top.pipe)
  BY <1>0, <1>1 DEF BuildInv, ChildrenWait
<1>5. \A i \in DOMAIN N : i <= Len(N) + 1 - 1 /\ i \in DOMAIN stack' /\ stack'[i] = N[i]
  BY <1>1, NewStack
<1>6. ASSUME NEW i \in DOMAIN N, N[i].do \in Placing, NEW j \in ToSet(pipes'[N[i].pipe].ops) \cap JoinOps
      PROVE  Later(i, j, N[i].pipe)
  <2>1. CASE There(N[i])
    <3>1. pipes'[N[i].pipe].ops = <<>>
      BY <2>1 DEF There, Grows, MetaGrows
    <3> QED
      BY <3>1 DEF ToSet
  <2>2. CASE Here(N[i])
    <3>1. N[i].pipe = Top.pipe
      BY <2>2 DEF Here
    <3>2. CASE j \in ToSet(pipes[Top.pipe].ops)
      <4>1. Waits(1, j, Top.pipe)
        BY <1>4, <1>6, <3>2
      <4> HIDE DEF Later
      <4> QED
        BY <1>1, <1>2, <1>5, <3>1, <4>1
    <3>3. CASE j \notin ToSet(pipes[Top.pipe].ops)
      <4>1. j = Top.op
        BY <1>1, <1>6, <3>1, <3>3, GrowsKeeps
      <4>2. PICK k \in DOMAIN N : i < k /\ N[k].do = "child"
        BY <1>6, <3>1, <4>1 DEF NewFrames
      <4>3. N[k].op = Top.op /\ N[k].pipe = Top.pipe
        BY <4>2 DEF NewFrames, Here
      <4> QED
        BY <1>5, <3>1, <4>1, <4>2, <4>3
    <3> QED
      BY <3>2, <3>3
  <2> QED
    BY <2>1, <2>2 DEF NewFrames
<1>7. ASSUME NEW i \in DOMAIN N, N[i].do = "child",
             NEW a \in DOMAIN pipes'[N[i].pipe].ops, NEW b \in DOMAIN pipes'[N[i].pipe].ops,
             a < b, pipes'[N[i].pipe].ops[b] = N[i].op, pipes'[N[i].pipe].ops[a] \in JoinOps
      PROVE  Later(i, pipes'[N[i].pipe].ops[a], N[i].pipe)
  <2> DEFINE ops == pipes[Top.pipe].ops
  <2>1. N[i].op = Top.op /\ N[i].pipe = Top.pipe /\ pipes'[Top.pipe].ops = Append(ops, Top.op)
    BY <1>7 DEF NewFrames, Here
  <2>2. ops \in Seq(Nat) /\ Top.op \in Nat
    BY <1>0, <1>1, <1>3, TopFacts
  <2>3. /\ DOMAIN Append(ops, Top.op) = 1 .. Len(ops) + 1 /\ DOMAIN ops = 1 .. Len(ops) /\ Len(ops) \in Nat
        /\ \A x \in DOMAIN ops : Append(ops, Top.op)[x] = ops[x]
    BY <2>2, AppendFacts
  <2>4. a \in DOMAIN ops
    BY <1>7, <2>1, <2>3
  <2>5. ops[a] \in ToSet(ops) /\ ops[a] = pipes'[N[i].pipe].ops[a]
    BY <2>1, <2>3, <2>4 DEF ToSet
  <2>6. Waits(1, ops[a], Top.pipe)
    BY <1>4, <1>7, <2>5
  <2> HIDE DEF Later, ops
  <2> QED
    BY <1>1, <1>2, <1>5, <2>1, <2>5, <2>6
<1>8. ASSUME NEW i \in DOMAIN stack, i # 1, NEW h \in DOMAIN stack', h = Len(N) + i - 1
      PROVE  /\ stack[i].do \in Placing =>
                  \A j \in ToSet(pipes'[stack[i].pipe].ops) \cap JoinOps : Later(h, j, stack[i].pipe)
             /\ stack[i].do = "child" =>
                  \A a, b \in DOMAIN pipes'[stack[i].pipe].ops :
                      (/\ a < b /\ pipes'[stack[i].pipe].ops[b] = stack[i].op
                       /\ pipes'[stack[i].pipe].ops[a] \in JoinOps)
                          => Later(h, pipes'[stack[i].pipe].ops[a], stack[i].pipe)
  <2> DEFINE f == stack[i]
             ops == pipes[f.pipe].ops
  <2>1. 1 < i
    BY <1>1, <1>8
  <2>2. Apart(Top, f) /\ FrameSound(f)
    BY <1>1, <2>1 DEF BuildInv, FramesSound
  <2>3. f.pipe \in DOMAIN pipes
    <3>1. f.meta \in DOMAIN metas /\ f.pipe = Base(f.meta)
      BY <2>2 DEF FrameSound
    <3> QED
      BY <3>1, GrowsKeeps
  <2>4. ops \in Seq(Nat)
    BY <1>3, <2>3
  <2>5. ASSUME NEW j, Waits(i, j, f.pipe) PROVE Later(h, j, f.pipe)
    <3>1. h <= Len(N) + i - 1
      BY <1>1, <1>8
    <3> HIDE DEF Later
    <3> QED
      BY <1>2, <2>5, <3>1
  <2>6. ASSUME f.do \in Placing, NEW j \in ToSet(pipes'[f.pipe].ops) \cap JoinOps PROVE Later(h, j, f.pipe)
    <3>1. f.pipe # Top.pipe
      BY <1>0, <2>2, <2>6 DEF Apart
    <3>2. pipes'[f.pipe].ops = ops
      BY <2>3, <3>1, GrowsKeeps
    <3>3. Waits(i, j, f.pipe)
      BY <2>6, <3>2 DEF BuildInv, ChildrenWait
    <3> HIDE DEF Later
    <3> QED
      BY <2>5, <3>3
  <2>7. ASSUME f.do = "child", NEW a \in DOMAIN pipes'[f.pipe].ops, NEW b \in DOMAIN pipes'[f.pipe].ops,
               a < b, pipes'[f.pipe].ops[b] = f.op, pipes'[f.pipe].ops[a] \in JoinOps
        PROVE  Later(h, pipes'[f.pipe].ops[a], f.pipe)
    <3>1. f.op \in ToSet(ops)
      BY <2>2, <2>7 DEF FrameSound
    <3>2. f.op # Top.op
      BY <1>3, <2>3, <3>1
    <3>3. /\ a \in DOMAIN ops /\ b \in DOMAIN ops
          /\ pipes'[f.pipe].ops[a] = ops[a] /\ pipes'[f.pipe].ops[b] = ops[b]
      <4>1. CASE pipes'[f.pipe].ops = ops
        BY <2>7, <4>1
      <4>2. CASE pipes'[f.pipe].ops = Append(ops, Top.op)
        <5>1. Top.op \in Nat
          BY <1>0, TopFacts
        <5>2. /\ DOMAIN Append(ops, Top.op) = 1 .. Len(ops) + 1 /\ DOMAIN ops = 1 .. Len(ops) /\ Len(ops) \in Nat
              /\ \A x \in DOMAIN ops : Append(ops, Top.op)[x] = ops[x]
              /\ Append(ops, Top.op)[Len(ops) + 1] = Top.op
          <6> HIDE DEF ops
          <6> QED
            BY <2>4, <5>1, AppendFacts
        <5>3. b # Len(ops) + 1
          BY <2>7, <3>2, <4>2, <5>2
        <5>4. b \in DOMAIN ops /\ a \in DOMAIN ops
          BY <2>7, <4>2, <5>2, <5>3
        <5> HIDE DEF ops
        <5> QED
          BY <4>2, <5>2, <5>4
      <4> QED
        BY <2>3, <4>1, <4>2 DEF Grows
    <3>4. Waits(i, ops[a], f.pipe)
      BY <2>7, <3>3 DEF BuildInv, ChildrenWait
    <3> HIDE DEF Later
    <3> QED
      BY <2>5, <3>3, <3>4
  <2> HIDE DEF Later
  <2> QED
    BY <2>6, <2>7
<1>9. ASSUME NEW k \in DOMAIN stack'
      PROVE  /\ stack'[k].do \in Placing =>
                  \A j \in ToSet(pipes'[stack'[k].pipe].ops) \cap JoinOps : Later(k, j, stack'[k].pipe)
             /\ stack'[k].do = "child" =>
                  \A a, b \in DOMAIN pipes'[stack'[k].pipe].ops :
                      (/\ a < b /\ pipes'[stack'[k].pipe].ops[b] = stack'[k].op
                       /\ pipes'[stack'[k].pipe].ops[a] \in JoinOps)
                          => Later(k, pipes'[stack'[k].pipe].ops[a], stack'[k].pipe)
  <2> HIDE DEF Later
  <2>1. CASE k \in DOMAIN N
    BY <1>5, <1>6, <1>7, <2>1
  <2>2. CASE k \notin DOMAIN N
    <3>1. PICK i \in DOMAIN stack : i # 1 /\ k = Len(N) + i - 1
      BY <2>2, NewStack
    <3>2. stack'[k] = stack[i]
      BY <3>1, NewStack
    <3> QED
      BY <1>8, <3>1, <3>2
  <2> QED
    BY <2>1, <2>2
<1>10. JoinOps' = JoinOps
  BY <1>0 DEF JoinOps
<1> QED
  BY <1>9, <1>10 DEF ChildrenWait, Waits

\* It keeps the pipelines along the ways of the plan.
LEMMA GrowsPaths ==
    ASSUME BuildInv, Grows, NEW N, NewFrames(N)
    PROVE  PathsSound'
<1>0. /\ stack # <<>> /\ plan' = plan /\ 1 \in DOMAIN stack /\ Top = stack[1] /\ FrameSound(Top) /\ Top.do \in Placing
      /\ Top.pipe \in DOMAIN pipes /\ Top.pipe = Base(Top.meta) /\ Top.meta \in DOMAIN metas /\ Top.op \in Nat
      /\ WellFormed(plan)
  BY TopFacts DEF Grows
<1>1. /\ \A x : Reach(x)' = Reach(x)
      /\ JoinOps' = JoinOps
      /\ \A x : IsSource(x)' <=> IsSource(x)
  BY <1>0 DEF Reach, JoinOps, IsSource
<1>2. /\ \A p \in DOMAIN pipes : \A a, b \in DOMAIN pipes[p].ops :
            a < b => pipes[p].ops[b] \in Reach(pipes[p].ops[a])
      /\ \A i \in DOMAIN stack : stack[i].do \in Placing =>
            \A o \in ToSet(pipes[stack[i].pipe].ops) : Reach(stack[i].op) \subseteq Reach(o)
      /\ \A p \in DOMAIN pipes : pipes[p].source \in JoinOps =>
            IsSource(pipes[p].source) /\ \A o \in ToSet(pipes[p].ops) : pipes[p].source \in Reach(o)
      /\ \A m \in DOMAIN metas : \A i \in DOMAIN metas[m].pipes :
            i = 1 \/ pipes[metas[m].pipes[i]].source \in JoinOps
  BY <1>0 DEF BuildInv, PathsSound
<1>3. \A p \in DOMAIN pipes' :
          p \in DOMAIN pipes \/ /\ p = NewPipe /\ pipes'[p].ops = <<>> /\ pipes'[p].source = NoOp
  BY GrowsKeeps DEF MetaGrows
<1>4. \A o \in ToSet(pipes[Top.pipe].ops) : Reach(Top.op) \subseteq Reach(o)
  BY <1>0, <1>2
<1>5. ASSUME NEW p \in DOMAIN pipes', NEW a \in DOMAIN pipes'[p].ops, NEW b \in DOMAIN pipes'[p].ops, a < b
      PROVE  pipes'[p].ops[b] \in Reach(pipes'[p].ops[a])
  <2>1. CASE p \notin DOMAIN pipes
    <3>1. pipes'[p].ops = <<>>
      BY <1>3, <2>1
    <3>2. DOMAIN pipes'[p].ops = {}
      BY <3>1
    <3> QED
      BY <1>5, <3>2
  <2>2. CASE p \in DOMAIN pipes /\ pipes'[p].ops = pipes[p].ops
    BY <1>2, <1>5, <2>2
  <2>3. CASE p \in DOMAIN pipes /\ pipes'[p].ops # pipes[p].ops
    <3> DEFINE s == pipes[p].ops
               t == pipes'[p].ops
    <3>1. p = Top.pipe /\ t = Append(s, Top.op) /\ s \in Seq(Nat)
      BY <2>3, GrowsKeeps DEF Grows
    <3>2. /\ DOMAIN t = 1 .. Len(s) + 1 /\ DOMAIN s = 1 .. Len(s) /\ Len(s) \in Nat
          /\ \A i \in DOMAIN s : t[i] = s[i]
          /\ t[Len(s) + 1] = Top.op
      BY <1>0, <3>1, AppendFacts
    <3>3. Top.op \in Reach(Top.op)
      BY <2>3, <3>1 DEF NewFrames
    <3>4. \A i, k \in DOMAIN s : i < k => s[k] \in Reach(s[i])
      BY <1>2, <2>3
    <3>5. \A i \in DOMAIN s : Reach(Top.op) \subseteq Reach(s[i])
      BY <1>4, <3>1 DEF ToSet
    <3>6. a \in DOMAIN t /\ b \in DOMAIN t
      BY <1>5
    <3> HIDE DEF s, t
    <3>7. t[b] \in Reach(t[a])
      <4>1. a \in DOMAIN s
        BY <1>5, <3>2, <3>6
      <4>2. CASE b \in DOMAIN s
        BY <1>5, <3>2, <3>4, <4>1, <4>2
      <4>3. CASE b = Len(s) + 1
        BY <3>2, <3>3, <3>5, <4>1, <4>3
      <4> QED
        BY <3>2, <3>6, <4>2, <4>3
    <3> QED
      BY <3>7 DEF t
  <2> QED
    BY <2>1, <2>2, <2>3
<1>6. ASSUME NEW k \in DOMAIN stack', stack'[k].do \in Placing, NEW o \in ToSet(pipes'[stack'[k].pipe].ops)
      PROVE  Reach(stack'[k].op) \subseteq Reach(o)
  <2>1. CASE k \in DOMAIN N
    <3>1. stack'[k] = N[k]
      BY <2>1, NewStack
    <3>2. CASE N[k].pipe = Top.pipe
      <4>1. Reach(N[k].op) \subseteq Reach(Top.op)
        BY <1>6, <2>1, <3>1, <3>2 DEF NewFrames
      <4>2. o \in ToSet(pipes[Top.pipe].ops) \/ o = Top.op
        BY <1>0, <1>6, <3>1, <3>2, GrowsKeeps
      <4> QED
        BY <1>4, <3>1, <4>1, <4>2
    <3>3. CASE N[k].pipe # Top.pipe
      <4>1. Len(pipes') = NewPipe /\ N[k].pipe = NewPipe
        BY <2>1, <3>3 DEF NewFrames, Here, There
      <4>2. pipes'[NewPipe].ops = <<>>
        BY <4>1 DEF Grows, MetaGrows
      <4>3. ToSet(<<>>) = {}
        BY DEF ToSet
      <4> QED
        BY <1>6, <3>1, <4>1, <4>2, <4>3
    <3> QED
      BY <3>2, <3>3
  <2>2. CASE k \notin DOMAIN N
    <3>1. PICK i \in DOMAIN stack : i # 1 /\ k = Len(N) + i - 1
      BY <2>2, NewStack
    <3>2. stack'[k] = stack[i]
      BY <3>1, NewStack
    <3>3. 1 < i
      BY <3>1, NewStack
    <3>4. Apart(Top, stack[i]) /\ FrameSound(stack[i])
      BY <1>0, <3>3 DEF BuildInv, FramesSound
    <3>5. stack[i].pipe # Top.pipe
      BY <1>0, <1>6, <3>2, <3>4 DEF Apart
    <3>6. stack[i].pipe \in DOMAIN pipes
      <4>1. stack[i].meta \in DOMAIN metas /\ stack[i].pipe = Base(stack[i].meta)
        BY <3>4 DEF FrameSound
      <4> QED
        BY <4>1, GrowsKeeps
    <3>7. pipes'[stack[i].pipe].ops = pipes[stack[i].pipe].ops
      BY <3>5, <3>6, GrowsKeeps
    <3> QED
      BY <1>2, <1>6, <3>2, <3>7
  <2> QED
    BY <2>1, <2>2
<1>7. ASSUME NEW p \in DOMAIN pipes', pipes'[p].source \in JoinOps
      PROVE  IsSource(pipes'[p].source) /\ \A o \in ToSet(pipes'[p].ops) : pipes'[p].source \in Reach(o)
  <2>1. p \in DOMAIN pipes
    <3>1. NoOp \notin JoinOps
      BY <1>0, PlanFacts DEF NoOp, JoinOps, OfType
    <3> QED
      BY <1>3, <1>7, <3>1
  <2>2. pipes'[p].source = pipes[p].source
    BY <1>7, <2>1 DEF Grows
  <2>3. p # Top.pipe
    BY <1>0, <1>7, <2>1, <2>2 DEF BuildInv, OpsSound
  <2>4. pipes'[p].ops = pipes[p].ops
    BY <2>1, <2>3, GrowsKeeps
  <2> QED
    BY <1>2, <1>7, <2>1, <2>2, <2>4
<1>8. ASSUME NEW m \in DOMAIN metas', NEW i \in DOMAIN metas'[m].pipes, i # 1
      PROVE  pipes'[metas'[m].pipes[i]].source \in JoinOps
  <2>1. CASE m \in DOMAIN metas
    <3>1. metas'[m].pipes = metas[m].pipes
      BY <2>1, GrowsKeeps
    <3> DEFINE p == metas[m].pipes[i]
    <3>2. pipes[p].source \in JoinOps
      BY <1>2, <1>8, <2>1, <3>1
    <3>3. p \in DOMAIN pipes
      <4>1. MetaSound(m)
        BY <2>1 DEF BuildInv, MetasSound
      <4> QED
        BY <1>8, <3>1, <4>1 DEF MetaSound
    <3>4. p # Top.pipe
      BY <1>0, <3>2, <3>3 DEF BuildInv, OpsSound
    <3>5. pipes'[p].source = pipes[p].source
      BY <3>3, <3>4 DEF Grows
    <3> QED
      BY <3>1, <3>2, <3>5
  <2>2. CASE m \notin DOMAIN metas
    <3>1. m = NewMeta /\ MetaGrows
      BY <2>2, GrowsKeeps
    <3>2. metas'[m].pipes = <<NewPipe>>
      BY <3>1 DEF MetaGrows, MetaPipeline
    <3>3. DOMAIN <<NewPipe>> = {1}
      OBVIOUS
    <3> QED
      BY <1>8, <3>2, <3>3
  <2> QED
    BY <2>1, <2>2
<1> QED
  BY <1>1, <1>5, <1>6, <1>7, <1>8 DEF PathsSound

\* A scan has one producer, with the scan below it: beside its first child.
LEMMA ProducerFacts ==
    ASSUME NEW p, WellFormed(p), NEW s \in OfType(p, Scans), NEW d \in ProducersOf(p, s)
    PROVE  /\ d \in OfType(p, DelimJoins \cup {"CTE"}) /\ ProducersOf(p, s) = {d}
           /\ s \in Subtree(p)[d] /\ s # d
           /\ s \notin Subtree(p)[Child(p, d, 1)]
           /\ p[s].type = "DELIM_SCAN" => d \in OfType(p, DelimJoins)
<1>1. d \in Ops(p) /\ s \in p[d].scans /\ s \in Ops(p) /\ p[s].type \in Scans
  BY DEF ProducersOf, OfType
<1>2. p[d].type \in DelimJoins \cup {"CTE"}
  <2>1. HasShape(p, d)
    BY <1>1, PlanFacts
  <2> QED
    BY <1>1, <2>1 DEF HasShape
<1>3. ProducersOf(p, s) = {d}
  <2>1. \E e \in Ops(p) : ProducersOf(p, s) = {e}
    BY DEF WellFormed
  <2> QED
    BY <2>1
<1>4. CASE p[d].type \in DelimJoins
  <2>1. HasDelimShape(p, d)
    BY <1>1, <1>4 DEF WellFormed, OfType
  <2>2. s \in Subtree(p)[p[d].inner]
    BY <1>1, <2>1 DEF HasDelimShape
  <2>3. p[d].inner \in Owned(p, d) /\ Child(p, d, 1) \in Owned(p, d) /\ Child(p, d, 1) # p[d].inner
    BY <1>1, <1>4, OwnedByType
  <2>4. /\ Subtree(p)[p[d].inner] \subseteq Subtree(p)[d] /\ d \notin Subtree(p)[p[d].inner]
        /\ Subtree(p)[p[d].inner] \cap Subtree(p)[Child(p, d, 1)] = {}
    BY <1>1, <2>3, SubtreesApart
  <2> QED
    BY <1>1, <1>3, <1>4, <2>2, <2>4 DEF OfType
<1>5. CASE p[d].type = "CTE"
  <2>1. s \in OfType(p, {"CTE_SCAN"}) \cap Subtree(p)[Child(p, d, 2)]
    BY <1>1, <1>5 DEF WellFormed, OfType
  <2>2. Child(p, d, 2) \in Owned(p, d) /\ Child(p, d, 1) \in Owned(p, d) /\ Child(p, d, 1) # Child(p, d, 2)
    BY <1>1, <1>5, OwnedByType
  <2>3. /\ Subtree(p)[Child(p, d, 2)] \subseteq Subtree(p)[d] /\ d \notin Subtree(p)[Child(p, d, 2)]
        /\ Subtree(p)[Child(p, d, 2)] \cap Subtree(p)[Child(p, d, 1)] = {}
    BY <1>1, <2>2, SubtreesApart
  <2> QED
    BY <1>1, <1>3, <1>5, <2>1, <2>3 DEF OfType
<1> QED
  BY <1>2, <1>4, <1>5

\* The scans below each new frame have, or get, their producers in time.
LEMMA GrowsScans ==
    ASSUME BuildInv, Grows, NEW N, NewFrames(N), scanDeps' = scanDeps
    PROVE  ScansSound'
<1>0. stack # <<>> /\ plan' = plan /\ Top.do \in Placing
  BY DEF Grows
<1>1. /\ DOMAIN N = 1 .. Len(N) /\ Len(N) \in Nat
      /\ DOMAIN stack = 1 .. Len(stack) /\ DOMAIN stack' = 1 .. Len(stack')
      /\ WellFormed(plan) /\ Top.op \in Ops(plan)
      /\ stack[1] = Top /\ 1 \in DOMAIN stack
  BY <1>0, TopFacts, NewStack
<1>2. DOMAIN scanDeps' \subseteq Ops(plan')
      /\ \A s \in DOMAIN scanDeps' :
            scanDeps'[s] \in DOMAIN pipes' /\ pipes'[scanDeps'[s]].sink \in ProducersOf(plan', s)
  <2>1. DOMAIN pipes \subseteq DOMAIN pipes' /\ \A p \in DOMAIN pipes : pipes'[p].sink = pipes[p].sink
    BY GrowsKeeps DEF Grows
  <2>2. DOMAIN scanDeps \subseteq Ops(plan)
        /\ \A s \in DOMAIN scanDeps :
            scanDeps[s] \in DOMAIN pipes /\ pipes[scanDeps[s]].sink \in ProducersOf(plan, s)
    BY DEF BuildInv, ScansSound
  <2> QED
    BY <1>0, <2>1, <2>2
<1> DEFINE Served(k, f, s) ==
              \/ s \in DOMAIN scanDeps
              \/ ProducersOf(plan, s) \subseteq Sub(f.op)
              \/ \E h \in DOMAIN stack' : h < k /\ stack'[h].do = "scans" /\ stack'[h].op \in ProducersOf(plan, s)
<1>3. ASSUME NEW i \in DOMAIN N, N[i].do \in Placing, NEW s \in Sub(N[i].op) \cap OfType(plan, Scans)
      PROVE  Served(i, N[i], s)
  <2>1. N[i].op \in Owned(plan, Top.op)
    BY <1>3 DEF NewFrames
  <2>2. s \in Sub(Top.op)
    BY <1>1, <1>3, <2>1, SubtreesApart DEF Sub
  <2>3. s \in DOMAIN scanDeps \/ ProducersOf(plan, s) \subseteq Sub(Top.op)
    <3>1. \A k \in DOMAIN stack : ~(k < 1)
      BY <1>1
    <3> QED
      BY <1>0, <1>1, <1>3, <2>2, <3>1 DEF BuildInv, ScansSound
  <2>4. PICK d \in Ops(plan) : ProducersOf(plan, s) = {d}
    BY <1>1, <1>3 DEF WellFormed, OfType
  <2>5. /\ d \in OfType(plan, DelimJoins \cup {"CTE"}) /\ s \in Sub(d)
        /\ s \notin Sub(Child(plan, d, 1))
    <3>1. s \in OfType(plan, Scans) /\ d \in ProducersOf(plan, s)
      BY <1>3, <2>4
    <3> QED
      BY <1>1, <3>1, ProducerFacts DEF Sub
  <2>6. CASE s \in DOMAIN scanDeps
    BY <2>6
  <2>7. CASE d = Top.op
    <3>1. N[i].op # Child(plan, Top.op, 1)
      BY <1>3, <2>5, <2>7
    <3>2. PICK k \in DOMAIN N : k < i /\ N[k].do = "scans"
      BY <1>3, <2>5, <2>7, <3>1 DEF NewFrames
    <3>3. N[k].op = Top.op
      BY <3>2 DEF NewFrames
    <3>4. k \in DOMAIN stack' /\ stack'[k] = N[k]
      BY <3>2, NewStack
    <3> QED
      BY <2>4, <2>7, <3>2, <3>3, <3>4
  <2>8. CASE d # Top.op /\ d \in Sub(Top.op)
    <3>1. PICK k \in Owned(plan, Top.op) : d \in Sub(k)
      BY <1>1, <2>8, SubtreeBelow DEF Sub
    <3>2. k \in Ops(plan)
      BY <1>1, <3>1, PlanFacts
    <3>3. s \in Sub(k)
      BY <1>1, <2>5, <3>1, <3>2, SubtreeBelow DEF Sub
    <3>4. k = N[i].op
      BY <1>1, <1>3, <2>1, <3>1, <3>3, SubtreesApart DEF Sub
    <3> QED
      BY <2>4, <3>1, <3>4
  <2> QED
    BY <2>3, <2>4, <2>6, <2>7, <2>8
<1>4. ASSUME NEW i \in DOMAIN stack, i # 1, NEW k \in DOMAIN stack', k = Len(N) + i - 1,
             stack[i].do \in Placing, NEW s \in Sub(stack[i].op) \cap OfType(plan, Scans)
      PROVE  Served(k, stack[i], s)
  <2>1. \/ s \in DOMAIN scanDeps
        \/ ProducersOf(plan, s) \subseteq Sub(stack[i].op)
        \/ \E h \in DOMAIN stack : h < i /\ stack[h].do = "scans" /\ stack[h].op \in ProducersOf(plan, s)
    BY <1>4 DEF BuildInv, ScansSound
  <2>2. ASSUME NEW h \in DOMAIN stack, h < i, stack[h].do = "scans", stack[h].op \in ProducersOf(plan, s)
        PROVE  Served(k, stack[i], s)
    <3>1. h # 1
      BY <1>0, <1>1, <2>2 DEF Placing
    <3>2. Len(N) + h - 1 \in DOMAIN stack' /\ stack'[Len(N) + h - 1] = stack[h] /\ Len(N) + h - 1 < k
      <4>1. Len(N) + h - 1 \in DOMAIN stack' /\ stack'[Len(N) + h - 1] = stack[h]
        BY <3>1, NewStack
      <4>2. Len(N) + h - 1 < k
        BY <1>1, <1>4, <2>2
      <4> QED
        BY <4>1, <4>2
    <3> QED
      BY <2>2, <3>2
  <2> QED
    BY <2>1, <2>2
<1>5. ASSUME NEW k \in DOMAIN stack', stack'[k].do \in Placing, NEW s \in Sub(stack'[k].op) \cap OfType(plan, Scans)
      PROVE  Served(k, stack'[k], s)
  <2> HIDE DEF Served
  <2>1. CASE k \in DOMAIN N
    <3>1. stack'[k] = N[k]
      BY <2>1, NewStack
    <3> QED
      BY <1>3, <1>5, <2>1, <3>1
  <2>2. CASE k \notin DOMAIN N
    <3>1. PICK i \in DOMAIN stack : i # 1 /\ k = Len(N) + i - 1
      BY <2>2, NewStack
    <3>2. stack'[k] = stack[i]
      BY <3>1, NewStack
    <3> QED
      BY <1>4, <1>5, <3>1, <3>2
  <2> QED
    BY <2>1, <2>2
<1>6. \A x : Subtree(plan')[x] = Sub(x)
  BY <1>0 DEF Sub
<1>7. \A k \in DOMAIN stack' : stack'[k].do \in Placing =>
          \A s \in Subtree(plan')[stack'[k].op] \cap OfType(plan', Scans) :
              \/ s \in DOMAIN scanDeps'
              \/ ProducersOf(plan', s) \subseteq Subtree(plan')[stack'[k].op]
              \/ \E h \in DOMAIN stack' : h < k /\ stack'[h].do = "scans" /\ stack'[h].op \in ProducersOf(plan', s)
  <2> TAKE k \in DOMAIN stack'
  <2> HAVE stack'[k].do \in Placing
  <2> TAKE s \in Subtree(plan')[stack'[k].op] \cap OfType(plan', Scans)
  <2>1. Served(k, stack'[k], s)
    <3> HIDE DEF Served
    <3> QED
      BY <1>0, <1>5, <1>6
  <2> QED
    BY <1>0, <1>6, <2>1
<1> QED
  BY <1>2, <1>7 DEF ScansSound, Sub

\* All together.
LEMMA GrowsInv ==
    ASSUME BuildInv, Grows, NEW N, NewFrames(N), scanDeps' = scanDeps
    PROVE  BuildInv'
<1>1. MetasSound' /\ OpsSound' /\ \A p \in DOMAIN pipes' : ToSet(pipes'[p].ops) \subseteq Ops(plan')
  BY GrowsMetas, GrowsOps
<1>2. FramesSound'
  BY GrowsFrames
<1>3. SourcesComing'
  BY GrowsSources
<1>4. ChildrenWait'
  BY GrowsWaits
<1>5. ScansSound'
  BY GrowsScans
<1>7. PathsSound'
  BY GrowsPaths
<1>6. BuildTyped'
  <2>1. stack' \in Seq(FrameType)
    BY NewStack
  <2> QED
    BY <1>1, <2>1 DEF BuildTyped, Grows, BuildInv
<1> QED
  BY <1>1, <1>2, <1>3, <1>4, <1>5, <1>6, <1>7 DEF BuildInv

-----------------------------------------------------------------------------
(***************************************************************************)
(* What a step that builds an operator makes the pipelines wait for.       *)
(***************************************************************************)
LEMMA OneOwner ==
    ASSUME NEW p, WellFormed(p), NEW a \in Ops(p), NEW b \in Ops(p), NEW k \in Owned(p, a), k \in Owned(p, b)
    PROVE  a = b
<1>1. IsTree(p)
  BY DEF WellFormed
<1> QED
  BY <1>1 DEF IsTree

LEMMA DelimOwns ==
    ASSUME NEW p, WellFormed(p), NEW d \in OfType(p, DelimJoins)
    PROVE  /\ d \in Ops(p) /\ p[d].inner \in Owned(p, d) /\ p[d].inner \in OfType(p, Joins)
           /\ p[d].inner \in Ops(p) /\ Child(p, p[d].inner, 1) \in Owned(p, p[d].inner)
           /\ p[d].distinct \in OfType(p, {"GROUP_BY"}) /\ HasDelimShape(p, d)
<1>1. d \in Ops(p) /\ p[d].type \in DelimJoins
  BY DEF OfType
<1>2. p[d].inner \in Owned(p, d) /\ p[d].inner \in OfType(p, Joins)
  BY <1>1, OwnedByType
<1>3. p[d].inner \in Ops(p) /\ p[p[d].inner].type \in Joins
  BY <1>2 DEF OfType
<1>4. Child(p, p[d].inner, 1) \in Owned(p, p[d].inner)
  BY <1>3, OwnedByType
<1>5. HasShape(p, d) /\ HasDelimShape(p, d)
  BY <1>1 DEF WellFormed
<1> QED
  BY <1>1, <1>2, <1>3, <1>4, <1>5 DEF HasShape

\* The delim joins at an operator are at its owner, but for that the owner adds
\* itself, and that only a join hands them on, to its left.
LEMMA DelimsOwned ==
    ASSUME WellFormed(plan), NEW o \in Ops(plan), NEW k \in Owned(plan, o), NEW d \in Delims(k)
    PROVE  \/ d = o /\ plan[o].type \in DelimJoins /\ k = plan[o].inner
           \/ d \in Delims(o) /\ plan[o].type \in Joins /\ k = Child(plan, o, 1)
<1>1. d \in OfType(plan, DelimJoins) /\ (k = plan[d].inner \/ k = Child(plan, plan[d].inner, 1))
  BY DEF Delims
<1>2. /\ d \in Ops(plan) /\ plan[d].inner \in Owned(plan, d) /\ plan[d].inner \in OfType(plan, Joins)
      /\ plan[d].inner \in Ops(plan) /\ Child(plan, plan[d].inner, 1) \in Owned(plan, plan[d].inner)
  BY <1>1, DelimOwns
<1>3. CASE k = plan[d].inner
  <2>1. d = o
    BY <1>2, <1>3, OneOwner
  <2> QED
    BY <1>1, <1>3, <2>1 DEF OfType
<1>4. CASE k = Child(plan, plan[d].inner, 1)
  <2>1. plan[d].inner = o
    BY <1>2, <1>4, OneOwner
  <2> QED
    BY <1>1, <1>2, <1>4, <2>1 DEF OfType, Delims
<1> QED
  BY <1>1, <1>3, <1>4

LEMMA FilledFacts ==
    ASSUME WellFormed(plan), NEW o \in Ops(plan)
    PROVE  /\ plan[o].type \in Leaves => FilledBy(plan, o) \subseteq Delims(o)
           /\ FilledByDelim(plan, o) \subseteq Delims(o)
           /\ plan[o].type \in Joins =>
                 FilledBy(plan, o) = IF FilledByDelim(plan, o) = {} THEN {o} ELSE FilledByDelim(plan, o)
           /\ plan[o].type \in Blocking /\ (\A d \in Ops(plan) : plan[d].distinct # o) => FilledBy(plan, o) = {o}
           /\ plan[o].type \in Scans => FilledBy(plan, o) = ProducersOf(plan, o)
           /\ \A d \in OfType(plan, DelimJoins) : o = plan[d].distinct => FilledBy(plan, o) = {d}
<1>1. plan[o].type \in Leaves => FilledBy(plan, o) \subseteq Delims(o)
  <2> SUFFICES ASSUME plan[o].type \in Leaves, NEW d \in FilledBy(plan, o) PROVE d \in Delims(o)
    OBVIOUS
  <2>0. /\ plan[o].type \in Leaves /\ plan[o].type \notin Scans /\ plan[o].type \notin Joins
        /\ plan[o].type \notin Blocking
    BY DEF Leaves, Scans, Joins, Blocking
  <2>1. d \in CachedBy(plan, o)
    BY <2>0 DEF FilledBy
  <2> QED
    BY <2>1 DEF CachedBy, Delims, OfType, DelimJoins
<1>2. FilledByDelim(plan, o) \subseteq Delims(o)
  BY DEF FilledByDelim, Delims, OfType, DelimJoins
<1>3. plan[o].type \in Joins =>
                 FilledBy(plan, o) = IF FilledByDelim(plan, o) = {} THEN {o} ELSE FilledByDelim(plan, o)
  <2> SUFFICES ASSUME plan[o].type \in Joins
               PROVE  FilledBy(plan, o) = IF FilledByDelim(plan, o) = {} THEN {o} ELSE FilledByDelim(plan, o)
    OBVIOUS
  <2>1. plan[o].type \in Joins /\ plan[o].type \notin Leaves /\ plan[o].type \notin Scans /\ plan[o].type \notin Blocking
    BY DEF Joins, Leaves, Scans, Blocking
  <2> QED
    BY <2>1 DEF FilledBy
<1>4. plan[o].type \in Blocking =>
          FilledBy(plan, o) = IF \E d \in Ops(plan) : plan[d].distinct = o
                              THEN {d \in Ops(plan) : plan[d].distinct = o} ELSE {o}
  BY DEF FilledBy, Blocking, Joins, Leaves, Scans
<1>5. plan[o].type \in Scans => FilledBy(plan, o) = ProducersOf(plan, o)
  <2> SUFFICES ASSUME plan[o].type \in Scans PROVE FilledBy(plan, o) = ProducersOf(plan, o)
    OBVIOUS
  <2>1. /\ plan[o].type \in Scans /\ plan[o].type \notin Leaves /\ plan[o].type \notin Joins
        /\ plan[o].type \notin Blocking
    BY DEF Joins, Leaves, Scans, Blocking
  <2> QED
    BY <2>1 DEF FilledBy
<1>6. ASSUME NEW d \in OfType(plan, DelimJoins), o = plan[d].distinct PROVE FilledBy(plan, o) = {d}
  <2>1. d \in Ops(plan) /\ plan[o].type = "GROUP_BY" /\ HasDelimShape(plan, d)
    BY <1>6, DelimOwns DEF OfType
  <2>2. FilledBy(plan, o) = {e \in Ops(plan) : plan[e].distinct = o}
    BY <1>4, <1>6, <2>1 DEF Blocking
  <2>3. ASSUME NEW e \in Ops(plan), plan[e].distinct = o PROVE e = d
    <3>1. HasShape(plan, e) /\ o # 0
      BY PlanFacts
    <3>2. plan[e].type \in DelimJoins
      BY <2>3, <3>1 DEF HasShape
    <3> QED
      BY <1>6, <2>1, <2>3, <3>2 DEF HasDelimShape, OfType
  <2> QED
    BY <1>6, <2>1, <2>2, <2>3
<1> QED
  BY <1>1, <1>2, <1>3, <1>4, <1>5, <1>6

LEMMA NewPipeMade ==
    ASSUME BuildInv, Grows, Len(pipes') = NewPipe
    PROVE  NewPipe \in DOMAIN pipes' /\ MetaGrows
<1>1. Len(pipes) \in Nat
  BY DEF BuildInv, BuildTyped
<1>2. NewPipe \in 1 .. NewPipe
  BY <1>1 DEF NewPipe
<1>3. pipes' \in Seq(PipeType) /\ MetaGrows
  BY DEF Grows
<1>4. DOMAIN pipes' = 1 .. NewPipe
  BY <1>3
<1> QED
  BY <1>2, <1>3, <1>4

LEMMA GrowsFed ==
    ASSUME BuildInv, FeedInv, Grows, NEW N, NewFrames(N), Feeds(N)
    PROVE  FeedInv'
<1>0. /\ stack # <<>> /\ plan' = plan /\ 1 \in DOMAIN stack /\ Top = stack[1] /\ FrameSound(Top) /\ Top.do \in Placing
      /\ Top.pipe \in DOMAIN pipes /\ Top.pipe = Base(Top.meta) /\ Top.meta \in DOMAIN metas /\ Top.op \in Nat
      /\ WellFormed(plan) /\ Top.op \in Ops(plan) /\ Top.pipe \in ToSet(metas[Top.meta].pipes)
      /\ pipes[Top.pipe].sink = metas[Top.meta].sink
  BY TopFacts DEF Grows
<1>1. /\ \A x : Reach(x)' = Reach(x)
      /\ JoinOps' = JoinOps
      /\ \A x : Delims(x)' = Delims(x)
      /\ \A p, s : Dep(p, s)' <=> NewDep(p, s)
  BY <1>0 DEF Reach, JoinOps, Delims, Dep, NewDep
<1>2. /\ \/ DOMAIN pipes' = DOMAIN pipes /\ metas' = metas /\ Len(pipes') # NewPipe
         \/ /\ DOMAIN pipes' = DOMAIN pipes \cup {NewPipe} /\ MetaGrows /\ Len(pipes') = NewPipe
            /\ DOMAIN metas' = DOMAIN metas \cup {NewMeta}
      /\ NewPipe \notin DOMAIN pipes /\ NewMeta \notin DOMAIN metas
      /\ \A p \in DOMAIN pipes : pipes'[p].sink = pipes[p].sink
  <2>1. pipes' \in Seq(PipeType) /\ (Len(pipes') = Len(pipes) => metas' = metas) /\ (Len(pipes') = NewPipe => MetaGrows)
    BY DEF Grows
  <2>2. DOMAIN pipes' = 1 .. Len(pipes')
    BY <2>1
  <2>3. Len(pipes) # NewPipe /\ DOMAIN pipes = 1 .. Len(pipes) /\ Len(pipes) \in Nat
    BY GrowsKeeps DEF NewPipe, BuildInv, BuildTyped
  <2>4. Len(pipes') \in {Len(pipes), NewPipe}
    BY DEF Grows
  <2>5. /\ \/ DOMAIN pipes' = DOMAIN pipes /\ metas' = metas
           \/ DOMAIN pipes' = DOMAIN pipes \cup {NewPipe} /\ MetaGrows /\ DOMAIN metas' = DOMAIN metas \cup {NewMeta}
        /\ NewPipe \notin DOMAIN pipes /\ NewMeta \notin DOMAIN metas /\ NewPipe \in Nat
    BY GrowsKeeps
  <2>6. \A p \in DOMAIN pipes : pipes'[p].sink = pipes[p].sink
    BY DEF Grows
  <2>7. Len(pipes') = NewPipe => NewPipe \in DOMAIN pipes'
    BY NewPipeMade
  <2>8. Len(pipes') = Len(pipes) => DOMAIN pipes' = DOMAIN pipes
    BY <2>2, <2>3
  <2> HIDE DEF NewPipe, NewMeta
  <2> QED
    BY <2>3, <2>4, <2>5, <2>6, <2>7, <2>8
<1>3. ASSUME NEW p \in DOMAIN pipes, NEW s, Dep(p, s) PROVE NewDep(p, s)
  <2>1. PICK q \in pipes[p].deps : q \in DOMAIN pipes /\ pipes[q].sink = s
    BY <1>3 DEF Dep
  <2>2. q \in pipes'[p].deps
    BY DEF Feeds
  <2> QED
    BY <1>2, <2>1, <2>2 DEF NewDep
<1>4. Len(pipes') = NewPipe => NewDep(Top.pipe, Top.op)
  BY <1>2 DEF Feeds, NewDep, MetaGrows
<1>5. FrameFed(Top)
  BY <1>0 DEF FeedInv, FramesFed
<1>6. ASSUME NEW i \in DOMAIN stack, i # 1, NEW f, f = stack[i] PROVE FrameFed(f)'
  <2>1. FrameFed(f) /\ f.pipe \in DOMAIN pipes
    <3>1. FrameSound(f) /\ FrameFed(f)
      BY <1>6 DEF BuildInv, FramesSound, FeedInv, FramesFed
    <3>2. f.meta \in DOMAIN metas /\ f.pipe = Base(f.meta)
      BY <3>1 DEF FrameSound
    <3> QED
      BY <3>1, <3>2, GrowsKeeps
  <2>2. pipes'[f.pipe].sink = pipes[f.pipe].sink
    BY <1>2, <2>1
  <2>3. f.do \in Placing => \A d \in Delims(f.op) : NewDep(f.pipe, d)
    BY <1>3, <2>1 DEF FrameFed
  <2> QED
    BY <1>0, <1>1, <2>1, <2>2, <2>3 DEF FrameFed
<1>7. ASSUME NEW i \in DOMAIN N, NEW f, f = N[i], f.do \in Placing PROVE FrameFed(f)'
  <2>1. /\ f.op \in Owned(plan, Top.op) /\ (Here(f) \/ There(f))
        /\ f.pipe = Top.pipe => Reach(f.op) \subseteq Reach(Top.op)
    BY <1>7 DEF NewFrames
  <2>2. /\ f.pipe = NewPipe => f.op = Input(plan, Top.op)
        /\ f.do = "probe" <=> plan[Top.op].type = "RIGHT_DELIM_JOIN" /\ f.op = plan[Top.op].inner
        /\ plan[Top.op].type \in DelimJoins => Len(pipes') = NewPipe
    BY <1>7 DEF Feeds
  <2>3. There(f) => f.pipe = NewPipe /\ Len(pipes') = NewPipe
    BY DEF There
  <2>4. Here(f) => f.pipe = Top.pipe
    BY DEF Here
  <2>5. ASSUME NEW d \in Delims(f.op) PROVE NewDep(f.pipe, d)
    <3>1. CASE d = Top.op /\ plan[Top.op].type \in DelimJoins /\ f.op = plan[Top.op].inner
      <4>1. Child(plan, Top.op, 1) # plan[Top.op].inner
        BY <1>0, <3>1, OwnedByType
      <4>2. f.op # Input(plan, Top.op)
        BY <3>1, <4>1 DEF Input, DelimJoins, Joins
      <4>3. f.pipe = Top.pipe
        BY <2>1, <2>2, <2>3, <2>4, <4>2
      <4> QED
        BY <1>4, <2>2, <3>1, <4>3
    <3>2. CASE d \in Delims(Top.op) /\ plan[Top.op].type \in Joins /\ f.op = Child(plan, Top.op, 1)
      <4>1. Child(plan, Top.op, 1) # Child(plan, Top.op, 2)
        BY <1>0, <3>2, OwnedByType
      <4>2. f.op # Input(plan, Top.op)
        BY <3>2, <4>1 DEF Input
      <4>3. f.pipe = Top.pipe
        BY <2>1, <2>2, <2>3, <2>4, <4>2
      <4>4. Dep(Top.pipe, d)
        BY <1>0, <1>5, <3>2 DEF FrameFed
      <4> QED
        BY <1>0, <1>3, <4>3, <4>4
    <3> QED
      BY <1>0, <2>1, <3>1, <3>2, DelimsOwned
  <2>6. f.do = "build" <=> FilledByDelim(plan, f.op) = {}
    <3>1. ASSUME NEW e \in FilledByDelim(plan, f.op)
          PROVE  e = Top.op /\ plan[Top.op].type = "RIGHT_DELIM_JOIN" /\ f.op = plan[Top.op].inner
      <4>1. e \in Ops(plan) /\ plan[e].type = "RIGHT_DELIM_JOIN" /\ f.op = plan[e].inner
        BY DEF FilledByDelim, OfType
      <4>2. f.op \in Owned(plan, e)
        BY <1>0, <4>1, DelimOwns DEF OfType, DelimJoins
      <4> QED
        BY <1>0, <2>1, <4>1, <4>2, OneOwner
    <3>2. plan[Top.op].type = "RIGHT_DELIM_JOIN" /\ f.op = plan[Top.op].inner => Top.op \in FilledByDelim(plan, f.op)
      BY <1>0 DEF FilledByDelim, OfType
    <3>3. f.do = "build" <=> f.do # "probe"
      BY <1>7 DEF Placing
    <3> QED
      BY <2>2, <3>1, <3>2, <3>3
  <2>7. pipes'[f.pipe].sink # NoOp => Reach(f.op) \subseteq ToSet(Way(plan, pipes'[f.pipe].sink))
    <3>1. CASE Here(f)
      <4>1. pipes'[Top.pipe].sink = pipes[Top.pipe].sink
        BY <1>0, <1>2
      <4>2. pipes[Top.pipe].sink # NoOp => Reach(Top.op) \subseteq ToSet(Way(plan, pipes[Top.pipe].sink))
        BY <1>0, <1>5 DEF FrameFed
      <4> QED
        BY <2>1, <2>4, <3>1, <4>1, <4>2
    <3>2. CASE There(f)
      <4>1. pipes'[NewPipe].sink = Top.op
        BY <1>2, <2>3, <3>2 DEF MetaGrows
      <4> QED
        BY <2>2, <2>3, <3>2, <4>1 DEF Reach, Way
    <3> QED
      BY <2>1, <3>1, <3>2
  <2> QED
    BY <1>0, <1>1, <2>5, <2>6, <2>7 DEF FrameFed
<1>8. FramesFed'
  <2>1. ASSUME NEW k \in DOMAIN stack', NEW f, f = stack'[k] PROVE FrameFed(f)'
    <3>1. CASE k \in DOMAIN N
      <4>1. f = N[k]
        BY <2>1, <3>1, NewStack
      <4>2. CASE f.do \in Placing
        BY <1>7, <3>1, <4>1, <4>2
      <4>3. CASE f.do \notin Placing
        BY <4>3 DEF FrameFed, Placing
      <4> QED
        BY <4>2, <4>3
    <3>2. CASE \E i \in DOMAIN stack : i # 1 /\ k = Len(N) + i - 1
      <4>1. PICK i \in DOMAIN stack : i # 1 /\ k = Len(N) + i - 1
        BY <3>2
      <4>2. f = stack[i]
        BY <2>1, <4>1, NewStack
      <4> QED
        BY <1>6, <4>1, <4>2
    <3> QED
      BY <3>1, <3>2, NewStack
  <2> QED
    BY <2>1 DEF FramesFed
<1>9. ASSUME NEW m \in DOMAIN metas', NEW p \in ToSet(metas'[m].pipes) PROVE PipeFed(m, p)'
  <2> DEFINE b == IF m \in DOMAIN metas THEN Base(m) ELSE NewPipe
  <2>1. CASE m \in DOMAIN metas
    <3>1. /\ p \in ToSet(metas[m].pipes) /\ p \in DOMAIN pipes /\ PipeFed(m, p) /\ Base(m)' = Base(m)
          /\ Base(m) \in DOMAIN pipes
      <4>1. metas'[m].pipes = metas[m].pipes /\ Base(m)' = Base(m) /\ Base(m) \in DOMAIN pipes
        BY <2>1, GrowsKeeps
      <4>2. MetaSound(m)
        BY <2>1 DEF BuildInv, MetasSound
      <4>3. p \in ToSet(metas[m].pipes)
        BY <4>1
      <4>4. p \in DOMAIN pipes
        BY <4>2, <4>3 DEF MetaSound, ToSet
      <4>5. PipeFed(m, p)
        BY <2>1, <4>3 DEF FeedInv, PipesFed
      <4> QED
        BY <4>1, <4>3, <4>4, <4>5
    <3>2. /\ \A r \in Reads(p) : plan[r].type \in Readable /\ \A s \in FilledBy(plan, r) : NewDep(Base(m), s)
          /\ ToSet(pipes[p].ops) \subseteq OfType(plan, Streams \cup Joins)
          /\ pipes[p].sink # NoOp =>
                ToSet(pipes[p].ops) \cup ({pipes[p].source} \cap JoinOps) \subseteq ToSet(Way(plan, pipes[p].sink))
      BY <1>3, <3>1 DEF PipeFed
    <3>3. \A r \in Reads(p)' \ Reads(p) :
              \/ r = Top.op /\ plan[Top.op].type \in Joins /\ p = Top.pipe /\ r \in ToSet(pipes'[p].ops)
              \/ r = pipes'[p].source /\ p = Top.pipe /\ pipes'[p].source # pipes[p].source
      <4> TAKE r \in Reads(p)' \ Reads(p)
      <4>1. r \in ToSet(pipes'[p].ops) \cup {pipes'[p].source} /\ r \in Ops(plan) /\ plan[r].type \notin Streams
        BY <1>0 DEF Reads
      <4>2. r \notin ToSet(pipes[p].ops) \cup {pipes[p].source}
        BY <4>1 DEF Reads
      <4>3. CASE r \in ToSet(pipes'[p].ops)
        <5>1. r = Top.op /\ p = Top.pipe
          BY <3>1, <4>2, <4>3, GrowsKeeps
        <5>2. pipes'[Top.pipe].ops # pipes[Top.pipe].ops
          BY <4>2, <4>3, <5>1
        <5>3. plan[Top.op].type \in Streams \cup Joins
          BY <5>2 DEF Feeds
        <5> QED
          BY <4>1, <4>3, <5>1, <5>3
      <4>4. CASE r = pipes'[p].source
        BY <3>1, <4>2, <4>4 DEF Grows
      <4> QED
        BY <4>1, <4>3, <4>4
    <3>4. ASSUME p = Top.pipe PROVE m = Top.meta
      <4>1. MetaSound(m)
        BY <2>1 DEF BuildInv, MetasSound
      <4>2. pipes[p].sink = metas[m].sink
        BY <3>1, <4>1 DEF MetaSound, ToSet
      <4> QED
        BY <1>0, <2>1, <3>4, <4>2 DEF BuildInv, MetasSound
    <3>5. ASSUME NEW r \in Reads(p)' PROVE plan[r].type \in Readable /\ \A s \in FilledBy(plan, r) : NewDep(Base(m), s)
      <4>1. CASE r \in Reads(p)
        BY <3>2, <4>1
      <4>2. CASE r = Top.op /\ plan[Top.op].type \in Joins /\ p = Top.pipe
        <5>1. plan[r].type \in Readable /\ Base(m) = Top.pipe
          BY <1>0, <3>4, <4>2 DEF Readable
        <5>2. \A d \in Delims(Top.op) : NewDep(Top.pipe, d)
          BY <1>0, <1>3, <1>5 DEF FrameFed
        <5>3. FilledByDelim(plan, Top.op) \subseteq Delims(Top.op)
          BY <1>0, FilledFacts
        <5>4. FilledBy(plan, Top.op) = IF FilledByDelim(plan, Top.op) = {} THEN {Top.op} ELSE FilledByDelim(plan, Top.op)
          BY <1>0, <4>2, FilledFacts
        <5>5. FilledByDelim(plan, Top.op) = {} => NewDep(Top.pipe, Top.op)
          <6>1. FilledByDelim(plan, Top.op) = {} => Top.do = "build"
            BY <1>0, <1>5 DEF FrameFed
          <6>2. Top.do = "build" => Len(pipes') = NewPipe
            BY <4>2 DEF Feeds
          <6> QED
            BY <1>4, <6>1, <6>2
        <5> QED
          BY <4>2, <5>1, <5>2, <5>3, <5>4, <5>5
      <4>3. CASE r = pipes'[p].source /\ p = Top.pipe /\ pipes'[p].source # pipes[p].source
        <5>1. Base(m) = Top.pipe
          BY <1>0, <3>4, <4>3
        <5>2. \A d \in Delims(Top.op) : NewDep(Top.pipe, d)
          BY <1>0, <1>3, <1>5 DEF FrameFed
        <5>3. /\ plan[r].type \in Readable
              /\ \A s \in FilledBy(plan, r) : s \in Delims(Top.op) \/ NewDep(Top.pipe, s)
          BY <4>3 DEF Feeds
        <5> QED
          BY <5>1, <5>2, <5>3
      <4> QED
        BY <3>3, <4>1, <4>2, <4>3
    <3>6. ASSUME NEW x \in ToSet(pipes'[p].ops), x \notin ToSet(pipes[p].ops)
          PROVE  /\ p = Top.pipe /\ x = Top.op /\ x \in OfType(plan, Streams \cup Joins)
                 /\ pipes[p].sink # NoOp => x \in ToSet(Way(plan, pipes[p].sink))
      <4>1. x = Top.op /\ p = Top.pipe
        BY <3>1, <3>6, GrowsKeeps
      <4>2. pipes'[Top.pipe].ops # pipes[Top.pipe].ops
        BY <3>6, <4>1
      <4>3. plan[Top.op].type \in Streams \cup Joins /\ Top.op \in Reach(Top.op)
        BY <4>2 DEF Feeds, NewFrames
      <4>4. pipes[Top.pipe].sink # NoOp => Reach(Top.op) \subseteq ToSet(Way(plan, pipes[Top.pipe].sink))
        BY <1>0, <1>5 DEF FrameFed
      <4> QED
        BY <1>0, <4>1, <4>3, <4>4 DEF OfType
    <3>7. ToSet(pipes'[p].ops) \subseteq OfType(plan, Streams \cup Joins)
      BY <3>2, <3>6
    <3>8. pipes'[p].sink = pipes[p].sink /\ (pipes'[p].source \in JoinOps => pipes'[p].source = pipes[p].source)
      BY <3>1 DEF Grows
    <3>9. pipes'[p].sink # NoOp =>
            ToSet(pipes'[p].ops) \cup ({pipes'[p].source} \cap JoinOps) \subseteq ToSet(Way(plan, pipes'[p].sink))
      BY <3>2, <3>6, <3>8
    <3>10. \A r \in Reads(p)' : plan'[r].type \in Readable /\ \A s \in FilledBy(plan', r) : Dep(Base(m), s)'
      <4>1. \A r \in Reads(p)' : \A s \in FilledBy(plan, r) : \A x : x = Base(m) => Dep(x, s)'
        BY <1>1, <3>5
      <4>2. \A s : (\A x : x = Base(m) => Dep(x, s)') => Dep(Base(m), s)'
        BY <3>1 DEF Dep
      <4> QED
        BY <1>0, <3>5, <4>1, <4>2
    <3> QED
      BY <1>0, <1>1, <3>7, <3>9, <3>10 DEF PipeFed
  <2>2. CASE m \notin DOMAIN metas
    <3>1. m = NewMeta /\ MetaGrows
      BY <1>2, <2>2
    <3>2. p = NewPipe
      <4>1. metas'[m].pipes = <<NewPipe>>
        BY <3>1 DEF MetaGrows, MetaPipeline
      <4>2. DOMAIN <<NewPipe>> = {1} /\ <<NewPipe>>[1] = NewPipe
        OBVIOUS
      <4> QED
        BY <4>1, <4>2 DEF ToSet
    <3>3. pipes'[p].ops = <<>> /\ pipes'[p].source = NoOp
      BY <3>1, <3>2 DEF MetaGrows
    <3>4. ToSet(pipes'[p].ops) = {} /\ NoOp \notin Ops(plan) /\ NoOp \notin JoinOps
      <4>1. Ops(plan) = 1 .. Len(plan)
        BY <1>0, PlanFacts
      <4> QED
        BY <3>3, <4>1 DEF ToSet, NoOp, JoinOps, OfType
    <3>5. Reads(p)' = {}
      BY <1>0, <3>3, <3>4 DEF Reads
    <3> QED
      BY <1>0, <1>1, <3>3, <3>4, <3>5 DEF PipeFed
  <2> QED
    BY <2>1, <2>2
<1>10. SinksFed'
  <2>1. ASSUME NEW m \in DOMAIN metas', metas'[m].sink # NoOp PROVE \A s : s = metas'[m].sink => SinkFed(s)'
    <3>1. ASSUME NEW s, SinkFed(s) PROVE SinkFed(s)'
      BY <1>0, <3>1 DEF SinkFed
    <3>2. SinkFed(metas'[m].sink)
      <4>1. CASE m \in DOMAIN metas
        <5>1. metas'[m].sink = metas[m].sink
          BY <4>1, GrowsKeeps
        <5> QED
          BY <2>1, <4>1, <5>1 DEF FeedInv, SinksFed
      <4>2. CASE m \notin DOMAIN metas
        <5>1. m = NewMeta /\ MetaGrows /\ Len(pipes') = NewPipe
          BY <1>2, <4>2
        <5>2. metas'[m].sink = Top.op
          BY <5>1 DEF MetaGrows, MetaPipeline
        <5>3. Top.do = "build" /\ plan[Top.op].type \in Joins \cup DelimJoins \cup Blocking \cup {"CTE"}
          BY <5>1 DEF Feeds
        <5>4. FilledByDelim(plan, Top.op) = {}
          BY <1>0, <1>5, <5>3 DEF FrameFed
        <5>5. \A d \in Ops(plan) : plan[d].distinct # Top.op
          BY <1>0 DEF FrameSound
        <5> QED
          BY <5>2, <5>3, <5>4, <5>5 DEF SinkFed
      <4> QED
        BY <4>1, <4>2
    <3> QED
      BY <3>1, <3>2
  <2> QED
    BY <2>1 DEF SinksFed, SinkFed
<1> QED
  BY <1>8, <1>9, <1>10 DEF FeedInv, PipesFed

LEMMA OwnedNat ==
    ASSUME NEW p, WellFormed(p), NEW o \in Ops(p)
    PROVE  Owned(p, o) \subseteq Nat
<1>1. Owned(p, o) \subseteq Ops(p) /\ Ops(p) = 1 .. Len(p)
  BY PlanFacts
<1> QED
  BY <1>1

-----------------------------------------------------------------------------
(***************************************************************************)
(* The actions that build an operator.                                     *)
(***************************************************************************)
\* One element of a sequence is replaced.
LEMMA ExceptFacts ==
    ASSUME NEW S, NEW s \in Seq(S), NEW i \in DOMAIN s, NEW v \in S
    PROVE  /\ [s EXCEPT ![i] = v] \in Seq(S) /\ Len([s EXCEPT ![i] = v]) = Len(s)
           /\ [s EXCEPT ![i] = v][i] = v
           /\ \A k \in DOMAIN s : k # i => [s EXCEPT ![i] = v][k] = s[k]
           /\ DOMAIN [s EXCEPT ![i] = v] = DOMAIN s
<1> DEFINE t == [s EXCEPT ![i] = v]
<1>1. DOMAIN t = 1 .. Len(s) /\ Len(s) \in Nat /\ \A k \in 1 .. Len(s) : t[k] \in S
  OBVIOUS
<1>2. t \in [1 .. Len(s) -> S]
  OBVIOUS
<1>3. t \in Seq(S)
  BY <1>1, <1>2, IsASeq
<1>4. t[i] = v /\ \A k \in DOMAIN s : k # i => t[k] = s[k]
  OBVIOUS
<1>5. DOMAIN s = 1 .. Len(s)
  OBVIOUS
<1> HIDE DEF t
<1>6. Len(t) = Len(s)
  BY <1>1, <1>3
<1> QED
  BY <1>1, <1>3, <1>4, <1>5, <1>6 DEF t

LEMMA SetSourceFacts ==
    ASSUME pipes \in Seq(PipeType), NEW p \in DOMAIN pipes, NEW o \in Nat
    PROVE  /\ SetSource(pipes, p, o) \in Seq(PipeType) /\ Len(SetSource(pipes, p, o)) = Len(pipes)
           /\ \A q \in DOMAIN pipes :
                 /\ SetSource(pipes, p, o)[q].sink = pipes[q].sink
                 /\ SetSource(pipes, p, o)[q].ops = pipes[q].ops
                 /\ SetSource(pipes, p, o)[q].source = IF q = p THEN o ELSE pipes[q].source
                 /\ SetSource(pipes, p, o)[q].deps = pipes[q].deps
<1>1. pipes[p] \in PipeType
  OBVIOUS
<1> DEFINE v == [pipes[p] EXCEPT !.source = o]
<1>2. v \in PipeType /\ v.sink = pipes[p].sink /\ v.ops = pipes[p].ops /\ v.source = o /\ v.deps = pipes[p].deps
  BY <1>1 DEF PipeType
<1>3. SetSource(pipes, p, o) = [pipes EXCEPT ![p] = v]
  BY DEF SetSource
<1> HIDE DEF v
<1> QED
  BY <1>2, <1>3, ExceptFacts

LEMMA AddOperatorFacts ==
    ASSUME pipes \in Seq(PipeType), NEW p \in DOMAIN pipes, NEW o \in Nat
    PROVE  /\ AddOperator(pipes, p, o) \in Seq(PipeType) /\ Len(AddOperator(pipes, p, o)) = Len(pipes)
           /\ \A q \in DOMAIN pipes :
                 /\ AddOperator(pipes, p, o)[q].sink = pipes[q].sink
                 /\ AddOperator(pipes, p, o)[q].source = pipes[q].source
                 /\ AddOperator(pipes, p, o)[q].ops = IF q = p THEN Append(pipes[q].ops, o) ELSE pipes[q].ops
                 /\ AddOperator(pipes, p, o)[q].deps = pipes[q].deps
<1>1. pipes[p] \in PipeType
  OBVIOUS
<1> DEFINE v == [pipes[p] EXCEPT !.ops = Append(pipes[p].ops, o)]
<1>2. v \in PipeType /\ v.sink = pipes[p].sink /\ v.source = pipes[p].source /\ v.ops = Append(pipes[p].ops, o)
      /\ v.deps = pipes[p].deps
  <2>1. pipes[p].ops \in Seq(Nat)
    BY <1>1 DEF PipeType
  <2>2. Append(pipes[p].ops, o) \in Seq(Nat)
    BY <2>1, AppendFacts
  <2> QED
    BY <1>1, <2>2 DEF PipeType
<1>3. AddOperator(pipes, p, o) = [pipes EXCEPT ![p] = v]
  BY DEF AddOperator
<1> HIDE DEF v
<1>4. /\ [pipes EXCEPT ![p] = v] \in Seq(PipeType) /\ Len([pipes EXCEPT ![p] = v]) = Len(pipes)
      /\ [pipes EXCEPT ![p] = v][p] = v
      /\ \A k \in DOMAIN pipes : k # p => [pipes EXCEPT ![p] = v][k] = pipes[k]
  BY <1>2, ExceptFacts
<1>5. ASSUME NEW q \in DOMAIN pipes
      PROVE  /\ AddOperator(pipes, p, o)[q].sink = pipes[q].sink
             /\ AddOperator(pipes, p, o)[q].source = pipes[q].source
             /\ AddOperator(pipes, p, o)[q].ops = IF q = p THEN Append(pipes[q].ops, o) ELSE pipes[q].ops
             /\ AddOperator(pipes, p, o)[q].deps = pipes[q].deps
  <2>1. CASE q = p
    BY <1>2, <1>3, <1>4, <2>1
  <2>2. CASE q # p
    BY <1>3, <1>4, <2>2
  <2> QED
    BY <2>1, <2>2
<1> QED
  BY <1>3, <1>4, <1>5

LEMMA CreateFacts ==
    ASSUME BuildInv, stack # <<>>, NEW ps \in Seq(PipeType), Len(ps) = Len(pipes), CreateChildMetaPipeline(ps)
    PROVE  /\ pipes' \in Seq(PipeType) /\ metas' \in Seq(MetaType) /\ Len(pipes') = NewPipe
           /\ \A q \in DOMAIN pipes :
                 /\ pipes'[q].sink = ps[q].sink /\ pipes'[q].ops = ps[q].ops /\ pipes'[q].source = ps[q].source
                 /\ ps[q].deps \subseteq pipes'[q].deps
           /\ NewPipe \in pipes'[Top.pipe].deps
           /\ MetaGrows
<1> DEFINE v == [ps[Top.pipe] EXCEPT !.deps = @ \cup {NewPipe}]
           qs == [ps EXCEPT ![Top.pipe] = v]
           w == [metas[Top.meta] EXCEPT !.kids = Append(metas[Top.meta].kids, NewMeta)]
           ms == [metas EXCEPT ![Top.meta] = w]
<1>1. /\ pipes \in Seq(PipeType) /\ metas \in Seq(MetaType) /\ Top.op \in Nat
      /\ Top.pipe \in DOMAIN pipes /\ Top.meta \in DOMAIN metas
  BY TopFacts DEF BuildInv, BuildTyped
<1>2. DOMAIN ps = DOMAIN pipes /\ NewPipe \in Nat /\ NewMeta \in Nat
  BY <1>1 DEF NewPipe, NewMeta
<1>3. v \in PipeType /\ v.sink = ps[Top.pipe].sink /\ v.source = ps[Top.pipe].source /\ v.ops = ps[Top.pipe].ops
      /\ v.deps = ps[Top.pipe].deps \cup {NewPipe}
  <2>1. ps[Top.pipe] \in PipeType
    BY <1>1, <1>2
  <2> QED
    BY <1>2, <2>1 DEF PipeType
<1>4. w \in MetaType /\ w.sink = metas[Top.meta].sink /\ w.pipes = metas[Top.meta].pipes
      /\ w.kids = Append(metas[Top.meta].kids, NewMeta)
  <2>1. metas[Top.meta] \in MetaType
    BY <1>1
  <2>2. metas[Top.meta].kids \in Seq(Nat)
    BY <2>1 DEF MetaType
  <2>3. Append(metas[Top.meta].kids, NewMeta) \in Seq(Nat)
    BY <1>2, <2>2
  <2> QED
    BY <2>1, <2>3 DEF MetaType
<1>5. Pipeline(Top.op) \in PipeType /\ MetaPipeline(Top.op, NewPipe) \in MetaType
  BY <1>1, <1>2 DEF Pipeline, MetaPipeline, PipeType, MetaType, NoOp
<1>6. pipes' = Append(qs, Pipeline(Top.op)) /\ metas' = Append(ms, MetaPipeline(Top.op, NewPipe))
  BY DEF CreateChildMetaPipeline
<1>7. /\ qs \in Seq(PipeType) /\ Len(qs) = Len(pipes) /\ DOMAIN qs = DOMAIN pipes
      /\ \A q \in DOMAIN pipes :
            /\ qs[q].sink = ps[q].sink /\ qs[q].ops = ps[q].ops /\ qs[q].source = ps[q].source
            /\ ps[q].deps \subseteq qs[q].deps
      /\ NewPipe \in qs[Top.pipe].deps
  <2> HIDE DEF v
  <2> QED
    BY <1>1, <1>2, <1>3, ExceptFacts
<1>8. /\ ms \in Seq(MetaType) /\ Len(ms) = Len(metas) /\ DOMAIN ms = DOMAIN metas
      /\ ms[Top.meta] = w
      /\ \A m \in DOMAIN metas : m # Top.meta => ms[m] = metas[m]
  <2> HIDE DEF w
  <2> QED
    BY <1>1, <1>4, ExceptFacts
<1> HIDE DEF qs, ms
<1>9. /\ pipes' \in Seq(PipeType) /\ Len(pipes') = NewPipe
      /\ \A q \in DOMAIN pipes : pipes'[q] = qs[q]
      /\ pipes'[NewPipe] = Pipeline(Top.op)
  BY <1>1, <1>5, <1>6, <1>7, AppendFacts DEF NewPipe
<1>10. /\ metas' \in Seq(MetaType) /\ Len(metas') = NewMeta
       /\ \A m \in DOMAIN metas : metas'[m] = ms[m]
       /\ metas'[NewMeta] = MetaPipeline(Top.op, NewPipe)
  BY <1>1, <1>5, <1>6, <1>8, AppendFacts DEF NewMeta
<1>11. \A m \in DOMAIN metas :
          metas'[m] = [metas[m] EXCEPT !.kids = IF m = Top.meta THEN Append(metas[m].kids, NewMeta) ELSE @]
  <2> TAKE m \in DOMAIN metas
  <2>1. CASE m = Top.meta
    BY <1>8, <1>10, <2>1
  <2>2. CASE m # Top.meta
    <3>1. metas[m] \in MetaType
      BY <1>1
    <3>2. metas'[m] = metas[m]
      BY <1>8, <1>10, <2>2
    <3> HIDE DEF w
    <3> QED
      BY <2>2, <3>1, <3>2 DEF MetaType
  <2> QED
    BY <2>1, <2>2
<1>12. MetaGrows
  <2>1. pipes'[NewPipe].sink = Top.op /\ pipes'[NewPipe].ops = <<>> /\ pipes'[NewPipe].source = NoOp
    BY <1>9 DEF Pipeline
  <2> QED
    BY <1>10, <1>11, <2>1 DEF MetaGrows
<1> QED
  BY <1>1, <1>7, <1>9, <1>10, <1>12

\* The frame of a call.
LEMMA BuildFacts ==
    ASSUME NEW o \in Nat, NEW p \in Nat, NEW m \in Nat
    PROVE  /\ Build(o, p, m) \in FrameType
           /\ Build(o, p, m).do = "build" /\ Build(o, p, m).op = o /\ Build(o, p, m).pipe = p
           /\ Build(o, p, m).meta = m
  BY DEF Frame, FrameType, Build, NoPipe

\* A step that creates no pipeline.
LEMMA GrowsInPlace ==
    ASSUME BuildInv, stack # <<>>, Top.do \in Placing, plan' = plan, metas' = metas, Top.op # 1,
           pipes' \in Seq(PipeType), Len(pipes') = Len(pipes),
           \A p \in DOMAIN pipes :
              /\ pipes'[p].sink = pipes[p].sink
              /\ pipes'[p].ops = pipes[p].ops \/ (p = Top.pipe /\ pipes'[p].ops = Append(pipes[p].ops, Top.op))
              /\ pipes'[p].source = pipes[p].source \/ (p = Top.pipe /\ pipes'[p].source \in Ops(plan) \ JoinOps)
    PROVE  Grows /\ Len(pipes') # NewPipe
<1>1. Len(pipes) # NewPipe /\ metas \in Seq(MetaType)
  BY DEF BuildInv, BuildTyped, NewPipe
<1>2. ~(Top = Build(1, 1, 1))
  BY DEF Build, Frame
<1> QED
  BY <1>1, <1>2 DEF Grows

\* A step that creates a meta-pipeline.
LEMMA GrowsMore ==
    ASSUME BuildInv, stack # <<>>, Top.do \in Placing, plan' = plan, NEW ps \in Seq(PipeType), Len(ps) = Len(pipes),
           CreateChildMetaPipeline(ps),
           \A p \in DOMAIN pipes :
              /\ ps[p].sink = pipes[p].sink
              /\ ps[p].ops = pipes[p].ops \/ (p = Top.pipe /\ ps[p].ops = Append(pipes[p].ops, Top.op))
              /\ ps[p].source = pipes[p].source \/ (p = Top.pipe /\ ps[p].source \in Ops(plan) \ JoinOps)
    PROVE  /\ Grows /\ Len(pipes') = NewPipe
           /\ \A p \in DOMAIN pipes :
                 pipes'[p].ops = ps[p].ops /\ pipes'[p].source = ps[p].source /\ ps[p].deps \subseteq pipes'[p].deps
           /\ NewPipe \in pipes'[Top.pipe].deps
<1>1. Len(pipes) # NewPipe
  BY DEF BuildInv, BuildTyped, NewPipe
<1>2. /\ pipes' \in Seq(PipeType) /\ metas' \in Seq(MetaType) /\ Len(pipes') = NewPipe
      /\ \A q \in DOMAIN pipes :
            /\ pipes'[q].sink = ps[q].sink /\ pipes'[q].ops = ps[q].ops /\ pipes'[q].source = ps[q].source
            /\ ps[q].deps \subseteq pipes'[q].deps
      /\ NewPipe \in pipes'[Top.pipe].deps
      /\ MetaGrows
  BY CreateFacts
<1>3. \A p \in DOMAIN pipes :
          /\ pipes'[p].sink = pipes[p].sink
          /\ pipes'[p].ops = pipes[p].ops \/ (p = Top.pipe /\ pipes'[p].ops = Append(pipes[p].ops, Top.op))
          /\ pipes'[p].source = pipes[p].source \/ (p = Top.pipe /\ pipes'[p].source \in Ops(plan) \ JoinOps)
  BY <1>2
<1> QED
  BY <1>1, <1>2, <1>3 DEF Grows

\* The top frame's places, and the new ones.
LEMMA PlaceFacts ==
    ASSUME BuildInv, stack # <<>>
    PROVE  /\ pipes \in Seq(PipeType) /\ metas \in Seq(MetaType) /\ WellFormed(plan) /\ FrameSound(Top)
           /\ Top.pipe \in DOMAIN pipes /\ Top.pipe \in Nat /\ Top.meta \in Nat
           /\ NewPipe \in Nat /\ NewMeta \in Nat /\ NoPipe \in Nat /\ NewPipe \notin DOMAIN pipes
           /\ Top.op \in Ops(plan) /\ Top.op \in Nat
           /\ Last(metas[Top.meta].pipes) \in ToSet(metas[Top.meta].pipes) /\ Last(metas[Top.meta].pipes) \in Nat
<1>1. pipes \in Seq(PipeType) /\ metas \in Seq(MetaType)
  BY DEF BuildInv, BuildTyped
<1>2. Top.pipe \in DOMAIN pipes /\ Top.meta \in DOMAIN metas
  BY TopFacts
<1>3. Top.pipe \in Nat /\ Top.meta \in Nat /\ NewPipe \in Nat /\ NewMeta \in Nat /\ NoPipe \in Nat /\ NewPipe \notin DOMAIN pipes
  BY <1>1, <1>2 DEF NewPipe, NewMeta, NoPipe
<1> DEFINE s == metas[Top.meta].pipes
<1>4. s \in Seq(Nat) /\ s # <<>>
  BY TopFacts
<1>5. Len(s) \in DOMAIN s
  <2> HIDE DEF s
  <2> QED
    BY <1>4
<1>6. Last(s) = s[Len(s)]
  BY DEF Last
<1>7. Last(s) \in ToSet(s) /\ Last(s) \in Nat
  <2> HIDE DEF s
  <2> QED
    BY <1>4, <1>5, <1>6 DEF ToSet
<1> QED
  BY <1>1, <1>2, <1>3, <1>7, TopFacts

\* An operator of these types is not the root, and none of the others.
LEMMA TypeFacts ==
    ASSUME BuildInv, stack # <<>>
    PROVE  /\ plan[Top.op].type \in Leaves \cup Streams \cup Scans => Top.op # 1
           /\ plan[Top.op].type \in Joins \cup DelimJoins \cup {"CTE"} => Top.op # 1
           /\ plan[Top.op].type \notin Joins => Top.op \notin JoinOps
           /\ plan[Top.op].type \in Leaves \cup Streams \cup Scans \cup Blocking \cup DelimJoins \cup {"CTE"}
                 => plan[Top.op].type \notin Joins
           /\ plan[Top.op].type \in Leaves \cup Streams \cup Scans \cup Blocking \cup Joins
                 => Top.op \notin OfType(plan, DelimJoins \cup {"CTE"})
<1>1. plan[1].type = "RESULT_COLLECTOR"
  BY TopFacts DEF WellFormed
<1> QED
  BY <1>1 DEF Leaves, Streams, Scans, Blocking, Joins, DelimJoins, JoinOps, OfType

LEMMA LeafStep ==
    ASSUME BuildInv, BuildLeaf
    PROVE  BuildInv' /\ (FeedInv => FeedInv')
<1>1. /\ stack # <<>> /\ Top.do \in Placing /\ plan[Top.op].type \in Leaves
      /\ pipes' = SetSource(pipes, Top.pipe, Top.op)
      /\ stack' = <<>> \o Tail(stack) /\ plan' = plan /\ metas' = metas /\ scanDeps' = scanDeps
  BY DEF BuildLeaf, Calls, Return, Placing
<1>2. /\ pipes \in Seq(PipeType) /\ metas \in Seq(MetaType) /\ Top.pipe \in DOMAIN pipes
      /\ Top.op \in Nat /\ Top.op \in Ops(plan) /\ Top.op \notin JoinOps /\ Top.op # 1
      /\ Top.op \notin OfType(plan, DelimJoins \cup {"CTE"}) /\ WellFormed(plan)
  BY <1>1, TopFacts, TypeFacts DEF BuildInv, BuildTyped
<1>3. /\ pipes' \in Seq(PipeType) /\ Len(pipes') = Len(pipes) /\ Len(pipes) # NewPipe
      /\ \A q \in DOMAIN pipes :
            /\ pipes'[q].sink = pipes[q].sink /\ pipes'[q].ops = pipes[q].ops
            /\ pipes'[q].source = IF q = Top.pipe THEN Top.op ELSE pipes[q].source
            /\ pipes'[q].deps = pipes[q].deps
  BY <1>1, <1>2, SetSourceFacts DEF NewPipe
<1>4. \A q \in DOMAIN pipes :
          /\ pipes'[q].sink = pipes[q].sink
          /\ pipes'[q].ops = pipes[q].ops \/ (q = Top.pipe /\ pipes'[q].ops = Append(pipes[q].ops, Top.op))
          /\ pipes'[q].source = pipes[q].source \/ (q = Top.pipe /\ pipes'[q].source \in Ops(plan) \ JoinOps)
  BY <1>2, <1>3
<1>5. Grows
  BY <1>1, <1>2, <1>3, <1>4, GrowsInPlace
<1>6. NewFrames(<<>>)
  <2>1. pipes'[Top.pipe].source \in Ops(plan)
    BY <1>2, <1>3
  <2> QED
    BY <1>1, <1>2, <1>3, <2>1 DEF NewFrames
<1>7. Feeds(<<>>)
  <2>1. /\ plan[Top.op].type \notin Joins /\ plan[Top.op].type \notin DelimJoins /\ plan[Top.op].type \in Readable
        /\ plan[Top.op].type \in Leaves
    BY <1>1 DEF Leaves, Joins, DelimJoins, Readable
  <2>2. FilledBy(plan, Top.op) \subseteq Delims(Top.op)
    BY <1>2, <2>1, FilledFacts
  <2> QED
    BY <1>2, <1>3, <2>1, <2>2 DEF Feeds
<1> QED
  BY <1>1, <1>5, <1>6, <1>7, GrowsInv, GrowsFed

LEMMA ScanStep ==
    ASSUME BuildInv, BuildScan
    PROVE  BuildInv' /\ (FeedInv => FeedInv')
<1> DEFINE from == scanDeps[Top.op]
           source == IF plan[Top.op].type = "DELIM_SCAN" THEN plan[pipes[from].sink].distinct ELSE Top.op
           v == [pipes[Top.pipe] EXCEPT !.deps = @ \cup {from}, !.source = source]
<1>1. /\ stack # <<>> /\ Top.do \in Placing /\ plan[Top.op].type \in Scans
      /\ pipes' = [pipes EXCEPT ![Top.pipe] = v]
      /\ stack' = <<>> \o Tail(stack) /\ plan' = plan /\ metas' = metas /\ scanDeps' = scanDeps
  <2>1. /\ stack # <<>> /\ Top.do \in Placing /\ plan[Top.op].type \in Scans
        /\ stack' = <<>> \o Tail(stack) /\ plan' = plan /\ metas' = metas /\ scanDeps' = scanDeps
    BY DEF BuildScan, Calls, Return, Placing
  <2>2. pipes' = [pipes EXCEPT ![Top.pipe].deps = @ \cup {from}, ![Top.pipe].source = source]
    BY DEF BuildScan
  <2>3. pipes \in Seq(PipeType) /\ Top.pipe \in DOMAIN pipes
    BY <2>1, TopFacts DEF BuildInv, BuildTyped
  <2>4. [pipes EXCEPT ![Top.pipe].deps = @ \cup {from}, ![Top.pipe].source = source] = [pipes EXCEPT ![Top.pipe] = v]
    <3> HIDE DEF from, source
    <3> QED
      BY <2>3
  <2> QED
    BY <2>1, <2>2, <2>4
<1>2. /\ pipes \in Seq(PipeType) /\ metas \in Seq(MetaType) /\ Top.pipe \in DOMAIN pipes
      /\ Top.op \in Nat /\ Top.op \in Ops(plan) /\ Top.op \notin JoinOps /\ Top.op # 1
      /\ Top.op \notin OfType(plan, DelimJoins \cup {"CTE"}) /\ WellFormed(plan)
  BY <1>1, TopFacts, TypeFacts DEF BuildInv, BuildTyped
<1>3. Top.op \in DOMAIN scanDeps
  <2>1. 1 \in DOMAIN stack /\ stack[1] = Top /\ \A k \in DOMAIN stack : ~(k < 1)
    <3>1. stack \in Seq(FrameType)
      BY DEF BuildInv, BuildTyped
    <3> QED
      BY <1>1, <3>1, TopFacts
  <2>2. Top.op \in Sub(Top.op) \cap OfType(plan, Scans)
    BY <1>1, <1>2, SubtreeBelow DEF Sub, OfType
  <2>3. Top.op \in DOMAIN scanDeps \/ ProducersOf(plan, Top.op) \subseteq Sub(Top.op)
    BY <1>1, <2>1, <2>2 DEF BuildInv, ScansSound
  <2>4. PICK d \in Ops(plan) : ProducersOf(plan, Top.op) = {d}
    BY <1>2, <2>2 DEF WellFormed
  <2>5. d # Top.op
    BY <1>2, <2>2, <2>4, ProducerFacts
  <2>6. Sub(Top.op) = {Top.op}
    BY <1>1, <1>2, OwnedByType, SubtreeDef DEF Sub
  <2> QED
    BY <2>3, <2>4, <2>5, <2>6
<1>4. from \in DOMAIN pipes /\ from \in Nat /\ pipes[from].sink \in ProducersOf(plan, Top.op)
  <2>1. from \in DOMAIN pipes /\ pipes[from].sink \in ProducersOf(plan, Top.op)
    BY <1>3 DEF BuildInv, ScansSound
  <2> QED
    BY <1>2, <2>1
<1>5. source \in Ops(plan) \ JoinOps
  <2>1. CASE plan[Top.op].type = "DELIM_SCAN"
    <3>1. pipes[from].sink \in OfType(plan, DelimJoins)
      BY <1>1, <1>2, <1>4, <2>1, ProducerFacts DEF OfType
    <3>2. plan[pipes[from].sink].distinct \in OfType(plan, {"GROUP_BY"})
      BY <1>2, <3>1, PlanFacts DEF OfType, HasShape
    <3> QED
      BY <2>1, <3>2 DEF OfType, JoinOps, Joins
  <2>2. CASE plan[Top.op].type # "DELIM_SCAN"
    BY <1>2, <2>2
  <2> QED
    BY <2>1, <2>2
<1>6. v \in PipeType /\ v.sink = pipes[Top.pipe].sink /\ v.ops = pipes[Top.pipe].ops /\ v.source = source
      /\ v.deps = pipes[Top.pipe].deps \cup {from}
  <2>1. pipes[Top.pipe] \in PipeType
    BY <1>2
  <2>2. source \in Nat
    <3>1. Ops(plan) \subseteq Nat
      BY <1>2, PlanFacts
    <3> QED
      BY <1>5, <3>1
  <2> HIDE DEF source, from
  <2> QED
    BY <1>4, <2>1, <2>2 DEF PipeType
<1>7. /\ pipes' \in Seq(PipeType) /\ Len(pipes') = Len(pipes) /\ Len(pipes) # NewPipe
      /\ \A q \in DOMAIN pipes :
            /\ pipes'[q].sink = pipes[q].sink /\ pipes'[q].ops = pipes[q].ops
            /\ pipes'[q].source = IF q = Top.pipe THEN source ELSE pipes[q].source
            /\ pipes[q].deps \subseteq pipes'[q].deps
      /\ from \in pipes'[Top.pipe].deps /\ from \in DOMAIN pipes' /\ pipes'[from].sink = pipes[from].sink
  <2>1. Len(pipes) # NewPipe
    BY <1>2 DEF NewPipe
  <2> HIDE DEF v, source
  <2>2. /\ pipes' \in Seq(PipeType) /\ Len(pipes') = Len(pipes) /\ pipes'[Top.pipe] = v
        /\ \A q \in DOMAIN pipes : q # Top.pipe => pipes'[q] = pipes[q]
        /\ DOMAIN pipes' = DOMAIN pipes
    BY <1>1, <1>2, <1>6, ExceptFacts
  <2> HIDE DEF from
  <2> QED
    BY <1>2, <1>4, <1>6, <2>1, <2>2
<1>11. plan[source].type \in Readable /\ \A s \in FilledBy(plan, source) : s = pipes[from].sink
  <2>1. CASE plan[Top.op].type = "DELIM_SCAN"
    <3>1. pipes[from].sink \in OfType(plan, DelimJoins)
      BY <1>1, <1>2, <1>4, <2>1, ProducerFacts DEF OfType
    <3>2. source = plan[pipes[from].sink].distinct
      BY <2>1
    <3>3. source \in OfType(plan, {"GROUP_BY"})
      BY <1>2, <3>1, <3>2, DelimOwns
    <3>4. FilledBy(plan, source) = {pipes[from].sink}
      BY <1>2, <1>5, <3>1, <3>2, FilledFacts
    <3> QED
      BY <3>3, <3>4 DEF OfType, Readable, Blocking
  <2>2. CASE plan[Top.op].type # "DELIM_SCAN"
    <3>1. source = Top.op /\ FilledBy(plan, Top.op) = ProducersOf(plan, Top.op)
      BY <1>1, <1>2, <2>2, FilledFacts
    <3>2. ProducersOf(plan, Top.op) = {pipes[from].sink}
      BY <1>1, <1>2, <1>4, ProducerFacts DEF OfType
    <3> QED
      BY <1>1, <2>2, <3>1, <3>2 DEF Readable, Scans
  <2> QED
    BY <2>1, <2>2
<1> HIDE DEF source, v, from
<1>8. \A q \in DOMAIN pipes :
          /\ pipes'[q].sink = pipes[q].sink
          /\ pipes'[q].ops = pipes[q].ops \/ (q = Top.pipe /\ pipes'[q].ops = Append(pipes[q].ops, Top.op))
          /\ pipes'[q].source = pipes[q].source \/ (q = Top.pipe /\ pipes'[q].source \in Ops(plan) \ JoinOps)
  BY <1>5, <1>7
<1>9. Grows
  BY <1>1, <1>2, <1>7, <1>8, GrowsInPlace
<1>10. NewFrames(<<>>)
  <2>1. pipes'[Top.pipe].source \in Ops(plan)
    BY <1>2, <1>5, <1>7
  <2> QED
    BY <1>1, <1>2, <1>7, <2>1 DEF NewFrames
<1>12. Feeds(<<>>)
  <2>1. plan[Top.op].type \notin Joins /\ plan[Top.op].type \notin DelimJoins
    BY <1>1 DEF Scans, Joins, DelimJoins
  <2>2. pipes'[Top.pipe].source = source /\ \A s \in FilledBy(plan, source) : NewDep(Top.pipe, s)
    BY <1>2, <1>7, <1>11 DEF NewDep
  <2> QED
    BY <1>2, <1>7, <1>11, <2>1, <2>2 DEF Feeds
<1> QED
  BY <1>1, <1>9, <1>10, <1>12, GrowsInv, GrowsFed

LEMMA StreamStep ==
    ASSUME BuildInv, BuildStream
    PROVE  BuildInv' /\ (FeedInv => FeedInv')
<1> DEFINE f == Build(Child(plan, Top.op, 1), Top.pipe, Top.meta)
<1>1. /\ stack # <<>> /\ Top.do \in Placing /\ plan[Top.op].type \in Streams
      /\ pipes' = AddOperator(pipes, Top.pipe, Top.op)
      /\ stack' = <<f>> \o Tail(stack) /\ plan' = plan /\ metas' = metas /\ scanDeps' = scanDeps
  BY DEF BuildStream, Calls, Return, Placing
<1>2. /\ pipes \in Seq(PipeType) /\ metas \in Seq(MetaType) /\ Top.pipe \in DOMAIN pipes
      /\ Top.meta \in Nat /\ Top.pipe \in Nat /\ WellFormed(plan)
      /\ Top.op \in Nat /\ Top.op \in Ops(plan) /\ Top.op \notin JoinOps /\ Top.op # 1
      /\ Top.op \notin OfType(plan, DelimJoins \cup {"CTE"})
  BY <1>1, TopFacts, TypeFacts DEF BuildInv, BuildTyped, FrameType
<1>3. /\ pipes' \in Seq(PipeType) /\ Len(pipes') = Len(pipes) /\ Len(pipes) # NewPipe
      /\ \A q \in DOMAIN pipes :
            /\ pipes'[q].sink = pipes[q].sink /\ pipes'[q].source = pipes[q].source
            /\ pipes'[q].ops = IF q = Top.pipe THEN Append(pipes[q].ops, Top.op) ELSE pipes[q].ops
            /\ pipes'[q].deps = pipes[q].deps
  BY <1>1, <1>2, AddOperatorFacts DEF NewPipe
<1>4. \A q \in DOMAIN pipes :
          /\ pipes'[q].sink = pipes[q].sink
          /\ pipes'[q].ops = pipes[q].ops \/ (q = Top.pipe /\ pipes'[q].ops = Append(pipes[q].ops, Top.op))
          /\ pipes'[q].source = pipes[q].source \/ (q = Top.pipe /\ pipes'[q].source \in Ops(plan) \ JoinOps)
  BY <1>2, <1>3
<1>5. Grows
  BY <1>1, <1>2, <1>3, <1>4, GrowsInPlace
<1>6. Child(plan, Top.op, 1) \in Owned(plan, Top.op) /\ Child(plan, Top.op, 1) \in Nat
  <2>1. Child(plan, Top.op, 1) \in Owned(plan, Top.op)
    BY <1>1, <1>2, OwnedByType
  <2>2. Owned(plan, Top.op) \subseteq Nat
    BY <1>2, OwnedNat
  <2> QED
    BY <2>1, <2>2
<1>7. /\ f \in FrameType /\ f.do = "build" /\ f.op = Child(plan, Top.op, 1)
      /\ f.pipe = Top.pipe /\ f.meta = Top.meta
  <2>1. Child(plan, Top.op, 1) \in Nat /\ Top.pipe \in Nat /\ Top.meta \in Nat
    BY <1>2, <1>6
  <2> QED
    BY <2>1, BuildFacts
<1> HIDE DEF f
<1>8. NewFrames(<<f>>)
  <2>1. <<f>> \in Seq(FrameType) /\ DOMAIN <<f>> = {1} /\ <<f>>[1] = f
    BY <1>7
  <2>2. \A i, k \in {1} : ~(i < k)
    OBVIOUS
  <2>3. Here(f)
    BY <1>7 DEF Here
  <2>4. Top.op \in Reach(Top.op) /\ Reach(f.op) \subseteq Reach(Top.op)
    BY <1>1, <1>2, <1>7, ReachFacts
  <2> QED
    BY <1>1, <1>2, <1>3, <1>6, <1>7, <2>1, <2>2, <2>3, <2>4 DEF NewFrames, Placing
<1>9. Feeds(<<f>>)
  <2>1. /\ plan[Top.op].type \notin Joins /\ plan[Top.op].type \notin DelimJoins
        /\ plan[Top.op].type # "RIGHT_DELIM_JOIN" /\ plan[Top.op].type \in Streams
    BY <1>1 DEF Streams, Joins, DelimJoins
  <2>2. DOMAIN <<f>> = {1} /\ <<f>>[1] = f
    BY <1>7
  <2>3. f.do # "probe" /\ f.pipe # NewPipe
    BY <1>1, <1>2, <1>7, PlaceFacts
  <2>4. pipes'[Top.pipe].source = pipes[Top.pipe].source /\ \A p \in DOMAIN pipes : pipes[p].deps \subseteq pipes'[p].deps
    BY <1>2, <1>3
  <2> QED
    BY <1>3, <2>1, <2>2, <2>3, <2>4 DEF Feeds
<1> QED
  BY <1>1, <1>5, <1>8, <1>9, GrowsInv, GrowsFed

LEMMA BlockingStep ==
    ASSUME BuildInv, BuildBlocking
    PROVE  BuildInv' /\ (FeedInv => FeedInv')
<1> DEFINE f == Build(Child(plan, Top.op, 1), NewPipe, NewMeta)
           ps == SetSource(pipes, Top.pipe, Top.op)
<1>1. /\ stack # <<>> /\ Top.do \in Placing /\ Top.do = "build" /\ plan[Top.op].type \in Blocking
      /\ CreateChildMetaPipeline(ps)
      /\ stack' = <<f>> \o Tail(stack) /\ plan' = plan /\ scanDeps' = scanDeps
  BY DEF BuildBlocking, Calls, Return, Placing
<1>2. /\ pipes \in Seq(PipeType) /\ metas \in Seq(MetaType) /\ Top.pipe \in DOMAIN pipes
      /\ NewPipe \in Nat /\ NewMeta \in Nat /\ WellFormed(plan)
      /\ Top.op \in Nat /\ Top.op \in Ops(plan) /\ Top.op \notin JoinOps
      /\ Top.op \notin OfType(plan, DelimJoins \cup {"CTE"}) /\ FrameSound(Top)
  BY <1>1, TopFacts, TypeFacts DEF BuildInv, BuildTyped, NewPipe, NewMeta
<1>3. /\ ps \in Seq(PipeType) /\ Len(ps) = Len(pipes)
      /\ \A q \in DOMAIN pipes :
            /\ ps[q].sink = pipes[q].sink /\ ps[q].ops = pipes[q].ops
            /\ ps[q].source = IF q = Top.pipe THEN Top.op ELSE pipes[q].source
            /\ ps[q].deps = pipes[q].deps
  BY <1>1, <1>2, SetSourceFacts
<1> HIDE DEF ps
<1>4. \A q \in DOMAIN pipes :
          /\ ps[q].sink = pipes[q].sink
          /\ ps[q].ops = pipes[q].ops \/ (q = Top.pipe /\ ps[q].ops = Append(pipes[q].ops, Top.op))
          /\ ps[q].source = pipes[q].source \/ (q = Top.pipe /\ ps[q].source \in Ops(plan) \ JoinOps)
  BY <1>2, <1>3
<1>5. /\ Grows /\ Len(pipes') = NewPipe
      /\ \A q \in DOMAIN pipes :
            pipes'[q].ops = ps[q].ops /\ pipes'[q].source = ps[q].source /\ ps[q].deps \subseteq pipes'[q].deps
      /\ NewPipe \in pipes'[Top.pipe].deps
  BY <1>1, <1>3, <1>4, GrowsMore
<1>6. Child(plan, Top.op, 1) \in Owned(plan, Top.op) /\ Child(plan, Top.op, 1) \in Nat
  <2>1. \A d \in Ops(plan) : plan[d].distinct # Top.op
    BY <1>1, <1>2 DEF FrameSound
  <2>2. Child(plan, Top.op, 1) \in Owned(plan, Top.op)
    BY <1>1, <1>2, <2>1, OwnedByType
  <2>3. Owned(plan, Top.op) \subseteq Nat
    BY <1>2, OwnedNat
  <2> QED
    BY <2>2, <2>3
<1>7. /\ f \in FrameType /\ f.do = "build" /\ f.op = Child(plan, Top.op, 1)
      /\ f.pipe = NewPipe /\ f.meta = NewMeta
  <2>1. Child(plan, Top.op, 1) \in Nat /\ NewPipe \in Nat /\ NewMeta \in Nat
    BY <1>2, <1>6
  <2> QED
    BY <2>1, BuildFacts
<1> HIDE DEF f
<1>8. NewFrames(<<f>>)
  <2>1. <<f>> \in Seq(FrameType) /\ DOMAIN <<f>> = {1} /\ <<f>>[1] = f
    BY <1>7
  <2>2. \A i, k \in {1} : ~(i < k)
    OBVIOUS
  <2>3. There(f)
    BY <1>5, <1>7 DEF There
  <2>4. pipes'[Top.pipe].source \in Ops(plan)
    BY <1>2, <1>3, <1>5
  <2>5. pipes'[Top.pipe].ops = pipes[Top.pipe].ops /\ f.pipe # Top.pipe
    BY <1>1, <1>2, <1>3, <1>5, <1>7, PlaceFacts
  <2> QED
    BY <1>1, <1>2, <1>6, <1>7, <2>1, <2>2, <2>3, <2>4, <2>5 DEF NewFrames, Placing
<1>9. Feeds(<<f>>)
  <2>1. /\ plan[Top.op].type \notin Joins /\ plan[Top.op].type \notin DelimJoins
        /\ plan[Top.op].type # "RIGHT_DELIM_JOIN" /\ plan[Top.op].type \in Blocking
        /\ plan[Top.op].type \in Readable
    BY <1>1 DEF Blocking, Joins, DelimJoins, Readable
  <2>2. DOMAIN <<f>> = {1} /\ <<f>>[1] = f
    BY <1>7
  <2>3. f.do # "probe" /\ f.op = Input(plan, Top.op)
    BY <1>7, <2>1 DEF Input
  <2>4. \A p \in DOMAIN pipes : pipes[p].deps \subseteq pipes'[p].deps
    BY <1>3, <1>5
  <2>5. pipes'[Top.pipe].ops = pipes[Top.pipe].ops /\ pipes'[Top.pipe].source = Top.op
    BY <1>2, <1>3, <1>5
  <2>6. FilledBy(plan, Top.op) = {Top.op}
    <3>1. \A d \in Ops(plan) : plan[d].distinct # Top.op
      BY <1>1, <1>2 DEF FrameSound
    <3> QED
      BY <1>2, <2>1, <3>1, FilledFacts
  <2>7. NewDep(Top.pipe, Top.op)
    <3>1. NewPipe \in DOMAIN pipes' /\ pipes'[NewPipe].sink = Top.op
      BY <1>5, NewPipeMade DEF MetaGrows
    <3> QED
      BY <1>5, <3>1 DEF NewDep
  <2> QED
    BY <1>1, <1>5, <2>1, <2>2, <2>3, <2>4, <2>5, <2>6, <2>7 DEF Feeds
<1> QED
  BY <1>1, <1>5, <1>8, <1>9, GrowsInv, GrowsFed

LEMMA JoinStep ==
    ASSUME BuildInv, BuildJoin
    PROVE  BuildInv' /\ (FeedInv => FeedInv')
<1> DEFINE ps == AddOperator(pipes, Top.pipe, Top.op)
           l == Last(metas[Top.meta].pipes)
           a == Build(Child(plan, Top.op, 2), NewPipe, NewMeta)
           b == Build(Child(plan, Top.op, 1), Top.pipe, Top.meta)
           c == Frame("child", Top.op, Top.pipe, Top.meta, l)
<1>1. /\ stack # <<>> /\ Top.do \in Placing /\ plan[Top.op].type \in Joins
      /\ plan' = plan /\ scanDeps' = scanDeps
      /\ \/ Top.do = "build" /\ CreateChildMetaPipeline(ps) /\ stack' = (<<a>> \o <<b, c>>) \o Tail(stack)
         \/ Top.do = "probe" /\ pipes' = ps /\ metas' = metas /\ stack' = <<b, c>> \o Tail(stack)
  BY DEF BuildJoin, Calls, Return, Placing
<1>2. /\ pipes \in Seq(PipeType) /\ metas \in Seq(MetaType) /\ Top.pipe \in DOMAIN pipes
      /\ NewPipe \in Nat /\ NewMeta \in Nat /\ Top.pipe \in Nat /\ Top.meta \in Nat /\ WellFormed(plan)
      /\ Top.op \in Nat /\ Top.op \in Ops(plan) /\ Top.op \in JoinOps /\ Top.op # 1
      /\ Top.op \notin OfType(plan, DelimJoins \cup {"CTE"}) /\ FrameSound(Top)
      /\ metas[Top.meta].pipes \in Seq(Nat) /\ metas[Top.meta].pipes # <<>>
      /\ NewPipe \notin DOMAIN pipes
  <2>1. Top.op \in JoinOps
    BY <1>1, PlaceFacts DEF JoinOps, OfType
  <2>2. Top.op # 1 /\ Top.op \notin OfType(plan, DelimJoins \cup {"CTE"})
    BY <1>1, TypeFacts
  <2>3. metas[Top.meta].pipes \in Seq(Nat) /\ metas[Top.meta].pipes # <<>>
    BY <1>1, TopFacts
  <2> QED
    BY <1>1, <2>1, <2>2, <2>3, PlaceFacts
<1>3. l \in ToSet(metas[Top.meta].pipes) /\ l \in Nat
  BY <1>1, PlaceFacts
<1>4. /\ ps \in Seq(PipeType) /\ Len(ps) = Len(pipes)
      /\ \A q \in DOMAIN pipes :
            /\ ps[q].sink = pipes[q].sink /\ ps[q].source = pipes[q].source
            /\ ps[q].ops = IF q = Top.pipe THEN Append(pipes[q].ops, Top.op) ELSE pipes[q].ops
            /\ ps[q].deps = pipes[q].deps
  BY <1>2, AddOperatorFacts
<1> HIDE DEF ps, l
<1>5. \A q \in DOMAIN pipes :
          /\ ps[q].sink = pipes[q].sink
          /\ ps[q].ops = pipes[q].ops \/ (q = Top.pipe /\ ps[q].ops = Append(pipes[q].ops, Top.op))
          /\ ps[q].source = pipes[q].source \/ (q = Top.pipe /\ ps[q].source \in Ops(plan) \ JoinOps)
  BY <1>4
<1>6. /\ Child(plan, Top.op, 1) \in Owned(plan, Top.op) /\ Child(plan, Top.op, 1) \in Nat
      /\ Child(plan, Top.op, 2) \in Owned(plan, Top.op) /\ Child(plan, Top.op, 2) \in Nat
      /\ Child(plan, Top.op, 1) # Child(plan, Top.op, 2)
  <2>1. /\ Child(plan, Top.op, 1) \in Owned(plan, Top.op) /\ Child(plan, Top.op, 2) \in Owned(plan, Top.op)
        /\ Child(plan, Top.op, 1) # Child(plan, Top.op, 2)
    BY <1>1, <1>2, OwnedByType
  <2>2. Owned(plan, Top.op) \subseteq Nat
    BY <1>2, OwnedNat
  <2> QED
    BY <2>1, <2>2
<1>7. /\ a \in FrameType /\ a.do = "build" /\ a.op = Child(plan, Top.op, 2) /\ a.pipe = NewPipe /\ a.meta = NewMeta
  <2>1. Child(plan, Top.op, 2) \in Nat /\ NewPipe \in Nat /\ NewMeta \in Nat
    BY <1>2, <1>3, <1>6
  <2> QED
    BY <2>1, BuildFacts
<1>8. /\ b \in FrameType /\ b.do = "build" /\ b.op = Child(plan, Top.op, 1) /\ b.pipe = Top.pipe /\ b.meta = Top.meta
  <2>1. Child(plan, Top.op, 1) \in Nat /\ Top.pipe \in Nat /\ Top.meta \in Nat
    BY <1>2, <1>3, <1>6
  <2> QED
    BY <2>1, BuildFacts
<1>9. /\ c \in FrameType /\ c.do = "child" /\ c.op = Top.op /\ c.pipe = Top.pipe /\ c.meta = Top.meta /\ c.last = l
  <2>1. Top.op \in Nat /\ Top.pipe \in Nat /\ Top.meta \in Nat /\ l \in Nat
    BY <1>2, <1>3, <1>6
  <2> QED
    BY <2>1 DEF Frame, FrameType
<1> HIDE DEF a, b, c
<1>10. Here(b) /\ Here(c)
  BY <1>8, <1>9 DEF Here
<1>13. Top.op \in Reach(Top.op) /\ Reach(b.op) \subseteq Reach(Top.op)
  BY <1>1, <1>2, <1>8, ReachFacts
<1>14. /\ plan[Top.op].type \notin DelimJoins /\ plan[Top.op].type # "RIGHT_DELIM_JOIN"
       /\ Input(plan, Top.op) = Child(plan, Top.op, 2)
  BY <1>1 DEF Joins, DelimJoins, Input
<1>11. CASE Top.do = "build" /\ CreateChildMetaPipeline(ps) /\ stack' = (<<a>> \o <<b, c>>) \o Tail(stack)
  <2> DEFINE N == <<a, b, c>>
  <2>1. /\ Grows /\ Len(pipes') = NewPipe
        /\ \A q \in DOMAIN pipes :
              pipes'[q].ops = ps[q].ops /\ pipes'[q].source = ps[q].source /\ ps[q].deps \subseteq pipes'[q].deps
        /\ NewPipe \in pipes'[Top.pipe].deps
    BY <1>1, <1>4, <1>5, <1>11, GrowsMore
  <2>2. N = <<a>> \o <<b, c>> /\ N \in Seq(FrameType) /\ DOMAIN N = {1, 2, 3} /\ N[1] = a /\ N[2] = b /\ N[3] = c
    BY <1>7, <1>8, <1>9
  <2> HIDE DEF N
  <2>3. There(a)
    BY <1>7, <2>1 DEF There
  <2>4. stack' = N \o Tail(stack)
    BY <1>11, <2>2
  <2>5. pipes'[Top.pipe].ops = Append(pipes[Top.pipe].ops, Top.op)
    BY <1>2, <1>4, <2>1
  <2>6. \A i \in DOMAIN N :
          /\ Here(N[i]) \/ There(N[i])
          /\ N[i].do \in Placing => N[i].op \in Owned(plan, Top.op)
          /\ N[i].do = "child" =>
                /\ N[i].op = Top.op /\ Top.op \in JoinOps /\ Here(N[i])
                /\ pipes'[Top.pipe].ops = Append(pipes[Top.pipe].ops, Top.op)
                /\ N[i].last \in ToSet(metas[Top.meta].pipes)
          /\ N[i].do # "scans"
    BY <1>2, <1>3, <1>6, <1>7, <1>8, <1>9, <1>10, <2>2, <2>3, <2>5 DEF Placing
  <2>7. \A i, k \in DOMAIN N : i < k =>
          /\ N[i].do \in Placing /\ N[k].do \in Placing => N[i].op # N[k].op /\ N[i].pipe # N[k].pipe
          /\ ~(N[i].do = "child" /\ N[k].do = "child")
    <3>1. a.op # b.op /\ a.pipe # b.pipe
      BY <1>2, <1>6, <1>7, <1>8
    <3> QED
      BY <1>7, <1>8, <1>9, <2>2, <3>1 DEF Placing
  <2>8. /\ \E i \in DOMAIN N : N[i].do \in Placing /\ N[i].pipe = NewPipe
        /\ \E i \in DOMAIN N : N[i].do \in Placing /\ N[i].pipe = Top.pipe
    BY <1>7, <1>8, <2>2 DEF Placing
  <2>9. \A i \in DOMAIN N : N[i].do \in Placing => \E k \in DOMAIN N : i < k /\ N[k].do = "child"
    BY <1>7, <1>8, <1>9, <2>2 DEF Placing
  <2>11. \A i \in DOMAIN N : N[i].do \in Placing /\ N[i].pipe = Top.pipe => Reach(N[i].op) \subseteq Reach(Top.op)
    <3>1. a.pipe # Top.pipe /\ c.do \notin Placing
      BY <1>2, <1>7, <1>9 DEF Placing
    <3> QED
      BY <1>13, <2>2, <3>1
  <2>10. NewFrames(N)
    BY <1>2, <1>13, <2>2, <2>4, <2>6, <2>7, <2>8, <2>9, <2>11 DEF NewFrames
  <2>12. Feeds(N)
    <3>1. pipes'[Top.pipe].source = pipes[Top.pipe].source /\ \A p \in DOMAIN pipes : pipes[p].deps \subseteq pipes'[p].deps
      BY <1>2, <1>4, <2>1
    <3>2. \A i \in DOMAIN N : N[i].do \in Placing =>
            (N[i].pipe = NewPipe => N[i].op = Input(plan, Top.op)) /\ N[i].do # "probe"
      BY <1>2, <1>7, <1>8, <1>9, <1>14, <2>2 DEF Placing
    <3> QED
      BY <1>1, <1>11, <1>14, <2>1, <3>1, <3>2 DEF Feeds
  <2> QED
    BY <1>1, <2>1, <2>10, <2>12, GrowsInv, GrowsFed
<1>12. CASE Top.do = "probe" /\ pipes' = ps /\ metas' = metas /\ stack' = <<b, c>> \o Tail(stack)
  <2> DEFINE N == <<b, c>>
  <2>1. Grows /\ Len(pipes') # NewPipe
    BY <1>1, <1>2, <1>4, <1>5, <1>12, GrowsInPlace
  <2>2. N \in Seq(FrameType) /\ DOMAIN N = {1, 2} /\ N[1] = b /\ N[2] = c
    BY <1>8, <1>9
  <2> HIDE DEF N
  <2>4. stack' = N \o Tail(stack)
    BY <1>12 DEF N
  <2>5. pipes'[Top.pipe].ops = Append(pipes[Top.pipe].ops, Top.op)
    BY <1>2, <1>4, <1>12
  <2>6. \A i \in DOMAIN N :
          /\ Here(N[i]) \/ There(N[i])
          /\ N[i].do \in Placing => N[i].op \in Owned(plan, Top.op)
          /\ N[i].do = "child" =>
                /\ N[i].op = Top.op /\ Top.op \in JoinOps /\ Here(N[i])
                /\ pipes'[Top.pipe].ops = Append(pipes[Top.pipe].ops, Top.op)
                /\ N[i].last \in ToSet(metas[Top.meta].pipes)
          /\ N[i].do # "scans"
    BY <1>2, <1>3, <1>6, <1>8, <1>9, <1>10, <2>2, <2>5 DEF Placing
  <2>7. \A i, k \in DOMAIN N : i < k =>
          /\ N[i].do \in Placing /\ N[k].do \in Placing => N[i].op # N[k].op /\ N[i].pipe # N[k].pipe
          /\ ~(N[i].do = "child" /\ N[k].do = "child")
    BY <1>8, <1>9, <2>2 DEF Placing
  <2>8. \E i \in DOMAIN N : N[i].do \in Placing /\ N[i].pipe = Top.pipe
    BY <1>8, <2>2 DEF Placing
  <2>9. \A i \in DOMAIN N : N[i].do \in Placing => \E k \in DOMAIN N : i < k /\ N[k].do = "child"
    BY <1>8, <1>9, <2>2 DEF Placing
  <2>11. \A i \in DOMAIN N : N[i].do \in Placing /\ N[i].pipe = Top.pipe => Reach(N[i].op) \subseteq Reach(Top.op)
    <3>1. c.do \notin Placing
      BY <1>9 DEF Placing
    <3> QED
      BY <1>13, <2>2, <3>1
  <2>10. NewFrames(N)
    BY <1>2, <1>13, <2>1, <2>2, <2>4, <2>6, <2>7, <2>8, <2>9, <2>11 DEF NewFrames
  <2>12. Feeds(N)
    <3>1. pipes'[Top.pipe].source = pipes[Top.pipe].source /\ \A p \in DOMAIN pipes : pipes[p].deps \subseteq pipes'[p].deps
      BY <1>2, <1>4, <1>12
    <3>2. \A i \in DOMAIN N : N[i].do \in Placing => N[i].pipe # NewPipe /\ N[i].do # "probe"
      BY <1>2, <1>8, <1>9, <2>2 DEF Placing
    <3> QED
      BY <1>1, <1>12, <1>14, <2>1, <3>1, <3>2 DEF Feeds
  <2> QED
    BY <1>1, <2>1, <2>10, <2>12, GrowsInv, GrowsFed
<1> QED
  BY <1>1, <1>11, <1>12

LEMMA ProducerStep ==
    ASSUME BuildInv, BuildProducer
    PROVE  BuildInv' /\ (FeedInv => FeedInv')
<1> DEFINE a == Build(Child(plan, Top.op, 1), NewPipe, NewMeta)
           b == Frame("scans", Top.op, NewPipe, NewMeta, NoPipe)
           c == CASE plan[Top.op].type = "LEFT_DELIM_JOIN" -> Build(plan[Top.op].inner, Top.pipe, Top.meta)
                  [] plan[Top.op].type = "RIGHT_DELIM_JOIN" ->
                       Frame("probe", plan[Top.op].inner, Top.pipe, Top.meta, NoPipe)
                  [] plan[Top.op].type = "CTE" -> Build(Child(plan, Top.op, 2), Top.pipe, Top.meta)
           N == <<a, b, c>>
<1>1. /\ stack # <<>> /\ Top.do \in Placing /\ Top.do = "build" /\ plan[Top.op].type \in DelimJoins \cup {"CTE"}
      /\ plan' = plan /\ scanDeps' = scanDeps
      /\ CreateChildMetaPipeline(pipes) /\ stack' = N \o Tail(stack)
  BY DEF BuildProducer, Calls, Return, Placing
<1>2. /\ pipes \in Seq(PipeType) /\ metas \in Seq(MetaType) /\ Top.pipe \in DOMAIN pipes
      /\ NewPipe \in Nat /\ NewMeta \in Nat /\ Top.pipe \in Nat /\ Top.meta \in Nat /\ WellFormed(plan)
      /\ Top.op \in Nat /\ Top.op \in Ops(plan) /\ Top.op \notin JoinOps /\ Top.op # 1
      /\ Top.op \in OfType(plan, DelimJoins \cup {"CTE"}) /\ FrameSound(Top)
      /\ NewPipe \notin DOMAIN pipes /\ NoPipe \in Nat
  <2>1. Top.op \in OfType(plan, DelimJoins \cup {"CTE"})
    BY <1>1, PlaceFacts DEF OfType
  <2>2. Top.op # 1 /\ Top.op \notin JoinOps
    BY <1>1, TypeFacts
  <2> QED
    BY <1>1, <2>1, <2>2, PlaceFacts
<1>3. \A q \in DOMAIN pipes :
          /\ pipes[q].sink = pipes[q].sink
          /\ pipes[q].ops = pipes[q].ops \/ (q = Top.pipe /\ pipes[q].ops = Append(pipes[q].ops, Top.op))
          /\ pipes[q].source = pipes[q].source \/ (q = Top.pipe /\ pipes[q].source \in Ops(plan) \ JoinOps)
  OBVIOUS
<1>4. /\ Grows /\ Len(pipes') = NewPipe /\ pipes'[Top.pipe].ops = pipes[Top.pipe].ops
      /\ pipes'[Top.pipe].source = pipes[Top.pipe].source /\ NewPipe \in pipes'[Top.pipe].deps
      /\ \A p \in DOMAIN pipes : pipes[p].deps \subseteq pipes'[p].deps
  BY <1>1, <1>2, <1>3, GrowsMore
<1>5. Child(plan, Top.op, 1) \in Owned(plan, Top.op) /\ Child(plan, Top.op, 1) \in Nat
  BY <1>1, <1>2, OwnedByType, PlanFacts
<1>6. /\ a \in FrameType /\ a.do = "build" /\ a.op = Child(plan, Top.op, 1) /\ a.pipe = NewPipe /\ a.meta = NewMeta
  <2>1. Child(plan, Top.op, 1) \in Nat /\ NewPipe \in Nat /\ NewMeta \in Nat
    BY <1>2, <1>5
  <2> QED
    BY <2>1, BuildFacts
<1>7. /\ b \in FrameType /\ b.do = "scans" /\ b.op = Top.op /\ b.pipe = NewPipe /\ b.meta = NewMeta
  <2>1. Top.op \in Nat /\ NewPipe \in Nat /\ NewMeta \in Nat /\ NoPipe \in Nat
    BY <1>2, <1>5
  <2> QED
    BY <2>1 DEF Frame, FrameType
<1>8. /\ c \in FrameType /\ c.do \in Placing /\ c.pipe = Top.pipe /\ c.meta = Top.meta
      /\ c.op \in Owned(plan, Top.op) /\ c.op # Child(plan, Top.op, 1) /\ Reach(c.op) \subseteq Reach(Top.op)
      /\ c.do = "probe" <=> plan[Top.op].type = "RIGHT_DELIM_JOIN"
      /\ plan[Top.op].type = "RIGHT_DELIM_JOIN" => c.op = plan[Top.op].inner
  <2>1. CASE plan[Top.op].type = "LEFT_DELIM_JOIN"
    <3>1. c = Build(plan[Top.op].inner, Top.pipe, Top.meta)
      BY <2>1
    <3>2. /\ plan[Top.op].inner \in Owned(plan, Top.op) /\ plan[Top.op].inner # Child(plan, Top.op, 1)
          /\ plan[Top.op].inner \in Nat
      BY <1>2, <2>1, OwnedByType, PlanFacts DEF DelimJoins
    <3>5. Reach(plan[Top.op].inner) \subseteq Reach(Top.op)
      BY <1>2, <2>1, ReachFacts DEF DelimJoins
    <3>3. plan[Top.op].inner \in Nat /\ Top.pipe \in Nat /\ Top.meta \in Nat /\ NoPipe \in Nat
      BY <1>2, <3>2
    <3>4. LET f == Build(plan[Top.op].inner, Top.pipe, Top.meta)
          IN  f \in FrameType /\ f.do = "build" /\ f.op = plan[Top.op].inner /\ f.pipe = Top.pipe /\ f.meta = Top.meta
      BY <3>3, BuildFacts
    <3> HIDE DEF c
    <3> QED
      BY <2>1, <3>1, <3>2, <3>4, <3>5 DEF Placing
  <2>2. CASE plan[Top.op].type = "RIGHT_DELIM_JOIN"
    <3>1. c = Frame("probe", plan[Top.op].inner, Top.pipe, Top.meta, NoPipe)
      BY <2>2
    <3>2. /\ plan[Top.op].inner \in Owned(plan, Top.op) /\ plan[Top.op].inner # Child(plan, Top.op, 1)
          /\ plan[Top.op].inner \in Nat
      BY <1>2, <2>2, OwnedByType, PlanFacts DEF DelimJoins
    <3>5. Reach(plan[Top.op].inner) \subseteq Reach(Top.op)
      BY <1>2, <2>2, ReachFacts DEF DelimJoins
    <3>3. plan[Top.op].inner \in Nat /\ Top.pipe \in Nat /\ Top.meta \in Nat /\ NoPipe \in Nat
      BY <1>2, <3>2
    <3>4. LET f == Frame("probe", plan[Top.op].inner, Top.pipe, Top.meta, NoPipe)
          IN  f \in FrameType /\ f.do = "probe" /\ f.op = plan[Top.op].inner /\ f.pipe = Top.pipe /\ f.meta = Top.meta
      BY <3>3 DEF Frame, FrameType
    <3> HIDE DEF c
    <3> QED
      BY <2>2, <3>1, <3>2, <3>4, <3>5 DEF Placing
  <2>3. CASE plan[Top.op].type = "CTE"
    <3>1. c = Build(Child(plan, Top.op, 2), Top.pipe, Top.meta)
      BY <2>3
    <3>2. /\ Child(plan, Top.op, 2) \in Owned(plan, Top.op) /\ Child(plan, Top.op, 2) # Child(plan, Top.op, 1)
          /\ Child(plan, Top.op, 2) \in Nat
      BY <1>2, <2>3, OwnedByType, PlanFacts
    <3>5. Reach(Child(plan, Top.op, 2)) \subseteq Reach(Top.op)
      BY <1>2, <2>3, ReachFacts
    <3>3. Child(plan, Top.op, 2) \in Nat /\ Top.pipe \in Nat /\ Top.meta \in Nat /\ NoPipe \in Nat
      BY <1>2, <3>2
    <3>4. LET f == Build(Child(plan, Top.op, 2), Top.pipe, Top.meta)
          IN  f \in FrameType /\ f.do = "build" /\ f.op = Child(plan, Top.op, 2) /\ f.pipe = Top.pipe /\ f.meta = Top.meta
      BY <3>3, BuildFacts
    <3> HIDE DEF c
    <3> QED
      BY <2>3, <3>1, <3>2, <3>4, <3>5 DEF Placing
  <2> QED
    BY <1>1, <2>1, <2>2, <2>3 DEF DelimJoins
<1> HIDE DEF a, b, c
<1>9. N \in Seq(FrameType) /\ DOMAIN N = {1, 2, 3} /\ N[1] = a /\ N[2] = b /\ N[3] = c
  BY <1>6, <1>7, <1>8
<1> HIDE DEF N
<1>10. There(a) /\ There(b) /\ Here(c)
  BY <1>4, <1>6, <1>7, <1>8 DEF There, Here
<1>11. a.do \in Placing /\ b.do \notin Placing /\ a.do # "child" /\ b.do # "child" /\ c.do # "child"
       /\ a.do # "scans" /\ c.do # "scans"
  BY <1>6, <1>7, <1>8 DEF Placing
<1>12. NewFrames(N)
  <2>1. \A i \in DOMAIN N :
          /\ Here(N[i]) \/ There(N[i])
          /\ N[i].do \in Placing => N[i].op \in Owned(plan, Top.op)
          /\ N[i].do # "child"
          /\ N[i].do = "scans" =>
                N[i].op = Top.op /\ There(N[i]) /\ Top.op \in OfType(plan, DelimJoins \cup {"CTE"})
    BY <1>2, <1>5, <1>6, <1>7, <1>8, <1>9, <1>10, <1>11
  <2>2. \A i, k \in DOMAIN N : i < k =>
          /\ N[i].do \in Placing /\ N[k].do \in Placing => N[i].op # N[k].op /\ N[i].pipe # N[k].pipe
          /\ ~(N[i].do = "child" /\ N[k].do = "child")
    <3>1. a.op # c.op /\ a.pipe # c.pipe
      BY <1>2, <1>6, <1>8
    <3> QED
      BY <1>9, <1>11, <3>1
  <2>3. /\ \E i \in DOMAIN N : N[i].do \in Placing /\ N[i].pipe = NewPipe
        /\ \E i \in DOMAIN N : N[i].do \in Placing /\ N[i].pipe = Top.pipe
    BY <1>6, <1>8, <1>9, <1>11
  <2>4. \A i \in DOMAIN N : N[i].do \in Placing =>
          \/ \E k \in DOMAIN N : k < i /\ N[k].do = "scans"
          \/ N[i].op = Child(plan, Top.op, 1)
    BY <1>6, <1>7, <1>9, <1>11
  <2>5. \A i \in DOMAIN N : N[i].do \in Placing /\ N[i].pipe = Top.pipe => Reach(N[i].op) \subseteq Reach(Top.op)
    <3>1. a.pipe # Top.pipe
      BY <1>2, <1>6
    <3> QED
      BY <1>8, <1>9, <1>11, <3>1
  <2> QED
    BY <1>1, <1>2, <1>4, <1>9, <2>1, <2>2, <2>3, <2>4, <2>5 DEF NewFrames
<1>13. Feeds(N)
  <2>1. plan[Top.op].type \notin Joins /\ Input(plan, Top.op) = Child(plan, Top.op, 1)
    BY <1>1 DEF Joins, DelimJoins, Input
  <2>2. plan[Top.op].type = "RIGHT_DELIM_JOIN" => a.op # plan[Top.op].inner
    BY <1>6, <1>8
  <2>3. \A i \in DOMAIN N : N[i].do \in Placing =>
          /\ N[i].pipe = NewPipe => N[i].op = Input(plan, Top.op)
          /\ N[i].do = "probe" <=> plan[Top.op].type = "RIGHT_DELIM_JOIN" /\ N[i].op = plan[Top.op].inner
    BY <1>2, <1>6, <1>8, <1>9, <1>11, <2>1, <2>2
  <2> QED
    BY <1>1, <1>4, <2>1, <2>3 DEF Feeds
<1> QED
  BY <1>1, <1>4, <1>12, <1>13, GrowsInv, GrowsFed

-----------------------------------------------------------------------------
(***************************************************************************)
(* The actions that come after a call.                                     *)
(***************************************************************************)
\* Such an action takes its frame from the stack, and adds at most one pipeline.
Pops ==
    /\ stack # <<>> /\ Top.do \notin Placing /\ plan' = plan /\ stack' = <<>> \o Tail(stack)
    /\ \A p \in DOMAIN pipes : p \in DOMAIN pipes' /\ pipes'[p] = pipes[p]
    /\ \A p \in DOMAIN pipes' : p \in DOMAIN pipes \/ (Top.do = "child" /\ pipes'[p].source = Top.op)
    /\ DOMAIN metas' = DOMAIN metas
    /\ \A m \in DOMAIN metas : /\ metas'[m].sink = metas[m].sink /\ Base(m)' = Base(m)
                               /\ ToSet(metas[m].pipes) \subseteq ToSet(metas'[m].pipes)
    /\ Placed' \subseteq Placed

LEMMA PopsStack ==
    ASSUME BuildInv, Pops
    PROVE  /\ stack' \in Seq(FrameType) /\ DOMAIN stack = 1 .. Len(stack) /\ DOMAIN stack' = 1 .. Len(stack')
           /\ \A k \in DOMAIN stack' : k \in Nat /\ k + 1 \in DOMAIN stack /\ stack'[k] = stack[k + 1]
           /\ \A k \in DOMAIN stack : 1 < k => k - 1 \in DOMAIN stack' /\ stack'[k - 1] = stack[k]
           /\ stack[1] = Top /\ 1 \in DOMAIN stack
<1>1. stack # <<>> /\ stack \in Seq(FrameType) /\ stack' = <<>> \o Tail(stack)
  BY DEF Pops, BuildInv, BuildTyped
<1>2. stack' = Tail(stack) /\ Tail(stack) \in Seq(FrameType)
  BY <1>1
<1>3. Len(stack') = Len(stack) - 1 /\ \A k \in 1 .. Len(stack') : stack'[k] = stack[k + 1]
  BY <1>1, <1>2, HeadTailProperties
<1>4. DOMAIN stack = 1 .. Len(stack) /\ DOMAIN stack' = 1 .. Len(stack') /\ Len(stack) \in Nat /\ Len(stack) # 0
  BY <1>1, <1>2
<1>5. \A k \in DOMAIN stack' : k \in Nat /\ k + 1 \in DOMAIN stack /\ stack'[k] = stack[k + 1]
  BY <1>3, <1>4
<1>6. ASSUME NEW k \in DOMAIN stack, 1 < k PROVE k - 1 \in DOMAIN stack' /\ stack'[k - 1] = stack[k]
  <2>1. k - 1 \in DOMAIN stack' /\ (k - 1) + 1 = k
    BY <1>3, <1>4, <1>6
  <2> QED
    BY <1>5, <2>1
<1> QED
  BY <1>1, <1>2, <1>4, <1>5, <1>6, TopFacts

LEMMA PopsKeep ==
    ASSUME BuildInv, Pops
    PROVE  FramesSound' /\ SourcesComing' /\ ChildrenWait'
<1>0. stack # <<>> /\ plan' = plan /\ Top.do \notin Placing /\ FrameSound(Top)
  BY TopFacts DEF Pops
<1>1. JoinOps' = JoinOps /\ \A x : Subtree(plan')[x] = Sub(x)
  BY <1>0 DEF JoinOps, Sub
<1>2. ASSUME NEW k \in DOMAIN stack, 1 < k
      PROVE  /\ FrameSound(stack[k]) /\ Apart(Top, stack[k])
             /\ stack[k].meta \in DOMAIN metas /\ stack[k].pipe \in DOMAIN pipes
  <2>1. FrameSound(stack[k])
    BY DEF BuildInv, FramesSound
  <2>2. Apart(Top, stack[k])
    BY <1>2, PopsStack DEF BuildInv, FramesSound
  <2>3. stack[k].meta \in DOMAIN metas /\ stack[k].pipe = Base(stack[k].meta)
    BY <2>1 DEF FrameSound
  <2>4. MetaSound(stack[k].meta) /\ metas[stack[k].meta] \in MetaType
    BY <2>3 DEF BuildInv, BuildTyped, MetasSound
  <2>5. 1 \in DOMAIN metas[stack[k].meta].pipes /\ Base(stack[k].meta) = metas[stack[k].meta].pipes[1]
    BY <2>4 DEF MetaSound, MetaType, Base
  <2>6. stack[k].pipe \in DOMAIN pipes
    BY <2>3, <2>4, <2>5 DEF MetaSound
  <2> QED
    BY <2>1, <2>2, <2>3, <2>6
<1>3. ASSUME NEW k \in DOMAIN stack, 1 < k, NEW f, f = stack[k] PROVE FrameSound(f)'
  <2>1. FrameSound(f) /\ Apart(Top, f) /\ f.meta \in DOMAIN metas /\ f.pipe \in DOMAIN pipes
    BY <1>2, <1>3
  <2>2. f.op \in Ops(plan') /\ f.meta \in DOMAIN metas' /\ f.pipe = Base(f.meta)'
    BY <1>0, <2>1 DEF FrameSound, Pops
  <2>3. f.do \in Placing => Sub(f.op)' \cap Placed' = {} /\ \A d \in Ops(plan') : plan'[d].distinct # f.op
    <3>1. f.do \in Placing => Sub(f.op) \cap Placed = {} /\ \A d \in Ops(plan) : plan[d].distinct # f.op
      BY <2>1 DEF FrameSound
    <3>2. Sub(f.op)' = Sub(f.op) /\ Placed' \subseteq Placed
      BY <1>0 DEF Sub, Pops
    <3> QED
      BY <1>0, <3>1, <3>2
  <2>4. ASSUME f.do = "child"
        PROVE  /\ f.op \in JoinOps' /\ f.op \in ToSet(pipes'[f.pipe].ops)
               /\ f.last \in ToSet(metas'[f.meta].pipes)
               /\ \A p \in DOMAIN pipes' : pipes'[p].source # f.op
    <3>1. /\ f.op \in JoinOps /\ f.op \in ToSet(pipes[f.pipe].ops)
          /\ f.last \in ToSet(metas[f.meta].pipes)
          /\ \A p \in DOMAIN pipes : pipes[p].source # f.op
      BY <2>1, <2>4 DEF FrameSound
    <3>2. Top.do = "child" => Top.op # f.op
      BY <2>1, <2>4 DEF Apart
    <3> QED
      BY <1>1, <2>1, <3>1, <3>2 DEF Pops
  <2>5. f.do = "scans" => f.op \in OfType(plan', DelimJoins \cup {"CTE"}) /\ metas'[f.meta].sink = f.op
    BY <1>0, <2>1 DEF FrameSound, Pops
  <2> QED
    BY <2>2, <2>3, <2>4, <2>5 DEF FrameSound
<1>4. FramesSound'
  <2>1. ASSUME NEW k \in DOMAIN stack' PROVE FrameSound(stack[k])'
    <3>1. k + 1 \in DOMAIN stack /\ 1 < k + 1 /\ stack'[k] = stack[k + 1]
      BY PopsStack
    <3>2. \A g : g = stack[k + 1] => FrameSound(g)'
      BY <1>3, <3>1
    <3> QED
      BY <3>1, <3>2 DEF FrameSound
  <2>2. ASSUME NEW k \in DOMAIN stack', NEW l \in DOMAIN stack', k < l PROVE Apart(stack[k], stack[l])'
    <3>1. /\ k + 1 \in DOMAIN stack /\ stack'[k] = stack[k + 1]
          /\ l + 1 \in DOMAIN stack /\ stack'[l] = stack[l + 1]
          /\ k + 1 < l + 1
      BY <2>2, PopsStack
    <3>2. Apart(stack[k + 1], stack[l + 1])
      BY <3>1 DEF BuildInv, FramesSound
    <3> QED
      BY <1>1, <3>1, <3>2 DEF Apart, Sub
  <2> QED
    BY <2>1, <2>2 DEF FramesSound
<1>5. SourcesComing'
  <2> SUFFICES ASSUME NEW p \in DOMAIN pipes', pipes'[p].source \notin Ops(plan)
               PROVE  \E k \in DOMAIN stack' : stack'[k].do \in Placing /\ stack'[k].pipe = p
    BY <1>0 DEF SourcesComing
  <2>1. p \in DOMAIN pipes /\ pipes'[p] = pipes[p]
    <3>1. Top.op \in Ops(plan)
      BY <1>0 DEF FrameSound
    <3> QED
      BY <3>1 DEF Pops
  <2>2. PICK i \in DOMAIN stack : stack[i].do \in Placing /\ stack[i].pipe = p
    BY <2>1 DEF BuildInv, SourcesComing
  <2>3. 1 < i
    BY <1>0, <2>2, PopsStack
  <2> QED
    BY <2>2, <2>3, PopsStack
<1>6. ASSUME NEW k \in DOMAIN stack', NEW j, NEW p, Waits(k + 1, j, p)
      PROVE  \E l \in DOMAIN stack' : k < l /\ stack'[l].do = "child" /\ stack'[l].op = j /\ stack'[l].pipe = p
  <2>1. PICK l \in DOMAIN stack : k + 1 < l /\ stack[l].do = "child" /\ stack[l].op = j /\ stack[l].pipe = p
    BY <1>6 DEF Waits
  <2>2. 1 < l /\ k < l - 1
    BY <2>1, PopsStack
  <2> QED
    BY <2>1, <2>2, PopsStack
<1>7. ChildrenWait'
  <2>1. ASSUME NEW k \in DOMAIN stack'
        PROVE  /\ stack'[k].do \in Placing =>
                    \A j \in ToSet(pipes'[stack'[k].pipe].ops) \cap JoinOps' :
                      \E l \in DOMAIN stack' : k < l /\ stack'[l].do = "child" /\ stack'[l].op = j /\ stack'[l].pipe = stack'[k].pipe
               /\ stack'[k].do = "child" =>
                    \A a, b \in DOMAIN pipes'[stack'[k].pipe].ops :
                        (/\ a < b /\ pipes'[stack'[k].pipe].ops[b] = stack'[k].op
                         /\ pipes'[stack'[k].pipe].ops[a] \in JoinOps')
                            => \E l \in DOMAIN stack' : /\ k < l /\ stack'[l].do = "child"
                                                        /\ stack'[l].op = pipes'[stack'[k].pipe].ops[a]
                                                        /\ stack'[l].pipe = stack'[k].pipe
    <3>1. k + 1 \in DOMAIN stack /\ 1 < k + 1 /\ stack'[k] = stack[k + 1]
      BY PopsStack
    <3>2. pipes'[stack[k + 1].pipe] = pipes[stack[k + 1].pipe]
      BY <1>2, <3>1 DEF Pops
    <3>3. /\ stack[k + 1].do \in Placing =>
              \A j \in ToSet(pipes[stack[k + 1].pipe].ops) \cap JoinOps : Waits(k + 1, j, stack[k + 1].pipe)
          /\ stack[k + 1].do = "child" =>
              \A a, b \in DOMAIN pipes[stack[k + 1].pipe].ops :
                  (/\ a < b /\ pipes[stack[k + 1].pipe].ops[b] = stack[k + 1].op
                   /\ pipes[stack[k + 1].pipe].ops[a] \in JoinOps)
                      => Waits(k + 1, pipes[stack[k + 1].pipe].ops[a], stack[k + 1].pipe)
      BY <3>1 DEF BuildInv, ChildrenWait
    <3> QED
      BY <1>1, <1>6, <3>1, <3>2, <3>3
  <2> QED
    BY <2>1 DEF ChildrenWait, Waits
<1> QED
  BY <1>4, <1>5, <1>7

\* The scans below the frames that are left keep their producers.
LEMMA PopsScans ==
    ASSUME BuildInv, Pops,
           DOMAIN scanDeps' \subseteq Ops(plan), DOMAIN scanDeps \subseteq DOMAIN scanDeps',
           \A s \in DOMAIN scanDeps' :
              scanDeps'[s] \in DOMAIN pipes /\ pipes[scanDeps'[s]].sink \in ProducersOf(plan, s),
           Top.do = "scans" => plan[Top.op].scans \subseteq DOMAIN scanDeps'
    PROVE  ScansSound'
<1>0. stack # <<>> /\ plan' = plan /\ Top.do \notin Placing
  BY DEF Pops
<1>1. \A x : Subtree(plan')[x] = Sub(x)
  BY <1>0 DEF Sub
<1>2. ASSUME NEW k \in DOMAIN stack', stack'[k].do \in Placing,
             NEW s \in Sub(stack'[k].op) \cap OfType(plan, Scans)
      PROVE  \/ s \in DOMAIN scanDeps'
             \/ ProducersOf(plan, s) \subseteq Sub(stack'[k].op)
             \/ \E h \in DOMAIN stack' : h < k /\ stack'[h].do = "scans" /\ stack'[h].op \in ProducersOf(plan, s)
  <2>1. k \in Nat /\ k + 1 \in DOMAIN stack /\ stack'[k] = stack[k + 1]
    BY PopsStack
  <2>2. \/ s \in DOMAIN scanDeps
        \/ ProducersOf(plan, s) \subseteq Sub(stack[k + 1].op)
        \/ \E h \in DOMAIN stack : h < k + 1 /\ stack[h].do = "scans" /\ stack[h].op \in ProducersOf(plan, s)
    BY <1>2, <2>1 DEF BuildInv, ScansSound
  <2>3. ASSUME NEW h \in DOMAIN stack, h < k + 1, stack[h].do = "scans", stack[h].op \in ProducersOf(plan, s)
        PROVE  \/ s \in DOMAIN scanDeps'
               \/ \E g \in DOMAIN stack' : g < k /\ stack'[g].do = "scans" /\ stack'[g].op \in ProducersOf(plan, s)
    <3>1. CASE h = 1
      <4>1. stack[h] = Top
        BY <3>1, PopsStack
      <4>2. s \in plan[Top.op].scans
        BY <2>3, <4>1 DEF ProducersOf
      <4> QED
        BY <2>3, <4>1, <4>2
    <3>2. CASE h # 1
      <4>1. 1 < h /\ h - 1 < k
        BY <2>1, <2>3, <3>2, PopsStack
      <4>2. h - 1 \in DOMAIN stack' /\ stack'[h - 1] = stack[h]
        BY <4>1, PopsStack
      <4> QED
        BY <2>3, <4>1, <4>2
    <3> QED
      BY <3>1, <3>2
  <2> QED
    BY <2>1, <2>2, <2>3
<1>3. \A s \in DOMAIN scanDeps' :
          scanDeps'[s] \in DOMAIN pipes' /\ pipes'[scanDeps'[s]].sink \in ProducersOf(plan', s)
  BY <1>0 DEF Pops
<1>4. \A k \in DOMAIN stack' : stack'[k].do \in Placing =>
          \A s \in Subtree(plan')[stack'[k].op] \cap OfType(plan', Scans) :
              \/ s \in DOMAIN scanDeps'
              \/ ProducersOf(plan', s) \subseteq Subtree(plan')[stack'[k].op]
              \/ \E h \in DOMAIN stack' : h < k /\ stack'[h].do = "scans" /\ stack'[h].op \in ProducersOf(plan', s)
  BY <1>0, <1>1, <1>2
<1> QED
  BY <1>0, <1>3, <1>4 DEF ScansSound, Sub

\* Without a new pipeline, only the frame goes.
LEMMA PopsSame ==
    ASSUME BuildInv, Pops, pipes' = pipes, metas' = metas
    PROVE  BuildTyped' /\ OpsSound' /\ MetasSound' /\ PathsSound'
<1>1. plan' = plan /\ pipes' = pipes /\ metas' = metas /\ stack # <<>> /\ Top.do \notin Placing
  BY DEF Pops
<1>2. OpsSound'
  <2>1. JoinOps' = JoinOps /\ Placed' = Placed
    BY <1>1 DEF JoinOps, Placed
  <2>2. \A m \in DOMAIN metas : Base(m)' = Base(m)
    BY <1>1 DEF Base
  <2>3. /\ \A p \in DOMAIN pipes : IsInjective(pipes[p].ops)
        /\ \A p, q \in DOMAIN pipes :
              ToSet(pipes[p].ops) \cap ToSet(pipes[q].ops) # {} => pipes[p].sink = pipes[q].sink
    BY DEF BuildInv, OpsSound
  <2>4. \A p \in DOMAIN pipes : pipes[p].source \in JoinOps =>
          /\ pipes[p].source \in Placed
          /\ \A m \in DOMAIN metas : p # Base(m)
          /\ \A q \in DOMAIN pipes : pipes[p].source \in ToSet(pipes[q].ops) =>
                q < p /\ pipes[q].sink = pipes[p].sink
    BY DEF BuildInv, OpsSound
  <2>5. \A m \in DOMAIN metas' : \A p \in DOMAIN pipes : p # Base(m) => p # Base(m)'
    BY <1>1, <2>2
  <2>6. \A p \in DOMAIN pipes' : pipes'[p].source \in JoinOps' => \A m \in DOMAIN metas' : p # Base(m)'
    BY <1>1, <2>1, <2>4, <2>5
  <2>7. \A p \in DOMAIN pipes' : pipes'[p].source \in JoinOps' =>
          /\ pipes'[p].source \in Placed'
          /\ \A q \in DOMAIN pipes' : pipes'[p].source \in ToSet(pipes'[q].ops) =>
                q < p /\ pipes'[q].sink = pipes'[p].sink
    BY <1>1, <2>1, <2>4
  <2>8. /\ \A p \in DOMAIN pipes' : IsInjective(pipes'[p].ops)
        /\ \A p, q \in DOMAIN pipes' :
              ToSet(pipes'[p].ops) \cap ToSet(pipes'[q].ops) # {} => pipes'[p].sink = pipes'[q].sink
    BY <1>1, <2>3
  <2> QED
    BY <2>6, <2>7, <2>8 DEF OpsSound
<1>3. MetasSound'
  <2>1. stack # <<Build(1, 1, 1)>>
    BY <1>1 DEF Top, Build, Frame, Placing, Pops
  <2> QED
    BY <1>1, <2>1 DEF BuildInv, MetasSound, MetaSound
<1>4. BuildTyped'
  BY <1>1, PopsStack DEF BuildInv, BuildTyped
<1>5. PathsSound'
  <2>1. /\ \A p \in DOMAIN pipes : \A a, b \in DOMAIN pipes[p].ops :
              a < b => pipes[p].ops[b] \in Reach(pipes[p].ops[a])
        /\ \A i \in DOMAIN stack : stack[i].do \in Placing =>
              \A o \in ToSet(pipes[stack[i].pipe].ops) : Reach(stack[i].op) \subseteq Reach(o)
        /\ \A p \in DOMAIN pipes : pipes[p].source \in JoinOps =>
              IsSource(pipes[p].source) /\ \A o \in ToSet(pipes[p].ops) : pipes[p].source \in Reach(o)
        /\ \A m \in DOMAIN metas : \A i \in DOMAIN metas[m].pipes :
              i = 1 \/ pipes[metas[m].pipes[i]].source \in JoinOps
    BY <1>1 DEF BuildInv, PathsSound
  <2>2. /\ \A x : Reach(x)' = Reach(x)
        /\ JoinOps' = JoinOps
        /\ \A x : IsSource(x)' <=> IsSource(x)
    BY <1>1 DEF Reach, JoinOps, IsSource
  <2>3. \A k \in DOMAIN stack' : stack'[k].do \in Placing =>
              \A o \in ToSet(pipes[stack'[k].pipe].ops) : Reach(stack'[k].op) \subseteq Reach(o)
    BY <2>1, PopsStack
  <2> QED
    BY <1>1, <2>1, <2>2, <2>3 DEF PathsSound
<1> QED
  BY <1>2, <1>3, <1>4, <1>5

\* What the pipelines wait for stays.
LEMMA PopsFed ==
    ASSUME BuildInv, FeedInv, Pops
    PROVE  /\ FramesFed' /\ SinksFed'
           /\ \A m \in DOMAIN metas : \A p \in ToSet(metas[m].pipes) : PipeFed(m, p)'
<1>0. /\ stack # <<>> /\ plan' = plan /\ DOMAIN metas' = DOMAIN metas
      /\ \A p \in DOMAIN pipes : p \in DOMAIN pipes' /\ pipes'[p] = pipes[p]
      /\ \A m \in DOMAIN metas : metas'[m].sink = metas[m].sink /\ Base(m)' = Base(m)
  BY DEF Pops
<1>1. /\ \A x : Reach(x)' = Reach(x)
      /\ \A x : Delims(x)' = Delims(x)
      /\ JoinOps' = JoinOps
  BY <1>0 DEF Reach, Delims, JoinOps
<1>2. ASSUME NEW p \in DOMAIN pipes, NEW s, Dep(p, s) PROVE Dep(p, s)'
  BY <1>0, <1>2 DEF Dep
<1>3. ASSUME NEW m \in DOMAIN metas, NEW p \in ToSet(metas[m].pipes) PROVE p \in DOMAIN pipes /\ Base(m) \in DOMAIN pipes
  BY MetaFacts
<1>4. FramesFed'
  <2>1. ASSUME NEW k \in DOMAIN stack', NEW f, f = stack'[k] PROVE FrameFed(f)'
    <3>1. k + 1 \in DOMAIN stack /\ f = stack[k + 1]
      BY <2>1, PopsStack
    <3>2. FrameFed(f) /\ FrameSound(f)
      BY <3>1 DEF BuildInv, FramesSound, FeedInv, FramesFed
    <3>3. f.pipe \in DOMAIN pipes
      <4>1. f.meta \in DOMAIN metas /\ f.pipe = Base(f.meta)
        BY <3>2 DEF FrameSound
      <4> QED
        BY <4>1, MetaFacts
    <3>4. f.do \in Placing => \A d \in Delims(f.op) : Dep(f.pipe, d)'
      BY <1>2, <3>2, <3>3 DEF FrameFed
    <3> QED
      BY <1>0, <1>1, <3>2, <3>3, <3>4 DEF FrameFed
  <2> QED
    BY <2>1 DEF FramesFed
<1>5. SinksFed'
  <2>1. ASSUME NEW s, SinkFed(s) PROVE SinkFed(s)'
    BY <1>0, <2>1 DEF SinkFed
  <2> QED
    BY <1>0, <2>1 DEF FeedInv, SinksFed
<1>6. ASSUME NEW m \in DOMAIN metas, NEW p \in ToSet(metas[m].pipes) PROVE PipeFed(m, p)'
  <2>1. PipeFed(m, p)
    BY DEF FeedInv, PipesFed
  <2>2. p \in DOMAIN pipes /\ Base(m) \in DOMAIN pipes /\ pipes'[p] = pipes[p] /\ Base(m)' = Base(m)
    BY <1>0, <1>3
  <2>3. Reads(p)' = Reads(p)
    BY <1>0, <2>2 DEF Reads
  <2>4. \A r \in Reads(p) : plan[r].type \in Readable /\ \A s \in FilledBy(plan, r) : \A x : x = Base(m) => Dep(x, s)'
    BY <1>2, <2>1, <2>2 DEF PipeFed
  <2>5. /\ ToSet(pipes[p].ops) \subseteq OfType(plan, Streams \cup Joins)
        /\ pipes[p].sink # NoOp =>
              ToSet(pipes[p].ops) \cup ({pipes[p].source} \cap JoinOps) \subseteq ToSet(Way(plan, pipes[p].sink))
    BY <2>1 DEF PipeFed
  <2>6. \A r \in Reads(p)' : plan'[r].type \in Readable /\ \A s \in FilledBy(plan', r) : Dep(Base(m), s)'
    <3>1. \A s : (\A x : x = Base(m) => Dep(x, s)') => Dep(Base(m), s)'
      BY <2>2 DEF Dep
    <3> QED
      BY <1>0, <2>3, <2>4, <3>1
  <2> QED
    BY <1>0, <1>1, <2>2, <2>5, <2>6 DEF PipeFed
<1> QED
  BY <1>4, <1>5, <1>6

LEMMA PopsSameFed ==
    ASSUME BuildInv, Pops, pipes' = pipes, metas' = metas
    PROVE  FeedInv => FeedInv'
<1> SUFFICES ASSUME FeedInv PROVE FeedInv'
  OBVIOUS
<1>1. FramesFed' /\ SinksFed' /\ \A m \in DOMAIN metas : \A p \in ToSet(metas[m].pipes) : PipeFed(m, p)'
  BY PopsFed
<1>2. \A m \in DOMAIN metas' : \A p \in ToSet(metas'[m].pipes) : PipeFed(m, p)'
  BY <1>1
<1>3. PipesFed'
  BY <1>2 DEF PipesFed
<1> QED
  BY <1>1, <1>3 DEF FeedInv

LEMMA RegisterStep ==
    ASSUME BuildInv, RegisterScans
    PROVE  BuildInv' /\ (FeedInv => FeedInv')
<1>1. /\ stack # <<>> /\ Top.do = "scans" /\ stack' = <<>> \o Tail(stack)
      /\ plan' = plan /\ metas' = metas /\ pipes' = pipes
      /\ scanDeps' = [s \in DOMAIN scanDeps \cup plan[Top.op].scans |->
                        IF s \in DOMAIN scanDeps THEN scanDeps[s] ELSE Base(Top.meta)]
  BY DEF RegisterScans, Calls, Return
<1>2. Pops
  BY <1>1 DEF Pops, Placing, Base, Placed
<1>3. /\ WellFormed(plan) /\ Top.op \in Ops(plan) /\ Base(Top.meta) \in DOMAIN pipes
      /\ pipes[Base(Top.meta)].sink = Top.op
  BY <1>1, TopFacts DEF FrameSound
<1>4. plan[Top.op].scans \subseteq Ops(plan)
  <2>1. CASE plan[Top.op].type \in DelimJoins
    <3>1. HasDelimShape(plan, Top.op)
      BY <1>3, <2>1 DEF WellFormed, OfType
    <3> QED
      BY <3>1 DEF HasDelimShape, OfType
  <2>2. CASE plan[Top.op].type = "CTE"
    BY <1>3, <2>2 DEF WellFormed, OfType
  <2>3. plan[Top.op].type \in DelimJoins \cup {"CTE"}
    BY <1>1 DEF RegisterScans, Calls
  <2> QED
    BY <2>1, <2>2, <2>3
<1>5. /\ DOMAIN scanDeps' = DOMAIN scanDeps \cup plan[Top.op].scans
      /\ \A s \in DOMAIN scanDeps' : scanDeps'[s] = IF s \in DOMAIN scanDeps THEN scanDeps[s] ELSE Base(Top.meta)
  BY <1>1
<1>6. /\ DOMAIN scanDeps \subseteq Ops(plan)
      /\ \A s \in DOMAIN scanDeps :
            scanDeps[s] \in DOMAIN pipes /\ pipes[scanDeps[s]].sink \in ProducersOf(plan, s)
  BY DEF BuildInv, ScansSound
<1>7. \A s \in DOMAIN scanDeps' :
          scanDeps'[s] \in DOMAIN pipes /\ pipes[scanDeps'[s]].sink \in ProducersOf(plan, s)
  <2> TAKE s \in DOMAIN scanDeps'
  <2>1. CASE s \in DOMAIN scanDeps
    BY <1>5, <1>6, <2>1
  <2>2. CASE s \notin DOMAIN scanDeps
    BY <1>3, <1>5, <2>2 DEF ProducersOf
  <2> QED
    BY <2>1, <2>2
<1>8. ScansSound'
  BY <1>2, <1>4, <1>5, <1>6, <1>7, PopsScans
<1> QED
  BY <1>1, <1>2, <1>8, PopsSame, PopsKeep, PopsSameFed DEF BuildInv

\* What CreateChildPipeline makes of the operators above the join.
LEMMA PrefixFacts ==
    ASSUME NEW s \in Seq(Nat), NEW x \in ToSet(s), IsInjective(s)
    PROVE  /\ PlaceOf(x, s) \in DOMAIN s /\ s[PlaceOf(x, s)] = x
           /\ SubSeq(s, 1, PlaceOf(x, s) - 1) \in Seq(Nat)
           /\ IsInjective(SubSeq(s, 1, PlaceOf(x, s) - 1))
           /\ \A y \in ToSet(SubSeq(s, 1, PlaceOf(x, s) - 1)) :
                 y # x /\ \E a \in DOMAIN s : a < PlaceOf(x, s) /\ s[a] = y
           /\ \A a \in DOMAIN SubSeq(s, 1, PlaceOf(x, s) - 1) :
                 a \in DOMAIN s /\ SubSeq(s, 1, PlaceOf(x, s) - 1)[a] = s[a]
<1>1. \E i \in DOMAIN s : s[i] = x
  BY DEF ToSet
<1> DEFINE i == PlaceOf(x, s)
           t == SubSeq(s, 1, i - 1)
<1>2. i \in DOMAIN s /\ s[i] = x
  BY <1>1 DEF PlaceOf
<1>3. DOMAIN s = 1 .. Len(s) /\ Len(s) \in Nat /\ i \in Nat /\ 1 <= i /\ i <= Len(s)
  BY <1>2
<1> HIDE DEF i
<1>4. i - 1 \in Nat /\ \A k \in 1 .. i - 1 : k \in DOMAIN s /\ s[k] \in Nat
  BY <1>3
<1>5. t \in Seq(Nat) /\ DOMAIN t = 1 .. i - 1 /\ \A k \in 1 .. i - 1 : t[k] = s[k]
  BY <1>3, <1>4
<1> HIDE DEF t
<1>6. IsInjective(t)
  BY <1>4, <1>5 DEF IsInjective
<1>7. ASSUME NEW y \in ToSet(t) PROVE y # x /\ \E a \in DOMAIN s : a < i /\ s[a] = y
  <2>1. PICK a \in 1 .. i - 1 : t[a] = y
    BY <1>5 DEF ToSet
  <2>2. a \in DOMAIN s /\ s[a] = y /\ a < i
    BY <1>3, <1>4, <1>5, <2>1
  <2>3. a # i
    BY <1>3, <2>2
  <2>4. y # x
    BY <1>2, <2>2, <2>3 DEF IsInjective
  <2> QED
    BY <2>2, <2>4
<1>8. \A a \in DOMAIN t : a \in DOMAIN s /\ t[a] = s[a]
  BY <1>4, <1>5
<1> QED
  BY <1>2, <1>5, <1>6, <1>7, <1>8 DEF i, t

\* The pipelines created since the one that was the last.
LEMMA SinceFacts ==
    ASSUME NEW s \in Seq(Nat), NEW x \in ToSet(s)
    PROVE  ToSet(SubSeq(s, PlaceOf(x, s) + 1, Len(s))) \subseteq Nat
<1>1. \E i \in DOMAIN s : s[i] = x
  BY DEF ToSet
<1> DEFINE i == PlaceOf(x, s)
           t == SubSeq(s, i + 1, Len(s))
<1>2. i \in DOMAIN s
  BY <1>1 DEF PlaceOf
<1> HIDE DEF i
<1>3. i + 1 \in Int /\ Len(s) \in Int /\ \A k \in i + 1 .. Len(s) : s[k] \in Nat
  BY <1>2
<1>4. t \in Seq(Nat)
  BY <1>3, SubSeqProperties
<1> HIDE DEF t
<1>5. ToSet(t) \subseteq Nat
  BY <1>4 DEF ToSet
<1> QED
  BY <1>5 DEF i, t

\* What the new pipeline of a join looks like.
ChildAdded ==
    /\ stack # <<>> /\ Top.do = "child" /\ stack' = <<>> \o Tail(stack) /\ plan' = plan /\ scanDeps' = scanDeps
    /\ pipes' \in Seq(PipeType) /\ metas' \in Seq(MetaType)
    /\ DOMAIN pipes' = DOMAIN pipes \cup {NewPipe} /\ NewPipe \notin DOMAIN pipes /\ NewPipe \in Nat
    /\ \A p \in DOMAIN pipes : pipes'[p] = pipes[p] /\ p < NewPipe
    /\ pipes'[NewPipe].source = Top.op /\ pipes'[NewPipe].sink = pipes[Top.pipe].sink
    /\ IsInjective(pipes'[NewPipe].ops)
    /\ \A a \in DOMAIN pipes'[NewPipe].ops :
          a \in DOMAIN pipes[Top.pipe].ops /\ pipes'[NewPipe].ops[a] = pipes[Top.pipe].ops[a]
    /\ \A y \in ToSet(pipes'[NewPipe].ops) :
          /\ y # Top.op
          /\ \E a, b \in DOMAIN pipes[Top.pipe].ops :
                a < b /\ pipes[Top.pipe].ops[b] = Top.op /\ pipes[Top.pipe].ops[a] = y
    /\ DOMAIN metas' = DOMAIN metas /\ Len(metas') = Len(metas)
    /\ \A m \in DOMAIN metas :
          /\ metas'[m].sink = metas[m].sink /\ metas'[m].kids = metas[m].kids
          /\ metas'[m].pipes = IF m = Top.meta THEN Append(metas[m].pipes, NewPipe) ELSE metas[m].pipes

LEMMA ChildAdds ==
    ASSUME BuildInv, CreateChildPipeline, IsSource(Top.op)
    PROVE  ChildAdded
<1> DEFINE c == pipes[Top.pipe]
           mine == metas[Top.meta].pipes
           since == SubSeq(mine, PlaceOf(Top.last, mine) + 1, Len(mine))
           prefix == SubSeq(c.ops, 1, PlaceOf(Top.op, c.ops) - 1)
           new == [source |-> Top.op, ops |-> prefix, sink |-> c.sink, deps |-> {},
                   after |-> {Top.pipe} \cup ToSet(since)]
<1>1. /\ stack # <<>> /\ Top.do = "child" /\ stack' = <<>> \o Tail(stack) /\ plan' = plan /\ scanDeps' = scanDeps
      /\ pipes' = Append(pipes, new)
      /\ metas' = [metas EXCEPT ![Top.meta].pipes = Append(@, NewPipe)]
  BY DEF CreateChildPipeline, Calls, Return
<1>2. /\ pipes \in Seq(PipeType) /\ metas \in Seq(MetaType) /\ Top.pipe \in DOMAIN pipes
      /\ Top.meta \in DOMAIN metas /\ mine \in Seq(Nat) /\ FrameSound(Top) /\ Top.op \in Nat
  BY <1>1, TopFacts DEF BuildInv, BuildTyped
<1>3. c \in PipeType /\ IsInjective(c.ops) /\ metas[Top.meta] \in MetaType /\ DOMAIN pipes = 1 .. Len(pipes) /\ Len(pipes) \in Nat
  BY <1>2 DEF BuildInv, OpsSound
<1>4. c.ops \in Seq(Nat) /\ c.sink \in Nat /\ Top.pipe \in Nat
  BY <1>2, <1>3 DEF PipeType
<1>5. Top.op \in ToSet(c.ops) /\ Top.last \in ToSet(mine)
  BY <1>1, <1>2 DEF FrameSound
<1>6. /\ PlaceOf(Top.op, c.ops) \in DOMAIN c.ops /\ c.ops[PlaceOf(Top.op, c.ops)] = Top.op
      /\ prefix \in Seq(Nat) /\ IsInjective(prefix) /\ \A a \in DOMAIN prefix : a \in DOMAIN c.ops /\ prefix[a] = c.ops[a]
      /\ \A y \in ToSet(prefix) : y # Top.op /\ \E a \in DOMAIN c.ops : a < PlaceOf(Top.op, c.ops) /\ c.ops[a] = y
  BY <1>3, <1>4, <1>5, PrefixFacts
<1>7. ToSet(since) \subseteq Nat
  BY <1>2, <1>5, SinceFacts
<1> HIDE DEF since, prefix
<1>8. new \in PipeType /\ new.source = Top.op /\ new.sink = c.sink /\ new.ops = prefix
  BY <1>2, <1>4, <1>6, <1>7 DEF PipeType
<1> HIDE DEF new
<1>9. /\ pipes' \in Seq(PipeType) /\ DOMAIN pipes' = 1 .. Len(pipes) + 1
      /\ \A p \in DOMAIN pipes : pipes'[p] = pipes[p]
      /\ pipes'[Len(pipes) + 1] = new
  BY <1>1, <1>2, <1>8, AppendFacts
<1>10. /\ DOMAIN pipes' = DOMAIN pipes \cup {NewPipe} /\ NewPipe \notin DOMAIN pipes /\ NewPipe \in Nat
       /\ \A p \in DOMAIN pipes : p < NewPipe
       /\ pipes'[NewPipe] = new
  BY <1>3, <1>9 DEF NewPipe
<1> DEFINE grown == [metas[Top.meta] EXCEPT !.pipes = Append(mine, NewPipe)]
<1>11. grown \in MetaType /\ grown.sink = metas[Top.meta].sink /\ grown.kids = metas[Top.meta].kids
       /\ grown.pipes = Append(mine, NewPipe)
  <2>1. Append(mine, NewPipe) \in Seq(Nat)
    BY <1>2, <1>10, AppendFacts
  <2> QED
    BY <1>3, <2>1 DEF MetaType
<1>12. metas' = [metas EXCEPT ![Top.meta] = grown]
  BY <1>1
<1> HIDE DEF grown
<1>13. /\ metas' \in Seq(MetaType) /\ Len(metas') = Len(metas) /\ metas'[Top.meta] = grown
       /\ \A m \in DOMAIN metas : m # Top.meta => metas'[m] = metas[m]
       /\ DOMAIN metas' = DOMAIN metas
  BY <1>2, <1>11, <1>12, ExceptFacts
<1>14. \A m \in DOMAIN metas :
          /\ metas'[m].sink = metas[m].sink /\ metas'[m].kids = metas[m].kids
          /\ metas'[m].pipes = IF m = Top.meta THEN Append(metas[m].pipes, NewPipe) ELSE metas[m].pipes
  BY <1>11, <1>13
<1>15. /\ pipes'[NewPipe].source = Top.op /\ pipes'[NewPipe].sink = pipes[Top.pipe].sink
       /\ IsInjective(pipes'[NewPipe].ops)
       /\ \A a \in DOMAIN pipes'[NewPipe].ops :
             a \in DOMAIN pipes[Top.pipe].ops /\ pipes'[NewPipe].ops[a] = pipes[Top.pipe].ops[a]
       /\ \A y \in ToSet(pipes'[NewPipe].ops) :
             /\ y # Top.op
             /\ \E a, b \in DOMAIN pipes[Top.pipe].ops :
                   a < b /\ pipes[Top.pipe].ops[b] = Top.op /\ pipes[Top.pipe].ops[a] = y
  BY <1>6, <1>8, <1>10
<1> QED
  BY <1>1, <1>9, <1>10, <1>13, <1>14, <1>15 DEF ChildAdded

\* The operators of the new pipeline are operators of the one that it is cut from.
LEMMA ChildPrefix ==
    ASSUME ChildAdded
    PROVE  ToSet(pipes'[NewPipe].ops) \subseteq ToSet(pipes[Top.pipe].ops) /\ Top.op \notin ToSet(pipes'[NewPipe].ops)
<1>1. \A y \in ToSet(pipes'[NewPipe].ops) : y # Top.op /\ \E a \in DOMAIN pipes[Top.pipe].ops : pipes[Top.pipe].ops[a] = y
  BY DEF ChildAdded
<1>2. \A a \in DOMAIN pipes[Top.pipe].ops : pipes[Top.pipe].ops[a] \in ToSet(pipes[Top.pipe].ops)
  BY DEF ToSet
<1> QED
  BY <1>1, <1>2

LEMMA ChildPops ==
    ASSUME BuildInv, ChildAdded
    PROVE  Pops /\ Placed' = Placed /\ JoinOps' = JoinOps
<1>1. stack # <<>> /\ Top.do = "child" /\ stack' = <<>> \o Tail(stack) /\ plan' = plan
  BY DEF ChildAdded
<1>2. \A m \in DOMAIN metas : Base(m)' = Base(m) /\ ToSet(metas[m].pipes) \subseteq ToSet(metas'[m].pipes)
  <2> TAKE m \in DOMAIN metas
  <2>1. MetaSound(m) /\ metas[m] \in MetaType
    BY DEF BuildInv, BuildTyped, MetasSound
  <2>2. metas[m].pipes \in Seq(Nat) /\ metas[m].pipes # <<>> /\ NewPipe \in Nat
    BY <2>1 DEF MetaType, MetaSound, ChildAdded
  <2>3. metas'[m].pipes = metas[m].pipes \/ metas'[m].pipes = Append(metas[m].pipes, NewPipe)
    BY DEF ChildAdded
  <2>4. 1 \in DOMAIN metas[m].pipes /\ Head(metas[m].pipes) = metas[m].pipes[1]
    BY <2>2
  <2>5. /\ ToSet(Append(metas[m].pipes, NewPipe)) = ToSet(metas[m].pipes) \cup {NewPipe}
        /\ Append(metas[m].pipes, NewPipe) \in Seq(Nat)
        /\ Append(metas[m].pipes, NewPipe)[1] = metas[m].pipes[1]
    BY <2>2, <2>4, AppendFacts
  <2>6. Head(metas'[m].pipes) = Head(metas[m].pipes)
    BY <2>3, <2>4, <2>5
  <2>7. Base(m)' = Base(m)
    BY <2>6 DEF Base
  <2> QED
    BY <2>3, <2>5, <2>7
<1>3. JoinOps' = JoinOps
  BY <1>1 DEF JoinOps
<1>4. ToSet(pipes'[NewPipe].ops) \subseteq ToSet(pipes[Top.pipe].ops) /\ Top.pipe \in DOMAIN pipes
  BY <1>1, TopFacts, ChildPrefix DEF ChildAdded
<1>5. Placed' = Placed
  <2>1. {metas'[m].sink : m \in DOMAIN metas'} = {metas[m].sink : m \in DOMAIN metas}
    <3>1. DOMAIN metas' = DOMAIN metas /\ \A m \in DOMAIN metas : metas'[m].sink = metas[m].sink
      BY DEF ChildAdded
    <3> QED
      BY <3>1
  <2>2. UNION {ToSet(pipes'[p].ops) : p \in DOMAIN pipes'} = UNION {ToSet(pipes[p].ops) : p \in DOMAIN pipes}
    BY <1>4 DEF ChildAdded
  <2> QED
    BY <2>1, <2>2 DEF Placed
<1>6. /\ \A p \in DOMAIN pipes : p \in DOMAIN pipes' /\ pipes'[p] = pipes[p]
      /\ \A p \in DOMAIN pipes' : p \in DOMAIN pipes \/ (Top.do = "child" /\ pipes'[p].source = Top.op)
      /\ DOMAIN metas' = DOMAIN metas /\ \A m \in DOMAIN metas : metas'[m].sink = metas[m].sink
  BY <1>1 DEF ChildAdded
<1> QED
  BY <1>1, <1>2, <1>3, <1>5, <1>6 DEF Pops, Placing

LEMMA ChildMetas ==
    ASSUME BuildInv, ChildAdded
    PROVE  MetasSound'
<1>1. /\ stack # <<>> /\ Top.do = "child" /\ plan' = plan /\ DOMAIN metas' = DOMAIN metas /\ Len(metas') = Len(metas)
      /\ metas' \in Seq(MetaType) /\ metas \in Seq(MetaType)
  BY DEF ChildAdded, BuildInv, BuildTyped
<1>2. /\ Top.meta \in DOMAIN metas /\ metas[Top.meta].pipes \in Seq(Nat)
      /\ pipes[Top.pipe].sink = metas[Top.meta].sink
  BY <1>1, TopFacts
<1>3. \A m \in DOMAIN metas : metas'[m].sink = metas[m].sink /\ metas'[m].kids = metas[m].kids
  BY DEF ChildAdded
<1>4. ASSUME NEW m \in DOMAIN metas PROVE MetaSound(m)'
  <2>1. MetaSound(m)
    BY DEF BuildInv, MetasSound
  <2>2. /\ \A i \in DOMAIN metas[m].kids : metas[m].kids[i] \in m + 1 .. Len(metas)
        /\ IF m = 1 THEN metas[m].sink = NoOp ELSE metas[m].sink \in Ops(plan)
    BY <2>1 DEF MetaSound
  <2>3. /\ metas[m].pipes # <<>>
        /\ \A i \in DOMAIN metas[m].pipes :
              /\ metas[m].pipes[i] \in DOMAIN pipes'
              /\ pipes'[metas[m].pipes[i]].sink = metas[m].sink
              /\ metas[m].pipes[i] < NewPipe
        /\ \A i, k \in DOMAIN metas[m].pipes : i < k => metas[m].pipes[i] < metas[m].pipes[k]
    BY <2>1 DEF MetaSound, ChildAdded
  <2>4. /\ metas'[m].pipes # <<>>
        /\ \A i \in DOMAIN metas'[m].pipes :
              /\ metas'[m].pipes[i] \in DOMAIN pipes'
              /\ pipes'[metas'[m].pipes[i]].sink = metas'[m].sink
        /\ \A i, k \in DOMAIN metas'[m].pipes : i < k => metas'[m].pipes[i] < metas'[m].pipes[k]
    <3>1. CASE m # Top.meta
      <4>1. metas'[m].pipes = metas[m].pipes
        BY <3>1 DEF ChildAdded
      <4> QED
        BY <1>3, <2>3, <4>1
    <3>2. CASE m = Top.meta
      <4> DEFINE s == metas[m].pipes
                 t == metas'[m].pipes
      <4>1. s \in Seq(Nat) /\ t = Append(s, NewPipe) /\ NewPipe \in Nat
        BY <1>2, <3>2 DEF ChildAdded
      <4>2. /\ t \in Seq(Nat) /\ DOMAIN t = 1 .. Len(s) + 1 /\ DOMAIN s = 1 .. Len(s) /\ Len(s) \in Nat
            /\ \A i \in DOMAIN s : t[i] = s[i]
            /\ t[Len(s) + 1] = NewPipe
        BY <4>1, AppendFacts
      <4>3. \A i \in DOMAIN t : i \in DOMAIN s \/ i = Len(s) + 1
        BY <4>2
      <4>4. NewPipe \in DOMAIN pipes' /\ pipes'[NewPipe].sink = metas[m].sink
        BY <1>2, <3>2 DEF ChildAdded
      <4> HIDE DEF t
      <4>5. \A i \in DOMAIN t : t[i] \in DOMAIN pipes' /\ pipes'[t[i]].sink = metas[m].sink
        BY <2>3, <4>2, <4>3, <4>4
      <4>6. \A i, k \in DOMAIN t : i < k => t[i] < t[k]
        <5> TAKE i \in DOMAIN t, k \in DOMAIN t
        <5> HAVE i < k
        <5>1. i \in DOMAIN s
          BY <4>2
        <5>2. CASE k \in DOMAIN s
          BY <2>3, <4>2, <5>1, <5>2
        <5>3. CASE k = Len(s) + 1
          BY <2>3, <4>2, <5>1, <5>3
        <5> QED
          BY <4>3, <5>2, <5>3
      <4>7. t # <<>>
        BY <4>2
      <4>8. metas'[m].sink = metas[m].sink
        BY <1>3
      <4> QED
        BY <4>5, <4>6, <4>7, <4>8 DEF t
    <3> QED
      BY <3>1, <3>2
  <2>5. /\ \A i \in DOMAIN metas'[m].kids : metas'[m].kids[i] \in m + 1 .. Len(metas')
        /\ IF m = 1 THEN metas'[m].sink = NoOp ELSE metas'[m].sink \in Ops(plan')
    BY <1>1, <1>3, <2>2
  <2> QED
    BY <2>4, <2>5 DEF MetaSound
<1>5. \A p \in DOMAIN pipes' : \E m \in DOMAIN metas' : p \in ToSet(metas'[m].pipes)
  <2> TAKE p \in DOMAIN pipes'
  <2>1. CASE p \in DOMAIN pipes
    <3>1. PICK m \in DOMAIN metas : p \in ToSet(metas[m].pipes)
      BY <2>1 DEF BuildInv, MetasSound
    <3>2. ToSet(metas[m].pipes) \subseteq ToSet(metas'[m].pipes)
      BY ChildPops DEF Pops
    <3> QED
      BY <1>1, <3>1, <3>2
  <2>2. CASE p = NewPipe
    <3>1. metas'[Top.meta].pipes = Append(metas[Top.meta].pipes, NewPipe) /\ NewPipe \in Nat
      BY <1>2 DEF ChildAdded
    <3>2. NewPipe \in ToSet(metas'[Top.meta].pipes)
      BY <1>2, <3>1, AppendFacts
    <3> QED
      BY <1>1, <1>2, <2>2, <3>2
  <2> QED
    BY <2>1, <2>2 DEF ChildAdded
<1>6. metas[1].kids # <<>> /\ metas # <<>> /\ 1 \in DOMAIN metas
  <2>1. stack # <<Build(1, 1, 1)>>
    BY <1>1 DEF Top, Build, Frame
  <2> QED
    BY <1>1, <2>1 DEF BuildInv, MetasSound
<1>7. metas'[1].kids # <<>> /\ metas' # <<>>
  BY <1>1, <1>3, <1>6
<1>8. \A m, n \in DOMAIN metas' : metas'[m].sink = metas'[n].sink => m = n
  BY <1>1, <1>3 DEF BuildInv, MetasSound
<1> QED
  BY <1>1, <1>4, <1>5, <1>7, <1>8 DEF MetasSound

LEMMA ChildOps ==
    ASSUME BuildInv, ChildAdded
    PROVE  OpsSound' /\ \A p \in DOMAIN pipes' : ToSet(pipes'[p].ops) \subseteq Ops(plan')
<1> DEFINE c == pipes[Top.pipe]
<1>1. /\ stack # <<>> /\ Top.do = "child" /\ plan' = plan /\ DOMAIN pipes' = DOMAIN pipes \cup {NewPipe}
      /\ NewPipe \notin DOMAIN pipes /\ \A p \in DOMAIN pipes : pipes'[p] = pipes[p] /\ p < NewPipe
      /\ pipes'[NewPipe].source = Top.op /\ pipes'[NewPipe].sink = c.sink
      /\ DOMAIN metas' = DOMAIN metas
  BY DEF ChildAdded
<1>2. /\ Top.pipe \in DOMAIN pipes /\ FrameSound(Top) /\ 1 \in DOMAIN stack /\ Top = stack[1]
  BY <1>1, TopFacts
<1>3. /\ Top.op \in JoinOps /\ Top.op \in ToSet(c.ops)
      /\ \A p \in DOMAIN pipes : pipes[p].source # Top.op
  BY <1>1, <1>2 DEF FrameSound
<1>4. ToSet(pipes'[NewPipe].ops) \subseteq ToSet(c.ops) /\ Top.op \notin ToSet(pipes'[NewPipe].ops)
  BY ChildPrefix DEF ChildAdded
<1>5. Placed' = Placed /\ JoinOps' = JoinOps /\ \A m \in DOMAIN metas : Base(m)' = Base(m) /\ Base(m) \in DOMAIN pipes
  <2>1. \A m \in DOMAIN metas : Base(m) \in DOMAIN pipes
    <3> TAKE m \in DOMAIN metas
    <3>1. MetaSound(m) /\ metas[m] \in MetaType
      BY DEF BuildInv, BuildTyped, MetasSound
    <3>2. metas[m].pipes \in Seq(Nat) /\ metas[m].pipes # <<>>
      BY <3>1 DEF MetaType, MetaSound
    <3>3. 1 \in DOMAIN metas[m].pipes /\ Base(m) = metas[m].pipes[1]
      BY <3>2 DEF Base
    <3> QED
      BY <3>1, <3>3 DEF MetaSound
  <2> QED
    BY <2>1, ChildPops DEF Pops
<1>6. /\ \A p \in DOMAIN pipes : IsInjective(pipes[p].ops)
      /\ \A p, q \in DOMAIN pipes :
            ToSet(pipes[p].ops) \cap ToSet(pipes[q].ops) # {} => pipes[p].sink = pipes[q].sink
      /\ \A p \in DOMAIN pipes : pipes[p].source \in JoinOps =>
            /\ pipes[p].source \in Placed
            /\ \A q \in DOMAIN pipes : pipes[p].source \in ToSet(pipes[q].ops) =>
                  q < p /\ pipes[q].sink = pipes[p].sink
  BY DEF BuildInv, OpsSound
<1>7. \A p \in DOMAIN pipes' : IsInjective(pipes'[p].ops)
  BY <1>1, <1>6 DEF ChildAdded
<1>8. \A p, q \in DOMAIN pipes' :
          ToSet(pipes'[p].ops) \cap ToSet(pipes'[q].ops) # {} => pipes'[p].sink = pipes'[q].sink
  <2>1. \A q \in DOMAIN pipes : ToSet(pipes'[NewPipe].ops) \cap ToSet(pipes[q].ops) # {} => pipes[q].sink = c.sink
    <3> TAKE q \in DOMAIN pipes
    <3> HAVE ToSet(pipes'[NewPipe].ops) \cap ToSet(pipes[q].ops) # {}
    <3>1. ToSet(c.ops) \cap ToSet(pipes[q].ops) # {}
      BY <1>4
    <3> QED
      BY <1>2, <1>6, <3>1
  <2>2. ASSUME NEW p \in DOMAIN pipes', NEW q \in DOMAIN pipes',
               ToSet(pipes'[p].ops) \cap ToSet(pipes'[q].ops) # {}
        PROVE  pipes'[p].sink = pipes'[q].sink
    <3>1. CASE p \in DOMAIN pipes /\ q \in DOMAIN pipes
      BY <1>1, <1>6, <2>2, <3>1
    <3>2. CASE p = NewPipe /\ q \in DOMAIN pipes
      BY <1>1, <2>1, <2>2, <3>2
    <3>3. CASE q = NewPipe /\ p \in DOMAIN pipes
      <4>1. ToSet(pipes'[NewPipe].ops) \cap ToSet(pipes[p].ops) # {}
        BY <1>1, <2>2, <3>3
      <4> QED
        BY <1>1, <2>1, <3>3, <4>1
    <3> QED
      BY <1>1, <3>1, <3>2, <3>3
  <2> QED
    BY <2>2
<1>9. \A p \in DOMAIN pipes : pipes[p].source \in JoinOps => pipes[p].source \notin ToSet(pipes'[NewPipe].ops)
  <2> SUFFICES ASSUME NEW p \in DOMAIN pipes, pipes[p].source \in JoinOps,
                      pipes[p].source \in ToSet(pipes'[NewPipe].ops)
               PROVE  FALSE
    OBVIOUS
  <2>1. PICK a \in DOMAIN c.ops, b \in DOMAIN c.ops : a < b /\ c.ops[b] = Top.op /\ c.ops[a] = pipes[p].source
    BY DEF ChildAdded
  <2>2. Waits(1, pipes[p].source, Top.pipe)
    BY <1>1, <1>2, <2>1 DEF BuildInv, ChildrenWait
  <2>3. PICK k \in DOMAIN stack : stack[k].do = "child" /\ stack[k].op = pipes[p].source
    BY <2>2 DEF Waits
  <2>4. FrameSound(stack[k])
    BY DEF BuildInv, FramesSound
  <2> QED
    BY <2>3, <2>4 DEF FrameSound
<1>10. \A p \in DOMAIN pipes' : pipes'[p].source \in JoinOps =>
          /\ pipes'[p].source \in Placed
          /\ \A q \in DOMAIN pipes' : pipes'[p].source \in ToSet(pipes'[q].ops) =>
                q < p /\ pipes'[q].sink = pipes'[p].sink
  <2> TAKE p \in DOMAIN pipes'
  <2> HAVE pipes'[p].source \in JoinOps
  <2>1. CASE p \in DOMAIN pipes
    BY <1>1, <1>6, <1>9, <2>1
  <2>2. CASE p = NewPipe
    <3>1. Top.op \in Placed
      BY <1>2, <1>3 DEF Placed
    <3>2. ASSUME NEW q \in DOMAIN pipes', Top.op \in ToSet(pipes'[q].ops) PROVE q < NewPipe /\ pipes'[q].sink = c.sink
      <4>1. q \in DOMAIN pipes
        BY <1>1, <1>4, <3>2
      <4>2. ToSet(pipes[q].ops) \cap ToSet(c.ops) # {}
        BY <1>1, <1>3, <3>2, <4>1
      <4>3. pipes[q].sink = c.sink
        BY <1>2, <1>6, <4>1, <4>2
      <4> QED
        BY <1>1, <4>1, <4>3
    <3> QED
      BY <1>1, <2>2, <3>1, <3>2
  <2> QED
    BY <1>1, <2>1, <2>2
<1>11. \A p \in DOMAIN pipes' : pipes'[p].source \in JoinOps => \A m \in DOMAIN metas : p # Base(m)
  <2>1. \A p \in DOMAIN pipes : pipes[p].source \in JoinOps => \A m \in DOMAIN metas : p # Base(m)
    BY DEF BuildInv, OpsSound
  <2> QED
    BY <1>1, <1>5, <2>1
<1>12. \A p \in DOMAIN pipes' : pipes'[p].source \in JoinOps' => \A m \in DOMAIN metas' : p # Base(m)'
  BY <1>1, <1>5, <1>11
<1>13. \A p \in DOMAIN pipes' : pipes'[p].source \in JoinOps' =>
          /\ pipes'[p].source \in Placed'
          /\ \A q \in DOMAIN pipes' : pipes'[p].source \in ToSet(pipes'[q].ops) =>
                q < p /\ pipes'[q].sink = pipes'[p].sink
  BY <1>5, <1>10
<1>14. OpsSound'
  BY <1>7, <1>8, <1>12, <1>13 DEF OpsSound
<1>15. \A p \in DOMAIN pipes' : ToSet(pipes'[p].ops) \subseteq Ops(plan')
  <2>1. \A p \in DOMAIN pipes : ToSet(pipes[p].ops) \subseteq Ops(plan)
    BY DEF BuildInv, BuildTyped
  <2> QED
    BY <1>1, <1>2, <1>4, <2>1
<1> QED
  BY <1>14, <1>15

LEMMA ChildPaths ==
    ASSUME BuildInv, ChildAdded, IsSource(Top.op)
    PROVE  PathsSound'
<1> DEFINE c == pipes[Top.pipe]
<1>1. /\ stack # <<>> /\ Top.do = "child" /\ plan' = plan /\ DOMAIN pipes' = DOMAIN pipes \cup {NewPipe}
      /\ NewPipe \notin DOMAIN pipes /\ \A p \in DOMAIN pipes : pipes'[p] = pipes[p]
      /\ pipes'[NewPipe].source = Top.op /\ DOMAIN metas' = DOMAIN metas /\ NewPipe \in Nat
  BY DEF ChildAdded
<1>2. Top.pipe \in DOMAIN pipes /\ FrameSound(Top) /\ metas[Top.meta].pipes \in Seq(Nat) /\ Top.meta \in DOMAIN metas
  BY <1>1, TopFacts
<1>3. /\ \A p \in DOMAIN pipes : \A a, b \in DOMAIN pipes[p].ops :
            a < b => pipes[p].ops[b] \in Reach(pipes[p].ops[a])
      /\ \A i \in DOMAIN stack : stack[i].do \in Placing =>
            \A o \in ToSet(pipes[stack[i].pipe].ops) : Reach(stack[i].op) \subseteq Reach(o)
      /\ \A p \in DOMAIN pipes : pipes[p].source \in JoinOps =>
            IsSource(pipes[p].source) /\ \A o \in ToSet(pipes[p].ops) : pipes[p].source \in Reach(o)
      /\ \A m \in DOMAIN metas : \A i \in DOMAIN metas[m].pipes :
            i = 1 \/ pipes[metas[m].pipes[i]].source \in JoinOps
  BY <1>1 DEF BuildInv, PathsSound
<1>4. /\ \A x : Reach(x)' = Reach(x)
      /\ JoinOps' = JoinOps
      /\ \A x : IsSource(x)' <=> IsSource(x)
  BY <1>1 DEF Reach, JoinOps, IsSource
<1>5. Top.op \in JoinOps
  BY <1>1, <1>2 DEF FrameSound
<1>6. \A o \in ToSet(pipes'[NewPipe].ops) : Top.op \in Reach(o)
  <2>1. \A a, b \in DOMAIN c.ops : a < b => c.ops[b] \in Reach(c.ops[a])
    BY <1>2, <1>3
  <2> QED
    BY <2>1 DEF ChildAdded
<1>7. ASSUME NEW p \in DOMAIN pipes', pipes'[p].source \in JoinOps
      PROVE  IsSource(pipes'[p].source) /\ \A o \in ToSet(pipes'[p].ops) : pipes'[p].source \in Reach(o)
  BY <1>1, <1>3, <1>6, <1>7
<1>8. ASSUME NEW m \in DOMAIN metas', NEW i \in DOMAIN metas'[m].pipes, i # 1
      PROVE  pipes'[metas'[m].pipes[i]].source \in JoinOps
  <2>0. m \in DOMAIN metas /\ MetaSound(m)
    BY <1>1 DEF BuildInv, MetasSound
  <2>1. CASE m # Top.meta
    <3>1. metas'[m].pipes = metas[m].pipes
      BY <1>1, <2>1 DEF ChildAdded
    <3>2. metas[m].pipes[i] \in DOMAIN pipes
      BY <1>8, <2>0, <3>1 DEF MetaSound
    <3> QED
      BY <1>1, <1>3, <1>8, <2>0, <3>1, <3>2
  <2>2. CASE m = Top.meta
    <3> DEFINE s == metas[m].pipes
               t == metas'[m].pipes
    <3>1. s \in Seq(Nat) /\ t = Append(s, NewPipe)
      BY <1>1, <1>2, <2>2 DEF ChildAdded
    <3>2. /\ DOMAIN t = 1 .. Len(s) + 1 /\ DOMAIN s = 1 .. Len(s) /\ Len(s) \in Nat
          /\ \A k \in DOMAIN s : t[k] = s[k]
          /\ t[Len(s) + 1] = NewPipe
      BY <1>1, <3>1, AppendFacts
    <3>3. \A k \in DOMAIN s : s[k] \in DOMAIN pipes /\ (k = 1 \/ pipes[s[k]].source \in JoinOps)
      BY <1>3, <2>0 DEF MetaSound
    <3>4. i \in DOMAIN t
      BY <1>8
    <3> HIDE DEF s, t
    <3>5. pipes'[t[i]].source \in JoinOps
      <4>1. CASE i \in DOMAIN s
        BY <1>1, <1>8, <3>2, <3>3, <4>1
      <4>2. CASE i = Len(s) + 1
        BY <1>1, <1>5, <3>2, <4>2
      <4> QED
        BY <3>2, <3>4, <4>1, <4>2
    <3> QED
      BY <3>5 DEF t
  <2> QED
    BY <2>1, <2>2
<1>9. ASSUME stack' # <<>>, NEW p \in DOMAIN pipes', NEW a \in DOMAIN pipes'[p].ops, NEW b \in DOMAIN pipes'[p].ops, a < b
      PROVE  pipes'[p].ops[b] \in Reach(pipes'[p].ops[a])
  <2>1. CASE p \in DOMAIN pipes
    BY <1>1, <1>3, <1>9, <2>1
  <2>2. CASE p = NewPipe
    <3>1. /\ a \in DOMAIN c.ops /\ pipes'[NewPipe].ops[a] = c.ops[a]
          /\ b \in DOMAIN c.ops /\ pipes'[NewPipe].ops[b] = c.ops[b]
      BY <1>9, <2>2 DEF ChildAdded
    <3> QED
      BY <1>2, <1>3, <1>9, <2>2, <3>1
  <2> QED
    BY <1>1, <2>1, <2>2
<1>10. ASSUME NEW k \in DOMAIN stack', stack'[k].do \in Placing, NEW o \in ToSet(pipes'[stack'[k].pipe].ops)
       PROVE  Reach(stack'[k].op) \subseteq Reach(o)
  <2>1. k + 1 \in DOMAIN stack /\ stack'[k] = stack[k + 1]
    BY ChildPops, PopsStack
  <2>2. stack[k + 1].pipe \in DOMAIN pipes
    <3>1. stack[k + 1].meta \in DOMAIN metas /\ stack[k + 1].pipe = Base(stack[k + 1].meta)
      BY <2>1 DEF BuildInv, FramesSound, FrameSound
    <3>2. MetaSound(stack[k + 1].meta) /\ metas[stack[k + 1].meta] \in MetaType
      BY <3>1 DEF BuildInv, BuildTyped, MetasSound
    <3>3. metas[stack[k + 1].meta].pipes \in Seq(Nat) /\ metas[stack[k + 1].meta].pipes # <<>>
      BY <3>2 DEF MetaType, MetaSound
    <3>4. 1 \in DOMAIN metas[stack[k + 1].meta].pipes /\ stack[k + 1].pipe = metas[stack[k + 1].meta].pipes[1]
      BY <3>1, <3>3 DEF Base
    <3> QED
      BY <3>2, <3>4 DEF MetaSound
  <2> QED
    BY <1>1, <1>3, <1>10, <2>1, <2>2
<1> QED
  BY <1>4, <1>7, <1>8, <1>9, <1>10 DEF PathsSound

\* The pipeline reads what the join's own pipeline does.
LEMMA ChildFed ==
    ASSUME BuildInv, ChildAdded
    PROVE  FeedInv => FeedInv'
<1> SUFFICES ASSUME FeedInv PROVE FeedInv'
  OBVIOUS
<1>1. /\ stack # <<>> /\ Top.do = "child" /\ plan' = plan /\ DOMAIN metas' = DOMAIN metas
      /\ NewPipe \in DOMAIN pipes' /\ pipes'[NewPipe].source = Top.op /\ pipes'[NewPipe].sink = pipes[Top.pipe].sink
      /\ \A m \in DOMAIN metas :
            metas'[m].pipes = IF m = Top.meta THEN Append(metas[m].pipes, NewPipe) ELSE metas[m].pipes
      /\ \A y \in ToSet(pipes'[NewPipe].ops) : \E a \in DOMAIN pipes[Top.pipe].ops : pipes[Top.pipe].ops[a] = y
  BY DEF ChildAdded
<1>2. Pops
  BY ChildPops
<1>3. /\ FramesFed' /\ SinksFed' /\ \A m \in DOMAIN metas : \A p \in ToSet(metas[m].pipes) : PipeFed(m, p)'
  BY <1>2, PopsFed
<1>4. /\ Top.pipe \in ToSet(metas[Top.meta].pipes) /\ Top.pipe \in DOMAIN pipes /\ Top.meta \in DOMAIN metas
      /\ metas[Top.meta].pipes \in Seq(Nat) /\ FrameSound(Top)
  BY <1>1, TopFacts
<1>5. Top.op \in ToSet(pipes[Top.pipe].ops)
  BY <1>1, <1>4 DEF FrameSound
<1>6. ToSet(pipes'[NewPipe].ops) \subseteq ToSet(pipes[Top.pipe].ops)
  BY <1>1 DEF ToSet
<1>7. pipes'[Top.pipe] = pipes[Top.pipe]
  BY <1>2, <1>4 DEF Pops
<1> HIDE DEF NewPipe
<1>9. ASSUME NEW m, m = Top.meta, NEW p, p = NewPipe PROVE PipeFed(m, p)'
  <2>1. ASSUME NEW x, x = Top.pipe PROVE PipeFed(m, x)' /\ Reads(p)' \subseteq Reads(x)'
    <3>1. PipeFed(m, x)'
      BY <1>3, <1>4, <1>9, <2>1
    <3>2. /\ ToSet(pipes'[p].ops) \subseteq ToSet(pipes'[x].ops) /\ pipes'[p].source \in ToSet(pipes'[x].ops)
      BY <1>1, <1>5, <1>6, <1>7, <1>9, <2>1
    <3>3. Reads(p)' \subseteq Reads(x)'
      BY <3>2 DEF Reads
    <3> QED
      BY <3>1, <3>3
  <2>2. ASSUME NEW x, x = Top.pipe
        PROVE  /\ \A r \in Reads(p)' : plan'[r].type \in Readable /\ \A s \in FilledBy(plan', r) : Dep(Base(m), s)'
               /\ ToSet(pipes'[x].ops) \subseteq OfType(plan', Streams \cup Joins)
               /\ pipes'[x].sink # NoOp => ToSet(pipes'[x].ops) \subseteq ToSet(Way(plan', pipes'[x].sink))
    BY <2>1, <2>2 DEF PipeFed
  <2>3. /\ \A r \in Reads(p)' : plan'[r].type \in Readable /\ \A s \in FilledBy(plan', r) : Dep(Base(m), s)'
        /\ ToSet(pipes'[Top.pipe].ops) \subseteq OfType(plan', Streams \cup Joins)
        /\ pipes'[Top.pipe].sink # NoOp => ToSet(pipes'[Top.pipe].ops) \subseteq ToSet(Way(plan', pipes'[Top.pipe].sink))
    BY <2>2
  <2>4. /\ ToSet(pipes'[p].ops) \subseteq ToSet(pipes'[Top.pipe].ops) /\ pipes'[p].source \in ToSet(pipes'[Top.pipe].ops)
        /\ pipes'[p].sink = pipes'[Top.pipe].sink
    BY <1>1, <1>5, <1>6, <1>7, <1>9
  <2>5. /\ ToSet(pipes'[p].ops) \subseteq OfType(plan', Streams \cup Joins)
        /\ pipes'[p].sink # NoOp =>
              ToSet(pipes'[p].ops) \cup ({pipes'[p].source} \cap JoinOps') \subseteq ToSet(Way(plan', pipes'[p].sink))
    BY <2>3, <2>4
  <2> QED
    BY <2>3, <2>5 DEF PipeFed
<1>10. \A m \in DOMAIN metas' : \A p \in ToSet(metas'[m].pipes) : PipeFed(m, p)'
  <2> TAKE m \in DOMAIN metas'
  <2> TAKE p \in ToSet(metas'[m].pipes)
  <2>1. p \in ToSet(metas[m].pipes) \/ (m = Top.meta /\ p = NewPipe)
    <3>1. CASE m = Top.meta
      <4>1. metas'[m].pipes = Append(metas[m].pipes, NewPipe) /\ metas[m].pipes \in Seq(Nat) /\ NewPipe \in Nat
        BY <1>1, <1>4, <3>1 DEF ChildAdded
      <4> QED
        BY <3>1, <4>1, AppendFacts
    <3>2. CASE m # Top.meta
      BY <1>1, <3>2
    <3> QED
      BY <3>1, <3>2
  <2> QED
    BY <1>1, <1>3, <1>9, <2>1
<1>11. PipesFed'
  BY <1>10 DEF PipesFed
<1> QED
  BY <1>3, <1>11 DEF FeedInv

LEMMA ChildStep ==
    ASSUME BuildInv, CreateChildPipeline
    PROVE  BuildInv' /\ (FeedInv => FeedInv')
<1>1. CASE IsSource(Top.op)
  <2>1. ChildAdded
    BY <1>1, ChildAdds
  <2>2. Pops
    BY <2>1, ChildPops
  <2>3. stack' \in Seq(FrameType) /\ plan' = plan /\ Top.do = "child" /\ scanDeps' = scanDeps
        /\ pipes' \in Seq(PipeType) /\ metas' \in Seq(MetaType)
    BY <2>1, <2>2, PopsStack DEF ChildAdded
  <2>4. BuildTyped'
    BY <2>1, <2>3, ChildOps DEF BuildInv, BuildTyped
  <2>5. ScansSound'
    <3>1. /\ DOMAIN scanDeps' \subseteq Ops(plan) /\ DOMAIN scanDeps \subseteq DOMAIN scanDeps'
          /\ \A s \in DOMAIN scanDeps' :
                scanDeps'[s] \in DOMAIN pipes /\ pipes[scanDeps'[s]].sink \in ProducersOf(plan, s)
          /\ Top.do # "scans"
      BY <2>3 DEF BuildInv, ScansSound
    <3> QED
      BY <2>2, <3>1, PopsScans
  <2> QED
    BY <1>1, <2>1, <2>2, <2>4, <2>5, ChildMetas, ChildOps, ChildPaths, ChildFed, PopsKeep DEF BuildInv
<1>2. CASE ~ IsSource(Top.op)
  <2>1. /\ stack # <<>> /\ Top.do = "child" /\ stack' = <<>> \o Tail(stack) /\ plan' = plan /\ scanDeps' = scanDeps
        /\ pipes' = pipes /\ metas' = metas
    BY <1>2 DEF CreateChildPipeline, Calls, Return
  <2>2. Pops
    BY <2>1 DEF Pops, Placing, Base, Placed
  <2>3. ScansSound'
    <3>1. /\ DOMAIN scanDeps' \subseteq Ops(plan) /\ DOMAIN scanDeps \subseteq DOMAIN scanDeps'
          /\ \A s \in DOMAIN scanDeps' :
                scanDeps'[s] \in DOMAIN pipes /\ pipes[scanDeps'[s]].sink \in ProducersOf(plan, s)
          /\ Top.do # "scans"
      BY <2>1 DEF BuildInv, ScansSound
    <3> QED
      BY <2>2, <3>1, PopsScans
  <2> QED
    BY <2>1, <2>2, <2>3, PopsSame, PopsKeep, PopsSameFed DEF BuildInv
<1> QED
  BY <1>1, <1>2

-----------------------------------------------------------------------------
(***************************************************************************)
(* The construction as a whole.                                            *)
(***************************************************************************)
LEMMA OneElement ==
    ASSUME NEW S, NEW x \in S
    PROVE  <<x>> \in Seq(S)
  OBVIOUS

LEMMA InitBuildInv ==
    ASSUME Init
    PROVE  BuildInv /\ FeedInv
<1>1. /\ plan \in Plans /\ metas = <<MetaPipeline(NoOp, 1)>> /\ pipes = <<Pipeline(NoOp)>>
      /\ stack = <<Build(1, 1, 1)>> /\ scanDeps = <<>>
  BY DEF Init, BuildInit
<1>2. WellFormed(plan)
  BY <1>1, PlansAssumption
<1>3. Ops(plan) = 1 .. Len(plan) /\ Len(plan) \in Nat /\ 1 \in Ops(plan)
  BY <1>2 DEF WellFormed, Ops
<1>4. /\ DOMAIN metas = {1} /\ metas[1] = [sink |-> 0, pipes |-> <<1>>, kids |-> <<>>]
      /\ DOMAIN pipes = {1} /\ pipes[1] = [source |-> 0, ops |-> <<>>, sink |-> 0, deps |-> {}, after |-> {}]
      /\ DOMAIN stack = {1} /\ stack[1] = [do |-> "build", op |-> 1, pipe |-> 1, meta |-> 1, last |-> 0]
      /\ DOMAIN scanDeps = {} /\ Len(metas) = 1
  BY <1>1 DEF MetaPipeline, Pipeline, Build, Frame, NoOp, NoPipe
<1>5. ToSet(pipes[1].ops) = {} /\ ToSet(metas[1].pipes) = {1} /\ Base(1) = 1
  BY <1>4 DEF ToSet, Base
<1>6. Placed = {0}
  BY <1>4, <1>5 DEF Placed
<1>7. BuildTyped
  <2>1. pipes[1] \in PipeType /\ metas[1] \in MetaType /\ stack[1] \in FrameType
    BY <1>4 DEF PipeType, MetaType, FrameType
  <2>2. pipes = <<pipes[1]>> /\ metas = <<metas[1]>> /\ stack = <<stack[1]>>
    BY <1>1
  <2>3. pipes \in Seq(PipeType) /\ metas \in Seq(MetaType) /\ stack \in Seq(FrameType)
    <3>1. <<pipes[1]>> \in Seq(PipeType) /\ <<metas[1]>> \in Seq(MetaType) /\ <<stack[1]>> \in Seq(FrameType)
      BY <2>1, OneElement
    <3> QED
      BY <2>2, <3>1
  <2> QED
    BY <1>1, <1>4, <1>5, <2>3 DEF BuildTyped
<1>8. MetasSound
  <2>1. MetaSound(1)
    BY <1>4 DEF MetaSound, NoOp
  <2> QED
    BY <1>1, <1>4, <1>5, <2>1 DEF MetasSound
<1>9. FramesSound
  <2>1. Sub(1) \subseteq Ops(plan)
    BY <1>2, <1>3, SubtreeBelow DEF Sub
  <2>2. Sub(1) \cap Placed = {}
    BY <1>3, <1>6, <2>1
  <2>3. \A d \in Ops(plan) : plan[d].distinct # 1
    <3> TAKE d \in Ops(plan)
    <3>1. HasShape(plan, d) /\ plan[1].type = "RESULT_COLLECTOR"
      BY <1>2 DEF WellFormed
    <3> QED
      BY <3>1 DEF HasShape, OfType
  <2>4. FrameSound(stack[1])
    BY <1>3, <1>4, <1>5, <2>2, <2>3 DEF FrameSound
  <2>5. \A i, k \in DOMAIN stack : ~ i < k
    BY <1>4
  <2> QED
    BY <1>4, <2>4, <2>5 DEF FramesSound
<1>10. OpsSound
  <2>1. IsInjective(pipes[1].ops)
    BY <1>4 DEF IsInjective
  <2>2. pipes[1].source \notin JoinOps
    BY <1>3, <1>4 DEF JoinOps, OfType
  <2> QED
    BY <1>4, <1>5, <2>1, <2>2 DEF OpsSound
<1>11. SourcesComing
  BY <1>4 DEF SourcesComing, Placing
<1>12. ChildrenWait
  BY <1>4, <1>5 DEF ChildrenWait
<1>13. ScansSound
  <2>1. ASSUME NEW s \in OfType(plan, Scans), NEW d \in ProducersOf(plan, s) PROVE d \in Sub(1)
    <3>1. d \in OfType(plan, DelimJoins \cup {"CTE"}) /\ d \in Ops(plan)
      BY <1>2, ProducerFacts DEF OfType
    <3>2. FilledByDelim(plan, d) = {}
      <4> SUFFICES ASSUME NEW e \in FilledByDelim(plan, d) PROVE FALSE
        OBVIOUS
      <4>1. e \in Ops(plan) /\ plan[e].type \in DelimJoins /\ plan[e].inner = d
        BY DEF FilledByDelim, OfType, DelimJoins
      <4>2. d \in OfType(plan, Joins)
        BY <1>2, <4>1, OwnedByType
      <4> QED
        BY <3>1, <4>2 DEF OfType, Joins, DelimJoins
    <3>3. plan[d].kids # <<>>
      <4>1. Child(plan, d, 1) \in Owned(plan, d)
        BY <1>2, <3>1, OwnedByType DEF OfType
      <4>2. HasShape(plan, d) /\ plan[d] \in Operator
        BY <1>2, <3>1 DEF WellFormed, Ops
      <4>3. plan[d].type \in DelimJoins => Len(plan[d].kids) = 1
        BY <4>2 DEF HasShape, DelimJoins, Leaves, Scans, Streams, Blocking, Joins
      <4>4. plan[d].type = "CTE" => Len(plan[d].kids) = 2
        BY <4>2 DEF HasShape, DelimJoins, Leaves, Scans, Streams, Blocking, Joins
      <4>5. plan[d].kids = <<>> => Len(plan[d].kids) = 0
        OBVIOUS
      <4> QED
        BY <3>1, <4>3, <4>4, <4>5 DEF OfType
    <3>4. d \in Holders(plan)
      BY <3>1, <3>2, <3>3 DEF Holders, OfType
    <3> QED
      BY <1>2, <3>4 DEF WellFormed, Sub
  <2> QED
    BY <1>4, <2>1 DEF ScansSound
<1>14. PathsSound
  <2>1. pipes[1].source \notin JoinOps
    BY <1>3, <1>4 DEF JoinOps, OfType
  <2>2. DOMAIN pipes[1].ops = {} /\ DOMAIN metas[1].pipes = {1}
    BY <1>4
  <2> QED
    BY <1>4, <1>5, <2>1, <2>2 DEF PathsSound
<1>15. plan[1].type = "RESULT_COLLECTOR" /\ FilledByDelim(plan, 1) = {} /\ Delims(1) = {}
  <2>1. plan[1].type = "RESULT_COLLECTOR"
    BY <1>2 DEF WellFormed
  <2>2. ASSUME NEW d \in OfType(plan, DelimJoins) PROVE plan[d].inner # 1 /\ Child(plan, plan[d].inner, 1) # 1
    <3>1. /\ d \in Ops(plan) /\ plan[d].inner \in Owned(plan, d) /\ plan[d].inner \in Ops(plan)
          /\ Child(plan, plan[d].inner, 1) \in Owned(plan, plan[d].inner)
      BY <1>2, DelimOwns
    <3>2. \A o \in Ops(plan) : Owned(plan, o) \subseteq o + 1 .. Len(plan)
      BY <1>2, PlanFacts
    <3> QED
      BY <1>3, <3>1, <3>2
  <2>3. OfType(plan, {"RIGHT_DELIM_JOIN"}) \subseteq OfType(plan, DelimJoins)
    BY DEF OfType, DelimJoins
  <2> QED
    BY <2>1, <2>2, <2>3 DEF Delims, FilledByDelim
<1>16. FeedInv
  <2>1. FrameFed(stack[1])
    BY <1>4, <1>15 DEF FrameFed, NoOp
  <2>2. Reads(1) = {}
    BY <1>3, <1>4, <1>5 DEF Reads
  <2>3. PipeFed(1, 1)
    BY <1>4, <1>5, <2>2 DEF PipeFed, NoOp
  <2>4. metas[1].sink = NoOp
    BY <1>4 DEF NoOp
  <2> QED
    BY <1>4, <1>5, <2>1, <2>3, <2>4 DEF FeedInv, FramesFed, PipesFed, SinksFed
<1> QED
  BY <1>7, <1>8, <1>9, <1>10, <1>11, <1>12, <1>13, <1>14, <1>16 DEF BuildInv

LEMMA BuildSteps ==
    ASSUME BuildInv, BuildNext
    PROVE  BuildInv' /\ (FeedInv => FeedInv')
<1>1. CASE BuildLeaf
  BY <1>1, LeafStep
<1>2. CASE BuildStream
  BY <1>2, StreamStep
<1>3. CASE BuildBlocking
  BY <1>3, BlockingStep
<1>4. CASE BuildJoin
  BY <1>4, JoinStep
<1>5. CASE CreateChildPipeline
  BY <1>5, ChildStep
<1>6. CASE BuildProducer
  BY <1>6, ProducerStep
<1>7. CASE RegisterScans
  BY <1>7, RegisterStep
<1>8. CASE BuildScan
  BY <1>8, ScanStep
<1> QED
  BY <1>1, <1>2, <1>3, <1>4, <1>5, <1>6, <1>7, <1>8 DEF BuildNext

LEMMA ReverseFacts ==
    ASSUME NEW S, NEW s \in Seq(S)
    PROVE  /\ Reverse(s) \in Seq(S) /\ ToSet(Reverse(s)) = ToSet(s)
           /\ IsInjective(s) => IsInjective(Reverse(s))
           /\ DOMAIN Reverse(s) = 1 .. Len(s) /\ \A i \in 1 .. Len(s) : Reverse(s)[i] = s[Len(s) - i + 1]
<1> DEFINE t == Reverse(s)
<1>1. Len(s) \in Nat /\ DOMAIN s = 1 .. Len(s) /\ \A i \in DOMAIN s : s[i] \in S
  OBVIOUS
<1>2. DOMAIN t = 1 .. Len(s) /\ \A i \in 1 .. Len(s) : t[i] = s[Len(s) - i + 1]
  BY <1>1 DEF Reverse
<1>3. \A i \in 1 .. Len(s) : Len(s) - i + 1 \in 1 .. Len(s) /\ Len(s) - (Len(s) - i + 1) + 1 = i
  BY <1>1
<1>4. t \in [1 .. Len(s) -> S]
  BY <1>1, <1>3 DEF Reverse
<1> HIDE DEF t
<1>5. t \in Seq(S)
  BY <1>1, <1>4, IsASeq
<1>6. ToSet(t) \subseteq ToSet(s)
  BY <1>1, <1>2, <1>3 DEF ToSet
<1>7. ToSet(s) \subseteq ToSet(t)
  <2> SUFFICES ASSUME NEW i \in 1 .. Len(s) PROVE s[i] \in ToSet(t)
    BY <1>1 DEF ToSet
  <2>1. t[Len(s) - i + 1] = s[i] /\ Len(s) - i + 1 \in DOMAIN t
    BY <1>2, <1>3
  <2> QED
    BY <2>1 DEF ToSet
<1>8. ASSUME IsInjective(s) PROVE IsInjective(t)
  <2> SUFFICES ASSUME NEW a \in 1 .. Len(s), NEW b \in 1 .. Len(s), t[a] = t[b] PROVE a = b
    BY <1>2 DEF IsInjective
  <2>1. Len(s) - a + 1 = Len(s) - b + 1
    BY <1>1, <1>2, <1>3, <1>8 DEF IsInjective
  <2> QED
    BY <1>1, <2>1
<1> QED
  BY <1>2, <1>5, <1>6, <1>7, <1>8 DEF t

LEMMA ReadyStep ==
    ASSUME BuildInv, Ready
    PROVE  BuildInv' /\ (FeedInv => FeedInv')
<1>1. /\ stack = <<>> /\ stack' = <<>> /\ plan' = plan /\ metas' = metas /\ scanDeps' = scanDeps
      /\ pipes' = [p \in DOMAIN pipes |-> [pipes[p] EXCEPT !.ops = Reverse(@)]]
  BY DEF Ready
<1>2. pipes \in Seq(PipeType) /\ plan \in Plans /\ metas \in Seq(MetaType)
  BY DEF BuildInv, BuildTyped
<1>3. \A p \in DOMAIN pipes :
        /\ pipes'[p] \in PipeType /\ pipes'[p].source = pipes[p].source /\ pipes'[p].sink = pipes[p].sink
        /\ ToSet(pipes'[p].ops) = ToSet(pipes[p].ops) /\ IsInjective(pipes'[p].ops)
  <2> TAKE p \in DOMAIN pipes
  <2>1. pipes[p] \in PipeType /\ IsInjective(pipes[p].ops)
    BY <1>2 DEF BuildInv, OpsSound
  <2>2. pipes[p].ops \in Seq(Nat)
    BY <2>1 DEF PipeType
  <2>3. /\ Reverse(pipes[p].ops) \in Seq(Nat) /\ ToSet(Reverse(pipes[p].ops)) = ToSet(pipes[p].ops)
        /\ IsInjective(Reverse(pipes[p].ops))
    BY <2>1, <2>2, ReverseFacts
  <2>4. pipes'[p] = [pipes[p] EXCEPT !.ops = Reverse(pipes[p].ops)]
    BY <1>1
  <2> HIDE DEF Reverse
  <2>5. /\ pipes'[p].source = pipes[p].source /\ pipes'[p].sink = pipes[p].sink
        /\ pipes'[p].ops = Reverse(pipes[p].ops) /\ pipes'[p] \in PipeType
    BY <2>1, <2>3, <2>4 DEF PipeType
  <2> QED
    BY <2>3, <2>5
<1>4. DOMAIN pipes' = DOMAIN pipes /\ pipes' \in Seq(PipeType)
  <2>1. DOMAIN pipes = 1 .. Len(pipes) /\ Len(pipes) \in Nat
    BY <1>2
  <2>2. DOMAIN pipes' = DOMAIN pipes
    BY <1>1
  <2>3. pipes' = [p \in 1 .. Len(pipes) |-> pipes'[p]]
    BY <1>1, <2>1
  <2>4. pipes' \in [1 .. Len(pipes) -> PipeType]
    BY <1>3, <2>1, <2>3
  <2> QED
    BY <2>1, <2>2, <2>4, IsASeq
<1>5. JoinOps' = JoinOps /\ Placed' = Placed /\ \A m \in DOMAIN metas : Base(m)' = Base(m)
  <2>1. JoinOps' = JoinOps
    BY <1>1 DEF JoinOps
  <2>2. {metas'[m].sink : m \in DOMAIN metas'} = {metas[m].sink : m \in DOMAIN metas}
    BY <1>1
  <2>3. UNION {ToSet(pipes'[p].ops) : p \in DOMAIN pipes'} = UNION {ToSet(pipes[p].ops) : p \in DOMAIN pipes}
    BY <1>3, <1>4
  <2>4. \A m \in DOMAIN metas : Base(m)' = Base(m)
    BY <1>1 DEF Base
  <2> QED
    BY <2>1, <2>2, <2>3, <2>4 DEF Placed
<1>6. BuildTyped'
  <2>1. \A p \in DOMAIN pipes : ToSet(pipes[p].ops) \subseteq Ops(plan)
    BY DEF BuildInv, BuildTyped
  <2>2. stack' \in Seq(FrameType)
    BY <1>1
  <2> QED
    BY <1>1, <1>2, <1>3, <1>4, <2>1, <2>2 DEF BuildTyped
<1>7. MetasSound'
  <2>1. ASSUME NEW m \in DOMAIN metas PROVE MetaSound(m)'
    <3>1. MetaSound(m)
      BY DEF BuildInv, MetasSound
    <3> QED
      BY <1>1, <1>3, <1>4, <3>1 DEF MetaSound
  <2>2. stack # <<Build(1, 1, 1)>>
    BY <1>1
  <2>3. /\ metas # <<>> /\ metas[1].kids # <<>>
        /\ \A m, n \in DOMAIN metas : metas[m].sink = metas[n].sink => m = n
        /\ \A p \in DOMAIN pipes : \E m \in DOMAIN metas : p \in ToSet(metas[m].pipes)
    BY <2>2 DEF BuildInv, MetasSound
  <2> QED
    BY <1>1, <1>4, <2>1, <2>3 DEF MetasSound
<1>8. OpsSound'
  <2>1. /\ \A p, q \in DOMAIN pipes :
              ToSet(pipes[p].ops) \cap ToSet(pipes[q].ops) # {} => pipes[p].sink = pipes[q].sink
        /\ \A p \in DOMAIN pipes : pipes[p].source \in JoinOps =>
              /\ pipes[p].source \in Placed
              /\ \A m \in DOMAIN metas : p # Base(m)
              /\ \A q \in DOMAIN pipes : pipes[p].source \in ToSet(pipes[q].ops) =>
                    q < p /\ pipes[q].sink = pipes[p].sink
    BY DEF BuildInv, OpsSound
  <2>2. \A m \in DOMAIN metas' : \A p \in DOMAIN pipes : p # Base(m) => p # Base(m)'
    BY <1>1, <1>5
  <2>3. /\ \A p \in DOMAIN pipes' : IsInjective(pipes'[p].ops)
        /\ \A p, q \in DOMAIN pipes' :
              ToSet(pipes'[p].ops) \cap ToSet(pipes'[q].ops) # {} => pipes'[p].sink = pipes'[q].sink
    BY <1>3, <1>4, <2>1
  <2>4. \A p \in DOMAIN pipes' : pipes'[p].source \in JoinOps' => \A m \in DOMAIN metas' : p # Base(m)'
    <3>1. \A p \in DOMAIN pipes : pipes[p].source \in JoinOps => \A m \in DOMAIN metas' : p # Base(m)'
      BY <1>1, <2>1, <2>2
    <3> QED
      BY <1>3, <1>4, <1>5, <3>1
  <2>5. \A p \in DOMAIN pipes' : pipes'[p].source \in JoinOps' =>
          /\ pipes'[p].source \in Placed'
          /\ \A q \in DOMAIN pipes' : pipes'[p].source \in ToSet(pipes'[q].ops) =>
                q < p /\ pipes'[q].sink = pipes'[p].sink
    BY <1>3, <1>4, <1>5, <2>1
  <2> QED
    BY <2>3, <2>4, <2>5 DEF OpsSound
<1>9. FramesSound' /\ ChildrenWait'
  BY <1>1 DEF FramesSound, ChildrenWait
<1>10. SourcesComing'
  BY <1>1, <1>3, <1>4 DEF BuildInv, SourcesComing
<1>11. ScansSound'
  BY <1>1, <1>3, <1>4 DEF BuildInv, ScansSound
<1>12. PathsSound'
  <2>1. /\ \A p \in DOMAIN pipes : pipes[p].source \in JoinOps =>
              IsSource(pipes[p].source) /\ \A o \in ToSet(pipes[p].ops) : pipes[p].source \in Reach(o)
        /\ \A m \in DOMAIN metas : \A i \in DOMAIN metas[m].pipes :
              i = 1 \/ pipes[metas[m].pipes[i]].source \in JoinOps
    BY DEF BuildInv, PathsSound
  <2>2. /\ \A x : Reach(x)' = Reach(x)
        /\ \A x : IsSource(x)' <=> IsSource(x)
    BY <1>1 DEF Reach, IsSource
  <2>3. \A m \in DOMAIN metas : \A i \in DOMAIN metas[m].pipes : metas[m].pipes[i] \in DOMAIN pipes
    BY DEF BuildInv, MetasSound, MetaSound
  <2>4. \A p \in DOMAIN pipes' : pipes'[p].source \in JoinOps =>
          IsSource(pipes'[p].source) /\ \A o \in ToSet(pipes'[p].ops) : pipes'[p].source \in Reach(o)
    BY <1>3, <1>4, <2>1
  <2>5. \A m \in DOMAIN metas' : \A i \in DOMAIN metas'[m].pipes :
          i = 1 \/ pipes'[metas'[m].pipes[i]].source \in JoinOps
    BY <1>1, <1>3, <2>1, <2>3
  <2>6. stack' = <<>> /\ DOMAIN stack' = {}
    BY <1>1
  <2>7. JoinOps' = JoinOps
    BY <1>5
  <2> QED
    BY <2>2, <2>4, <2>5, <2>6, <2>7 DEF PathsSound
<1>13. ASSUME NEW p \in DOMAIN pipes PROVE pipes'[p].deps = pipes[p].deps
  <2>1. pipes[p] \in PipeType
    BY <1>2
  <2> HIDE DEF Reverse
  <2> QED
    BY <1>1, <2>1 DEF PipeType
<1>14. ASSUME FeedInv PROVE FeedInv'
  <2>1. FramesFed'
    BY <1>1 DEF FramesFed
  <2>2. SinksFed'
    <3>1. ASSUME NEW s, SinkFed(s) PROVE SinkFed(s)'
      BY <1>1, <3>1 DEF SinkFed
    <3> QED
      BY <1>1, <1>14, <3>1 DEF FeedInv, SinksFed
  <2>3. ASSUME NEW p \in DOMAIN pipes, NEW s, Dep(p, s) PROVE Dep(p, s)'
    BY <1>3, <1>4, <1>13, <2>3 DEF Dep
  <2>4. ASSUME NEW m \in DOMAIN metas', NEW p \in ToSet(metas'[m].pipes) PROVE PipeFed(m, p)'
    <3>1. m \in DOMAIN metas /\ p \in ToSet(metas[m].pipes) /\ PipeFed(m, p)
      BY <1>1, <1>14 DEF FeedInv, PipesFed
    <3>2. p \in DOMAIN pipes /\ Base(m) \in DOMAIN pipes /\ Base(m)' = Base(m)
      BY <1>5, <3>1, MetaFacts
    <3>3. Reads(p)' = Reads(p)
      BY <1>1, <1>3, <3>2 DEF Reads
    <3>4. \A r \in Reads(p) : plan[r].type \in Readable /\ \A s \in FilledBy(plan, r) : \A x : x = Base(m) => Dep(x, s)'
      BY <2>3, <3>1, <3>2 DEF PipeFed
    <3>5. \A r \in Reads(p)' : plan'[r].type \in Readable /\ \A s \in FilledBy(plan', r) : Dep(Base(m), s)'
      <4>1. \A s : (\A x : x = Base(m) => Dep(x, s)') => Dep(Base(m), s)'
        BY <3>2 DEF Dep
      <4> QED
        BY <1>1, <3>3, <3>4, <4>1
    <3>6. /\ ToSet(pipes[p].ops) \subseteq OfType(plan, Streams \cup Joins)
          /\ pipes[p].sink # NoOp =>
                ToSet(pipes[p].ops) \cup ({pipes[p].source} \cap JoinOps) \subseteq ToSet(Way(plan, pipes[p].sink))
      BY <3>1 DEF PipeFed
    <3>7. /\ ToSet(pipes'[p].ops) \subseteq OfType(plan', Streams \cup Joins)
          /\ pipes'[p].sink # NoOp =>
                ToSet(pipes'[p].ops) \cup ({pipes'[p].source} \cap JoinOps') \subseteq ToSet(Way(plan', pipes'[p].sink))
      BY <1>1, <1>3, <1>5, <3>2, <3>6
    <3> QED
      BY <3>5, <3>7 DEF PipeFed
  <2> QED
    BY <2>1, <2>2, <2>4 DEF FeedInv, PipesFed
<1> QED
  BY <1>6, <1>7, <1>8, <1>9, <1>10, <1>11, <1>12, <1>14 DEF BuildInv

-----------------------------------------------------------------------------
(***************************************************************************)
(* The schedule.                                                           *)
(***************************************************************************)
IInv == BuildInv /\ ScheduleInv

\* With all calls made, each pipeline has a source, and none begins its
\* meta-pipeline at a join.
LEMMA BuiltFacts ==
    ASSUME BuildInv, stack = <<>>
    PROVE  /\ \A p \in DOMAIN pipes : pipes[p].source \in Ops(plan)
           /\ \A m \in DOMAIN metas : Base(m) \in ToSet(metas[m].pipes) /\ Base(m) \in DOMAIN pipes /\ Runs(Base(m))
           /\ \A m \in DOMAIN metas : metas[m].pipes \in Seq(DOMAIN pipes)
           /\ \A m \in DOMAIN metas : metas[m].kids \in Seq(DOMAIN metas)
           /\ metas[1].kids # <<>> /\ 1 \in DOMAIN metas
<1>1. \A p \in DOMAIN pipes : pipes[p].source \in Ops(plan)
  BY DEF BuildInv, SourcesComing
<1>2. metas \in Seq(MetaType) /\ DOMAIN metas = 1 .. Len(metas) /\ Len(metas) \in Nat
  BY DEF BuildInv, BuildTyped
<1>3. ASSUME NEW m \in DOMAIN metas
      PROVE  /\ Base(m) \in ToSet(metas[m].pipes) /\ Base(m) \in DOMAIN pipes /\ Runs(Base(m))
             /\ metas[m].pipes \in Seq(DOMAIN pipes) /\ metas[m].kids \in Seq(DOMAIN metas)
  <2>1. MetaSound(m) /\ metas[m] \in MetaType
    BY <1>2 DEF BuildInv, MetasSound
  <2>2. metas[m].pipes \in Seq(Nat) /\ metas[m].kids \in Seq(Nat)
    BY <2>1 DEF MetaType
  <2>3. 1 \in DOMAIN metas[m].pipes /\ Base(m) = metas[m].pipes[1]
    BY <2>1, <2>2 DEF MetaSound, Base
  <2>4. Base(m) \in ToSet(metas[m].pipes) /\ Base(m) \in DOMAIN pipes
    BY <2>1, <2>3 DEF MetaSound, ToSet
  <2>5. pipes[Base(m)].source \notin JoinOps
    BY <2>4 DEF BuildInv, OpsSound
  <2>6. Runs(Base(m))
    BY <1>1, <2>4, <2>5 DEF Runs, JoinOps, OfType, Joins
  <2>7. \A i \in DOMAIN metas[m].pipes : metas[m].pipes[i] \in DOMAIN pipes
    BY <2>1 DEF MetaSound
  <2>8. \A i \in DOMAIN metas[m].kids : metas[m].kids[i] \in DOMAIN metas
    BY <1>2, <2>1 DEF MetaSound
  <2>9. metas[m].pipes \in Seq(DOMAIN pipes)
    BY <2>2, <2>7, IsASeq
  <2>10. metas[m].kids \in Seq(DOMAIN metas)
    BY <2>2, <2>8, IsASeq
  <2> QED
    BY <2>4, <2>6, <2>9, <2>10
<1>4. metas[1].kids # <<>> /\ 1 \in DOMAIN metas
  BY <1>2 DEF BuildInv, MetasSound
<1> QED
  BY <1>1, <1>3, <1>4

LEMMA InitScheduleInv ==
    ASSUME Init
    PROVE  ScheduleInv
<1>1. /\ mode = "build" /\ calls = <<>> /\ toSchedule = <<>> /\ cursor = 0 /\ count = 0
      /\ inside = <<>> /\ scheduled = <<>> /\ next = 1
  BY DEF Init
<1>2. \A S : <<>> \in Seq(S)
  OBVIOUS
<1>3. ScheduleTyped
  BY <1>1, <1>2 DEF ScheduleTyped
<1>4. InOrder
  BY <1>1 DEF InOrder
<1> QED
  BY <1>3, <1>4 DEF ScheduleInv

LEMMA BuildPipelinesStep ==
    ASSUME IInv, BuildPipelines
    PROVE  IInv'
<1>1. /\ mode = "build" /\ mode' = mode /\ BuildNext /\ calls' = calls /\ toSchedule' = toSchedule /\ cursor' = cursor
      /\ count' = count /\ inside' = inside /\ scheduled' = scheduled /\ next' = next
  BY DEF BuildPipelines, scheduleVars, runVars
<1>2. BuildInv'
  BY <1>1, BuildSteps DEF IInv
<1>3. /\ calls = <<>> /\ toSchedule = <<>> /\ cursor = 0 /\ count = 0 /\ inside = <<>> /\ scheduled = <<>> /\ next = 1
  BY <1>1 DEF IInv, ScheduleInv, ScheduleTyped
<1>4. \A S : <<>> \in Seq(S)
  OBVIOUS
<1>5. ScheduleTyped'
  BY <1>1, <1>3, <1>4 DEF ScheduleTyped
<1>6. InOrder'
  BY <1>1, <1>3 DEF InOrder
<1> QED
  BY <1>2, <1>5, <1>6 DEF IInv, ScheduleInv

LEMMA ReadyKeeps ==
    ASSUME IInv, Ready
    PROVE  IInv'
<1>1. /\ mode = "build" /\ mode' = "schedule" /\ stack = <<>> /\ stack' = <<>> /\ calls' = metas[1].kids
      /\ metas' = metas /\ toSchedule' = toSchedule /\ cursor' = cursor
      /\ count' = count /\ inside' = inside /\ scheduled' = scheduled /\ next' = next
  BY DEF Ready, runVars
<1>2. BuildInv'
  BY ReadyStep DEF IInv
<1>3. /\ toSchedule = <<>> /\ cursor = 0 /\ count = 0 /\ inside = <<>> /\ scheduled = <<>> /\ next = 1
  BY <1>1 DEF IInv, ScheduleInv, ScheduleTyped
<1>4. \A S : <<>> \in Seq(S)
  OBVIOUS
<1>5. calls' \in Seq(DOMAIN metas) /\ calls' # <<>>
  BY <1>1, BuiltFacts DEF IInv
<1>6. ScheduleTyped'
  BY <1>1, <1>3, <1>4, <1>5 DEF ScheduleTyped
<1>7. InOrder'
  BY <1>1, <1>3 DEF InOrder
<1> QED
  BY <1>2, <1>6, <1>7 DEF IInv, ScheduleInv

\* What stays when the plan, its pipelines and the pushed ones stay.
LEMMA BuildStays ==
    ASSUME BuildInv, buildVars' = buildVars
    PROVE  BuildInv' /\ plan' = plan /\ metas' = metas /\ pipes' = pipes /\ stack' = stack
<1>1. plan' = plan /\ metas' = metas /\ pipes' = pipes /\ stack' = stack /\ scanDeps' = scanDeps
  BY DEF buildVars
<1>2. JoinOps' = JoinOps /\ Placed' = Placed
  BY <1>1 DEF JoinOps, Placed
<1>3. BuildTyped' /\ SourcesComing'
  BY <1>1 DEF BuildInv, BuildTyped, SourcesComing
<1>4. MetasSound'
  BY <1>1 DEF BuildInv, MetasSound, MetaSound
<1>5. FramesSound'
  <2>1. ASSUME NEW f, FrameSound(f) PROVE FrameSound(f)'
    BY <1>1, <1>2, <2>1 DEF FrameSound, Base, Sub
  <2>2. ASSUME NEW f, NEW g, Apart(f, g) PROVE Apart(f, g)'
    BY <1>1, <2>2 DEF Apart, Sub
  <2>3. \A i \in DOMAIN stack : FrameSound(stack[i])'
    <3> TAKE i \in DOMAIN stack
    <3>1. FrameSound(stack[i])
      BY DEF BuildInv, FramesSound
    <3>2. \A f : f = stack[i] => FrameSound(f)'
      BY <2>1, <3>1
    <3> QED
      BY <1>1, <3>2 DEF FrameSound
  <2>4. \A i, k \in DOMAIN stack : i < k => Apart(stack[i], stack[k])'
    BY <1>1 DEF BuildInv, FramesSound, Apart, Sub
  <2> QED
    BY <1>1, <2>3, <2>4 DEF FramesSound
<1>6. OpsSound'
  <2>1. \A m \in DOMAIN metas : Base(m)' = Base(m)
    BY <1>1 DEF Base
  <2>2. /\ \A p, q \in DOMAIN pipes :
              ToSet(pipes[p].ops) \cap ToSet(pipes[q].ops) # {} => pipes[p].sink = pipes[q].sink
        /\ \A p \in DOMAIN pipes : IsInjective(pipes[p].ops)
        /\ \A p \in DOMAIN pipes : pipes[p].source \in JoinOps =>
              /\ pipes[p].source \in Placed
              /\ \A m \in DOMAIN metas : p # Base(m)
              /\ \A q \in DOMAIN pipes : pipes[p].source \in ToSet(pipes[q].ops) =>
                    q < p /\ pipes[q].sink = pipes[p].sink
    BY DEF BuildInv, OpsSound
  <2>3. \A p \in DOMAIN pipes' : pipes'[p].source \in JoinOps' => \A m \in DOMAIN metas' : p # Base(m)'
    BY <1>1, <1>2, <2>1, <2>2
  <2>4. \A p \in DOMAIN pipes' : pipes'[p].source \in JoinOps' =>
          /\ pipes'[p].source \in Placed'
          /\ \A q \in DOMAIN pipes' : pipes'[p].source \in ToSet(pipes'[q].ops) =>
                q < p /\ pipes'[q].sink = pipes'[p].sink
    BY <1>1, <1>2, <2>2
  <2>5. /\ \A p \in DOMAIN pipes' : IsInjective(pipes'[p].ops)
        /\ \A p, q \in DOMAIN pipes' :
              ToSet(pipes'[p].ops) \cap ToSet(pipes'[q].ops) # {} => pipes'[p].sink = pipes'[q].sink
    BY <1>1, <2>2
  <2> QED
    BY <2>3, <2>4, <2>5 DEF OpsSound
<1>7. ChildrenWait'
  BY <1>1, <1>2 DEF BuildInv, ChildrenWait, Waits
<1>8. ScansSound'
  BY <1>1 DEF BuildInv, ScansSound, Sub
<1>9. PathsSound'
  BY <1>1, <1>2 DEF BuildInv, PathsSound, Reach, IsSource
<1> QED
  BY <1>1, <1>3, <1>4, <1>5, <1>6, <1>7, <1>8, <1>9 DEF BuildInv

LEMMA CallsStep ==
    ASSUME IInv, GetMetaPipelines
    PROVE  IInv'
<1>1. /\ mode = "schedule" /\ mode' = mode /\ calls # <<>> /\ toSchedule' = Append(toSchedule, Head(calls))
      /\ calls' = metas[Head(calls)].kids \o Tail(calls) /\ buildVars' = buildVars /\ cursor' = cursor
      /\ count' = count /\ inside' = inside /\ scheduled' = scheduled /\ next' = next
  BY DEF GetMetaPipelines, runVars
<1>2. BuildInv' /\ plan' = plan /\ metas' = metas /\ pipes' = pipes /\ stack' = stack
  BY <1>1, BuildStays DEF IInv
<1>3. ScheduleTyped /\ InOrder /\ stack = <<>>
  BY <1>1 DEF IInv, ScheduleInv, ScheduleTyped
<1>4. calls \in Seq(DOMAIN metas) /\ toSchedule \in Seq(DOMAIN metas) /\ cursor \in Nat
  BY <1>3 DEF ScheduleTyped
<1>5. Head(calls) \in DOMAIN metas /\ Tail(calls) \in Seq(DOMAIN metas)
  BY <1>1, <1>4
<1>6. metas[Head(calls)].kids \in Seq(DOMAIN metas)
  BY <1>3, <1>5, BuiltFacts DEF IInv
<1>7. calls' \in Seq(DOMAIN metas)
  BY <1>1, <1>5, <1>6, ConcatFacts
<1>8. /\ toSchedule' \in Seq(DOMAIN metas) /\ Len(toSchedule') = Len(toSchedule) + 1 /\ Len(toSchedule) \in Nat
      /\ toSchedule' # <<>>
  BY <1>1, <1>4, <1>5
<1>9. cursor < Len(toSchedule')
  <2>1. toSchedule # <<>> => cursor < Len(toSchedule)
    BY <1>3 DEF ScheduleTyped
  <2>2. toSchedule = <<>> => cursor = 0
    BY <1>3 DEF ScheduleTyped
  <2> QED
    BY <1>4, <1>8, <2>1, <2>2
<1>10. ScheduleTyped'
  BY <1>1, <1>2, <1>3, <1>7, <1>8, <1>9 DEF ScheduleTyped, Runs
<1>11. InOrder'
  BY <1>1, <1>2, <1>3 DEF InOrder, Runs
<1> QED
  BY <1>2, <1>10, <1>11 DEF IInv, ScheduleInv

LEMMA TurnStep ==
    ASSUME IInv, ScheduleTurn
    PROVE  IInv'
<1>1. /\ mode = "schedule" /\ mode' = mode /\ calls = <<>> /\ calls' = calls /\ inside = <<>>
      /\ toSchedule' = toSchedule /\ buildVars' = buildVars /\ scheduled' = scheduled /\ next' = next
      /\ cursor' = (cursor + 1) % Len(toSchedule)
      /\ \/ inside' = metas[Current].pipes /\ count' = count + 1
         \/ inside' = inside /\ count' = count
  BY DEF ScheduleTurn, BetweenTurns, runVars
<1>2. BuildInv' /\ plan' = plan /\ metas' = metas /\ pipes' = pipes /\ stack' = stack
  BY <1>1, BuildStays DEF IInv
<1>3. ScheduleTyped /\ InOrder /\ stack = <<>> /\ BuildInv
  BY <1>1 DEF IInv, ScheduleInv, ScheduleTyped
<1>4. toSchedule \in Seq(DOMAIN metas) /\ cursor \in Nat /\ count \in Nat /\ toSchedule # <<>> /\ cursor < Len(toSchedule)
  BY <1>1, <1>3 DEF ScheduleTyped
<1>5. Current \in DOMAIN metas
  <2>1. Len(toSchedule) - cursor \in DOMAIN toSchedule
    BY <1>4
  <2> QED
    BY <1>4, <2>1 DEF Current
<1>6. /\ metas[Current].pipes \in Seq(DOMAIN pipes)
      /\ Base(Current) \in ToSet(metas[Current].pipes) /\ Runs(Base(Current))
  BY <1>3, <1>5, BuiltFacts
<1>7. cursor' \in Nat /\ cursor' < Len(toSchedule)
  <2>1. Len(toSchedule) \in Nat \ {0} /\ cursor + 1 \in Nat
    BY <1>4
  <2> HIDE DEF Current
  <2>2. \A a \in Nat, b \in Nat \ {0} : a % b \in 0 .. b - 1
    OBVIOUS
  <2>3. (cursor + 1) % Len(toSchedule) \in 0 .. Len(toSchedule) - 1
    BY <2>1, <2>2
  <2> QED
    BY <1>1, <2>1, <2>3
<1>8. inside' \in Seq(DOMAIN pipes) /\ count' \in Nat
  <2>1. inside \in Seq(DOMAIN pipes) /\ count + 1 \in Nat
    BY <1>3, <1>4 DEF ScheduleTyped
  <2> HIDE DEF Current
  <2> QED
    BY <1>1, <1>4, <1>6, <2>1
<1>9. count' # 0 => \E p \in ToSet(inside') \cup ToSet(scheduled) : Runs(p)
  <2>1. CASE inside' = metas[Current].pipes
    BY <1>6, <2>1
  <2>2. CASE inside' = inside /\ count' = count
    BY <1>3, <2>2 DEF ScheduleTyped
  <2> QED
    BY <1>1, <2>1, <2>2
<1>10. \A p : Runs(p)' <=> Runs(p)
  BY <1>2 DEF Runs
<1>11. ScheduleTyped'
  <2>1. /\ mode' = "schedule" /\ stack' = <<>> /\ calls' \in Seq(DOMAIN metas') /\ toSchedule' \in Seq(DOMAIN metas')
        /\ toSchedule' # <<>> /\ inside' \in Seq(DOMAIN pipes') /\ scheduled' \in Seq(DOMAIN pipes') /\ next' = 1
    BY <1>1, <1>2, <1>3, <1>4, <1>8 DEF ScheduleTyped
  <2>2. count' # 0 => \E p \in ToSet(inside') \cup ToSet(scheduled') : Runs(p)'
    BY <1>1, <1>9, <1>10
  <2> QED
    BY <1>1, <1>7, <1>8, <2>1, <2>2 DEF ScheduleTyped
<1>12. ASSUME NEW k \in DOMAIN inside', NEW q \in DOMAIN pipes,
              q < inside'[k], pipes[q].sink = pipes[inside'[k]].sink
       PROVE  \E i \in DOMAIN inside' : i < k /\ inside'[i] = q
  <2>1. inside' = metas[Current].pipes
    <3>1. inside' # inside
      BY <1>1
    <3> QED
      BY <1>1, <3>1
  <2>2. PICK m \in DOMAIN metas : q \in ToSet(metas[m].pipes)
    BY <1>3 DEF BuildInv, MetasSound
  <2>3. PICK i \in DOMAIN metas[m].pipes : metas[m].pipes[i] = q
    BY <2>2 DEF ToSet
  <2>4. MetaSound(m) /\ MetaSound(Current)
    BY <1>3, <1>5 DEF BuildInv, MetasSound
  <2>5. pipes[q].sink = metas[m].sink /\ pipes[inside'[k]].sink = metas[Current].sink
    BY <2>1, <2>3, <2>4 DEF MetaSound
  <2>6. m = Current
    BY <1>3, <1>5, <1>12, <2>5 DEF BuildInv, MetasSound
  <2>7. i \in DOMAIN inside' /\ inside'[i] = q /\ DOMAIN inside' = 1 .. Len(inside')
    BY <1>8, <2>1, <2>3, <2>6
  <2>8. \A a, b \in DOMAIN inside' : a < b => inside'[a] < inside'[b]
    BY <2>1, <2>4 DEF MetaSound
  <2>9. DOMAIN pipes \subseteq Nat
    BY <1>3 DEF BuildInv, BuildTyped
  <2>10. i \in Nat /\ k \in Nat /\ q \in Nat /\ inside'[k] \in Nat
    BY <1>8, <2>7, <2>9
  <2>11. i # k /\ ~ (k < i)
    BY <1>12, <2>7, <2>8, <2>10
  <2> QED
    BY <2>7, <2>10, <2>11
<1>13. InOrder'
  <2>1. \A k \in DOMAIN scheduled' :
          /\ Runs(scheduled'[k])
          /\ \A q \in DOMAIN pipes :
                q < scheduled'[k] /\ pipes[q].sink = pipes[scheduled'[k]].sink /\ Runs(q)
                    => \E i \in DOMAIN scheduled' : i < k /\ scheduled'[i] = q
    BY <1>1, <1>3 DEF InOrder
  <2>2. \A k \in DOMAIN inside' :
          \A q \in DOMAIN pipes :
                q < inside'[k] /\ pipes[q].sink = pipes[inside'[k]].sink /\ Runs(q)
                    => q \in ToSet(scheduled') \/ \E i \in DOMAIN inside' : i < k /\ inside'[i] = q
    BY <1>12
  <2> QED
    BY <1>2, <1>10, <2>1, <2>2 DEF InOrder
<1> QED
  BY <1>2, <1>11, <1>13 DEF IInv, ScheduleInv

LEMMA PushStep ==
    ASSUME IInv, PushPipeline
    PROVE  IInv'
<1> DEFINE p == Head(inside)
<1>1. /\ mode = "schedule" /\ mode' = mode /\ calls' = calls /\ inside # <<>> /\ inside' = Tail(inside)
      /\ toSchedule' = toSchedule /\ buildVars' = buildVars /\ next' = next /\ cursor' = cursor /\ count' = count
      /\ scheduled' = IF Runs(p) THEN Append(scheduled, p) ELSE scheduled
  BY DEF PushPipeline, runVars
<1>2. BuildInv' /\ plan' = plan /\ metas' = metas /\ pipes' = pipes /\ stack' = stack
  BY <1>1, BuildStays DEF IInv
<1>3. ScheduleTyped /\ InOrder /\ stack = <<>> /\ BuildInv
  BY <1>1 DEF IInv, ScheduleInv, ScheduleTyped
<1>4. inside \in Seq(DOMAIN pipes) /\ scheduled \in Seq(DOMAIN pipes)
  BY <1>3 DEF ScheduleTyped
<1>5. /\ p \in DOMAIN pipes /\ p = inside[1] /\ 1 \in DOMAIN inside /\ inside' \in Seq(DOMAIN pipes)
      /\ DOMAIN inside = 1 .. Len(inside) /\ DOMAIN inside' = 1 .. Len(inside) - 1
      /\ \A k \in DOMAIN inside' : k + 1 \in DOMAIN inside /\ inside'[k] = inside[k + 1]
  BY <1>1, <1>4
<1>6. scheduled' \in Seq(DOMAIN pipes) /\ ToSet(scheduled) \subseteq ToSet(scheduled') /\ (Runs(p) => p \in ToSet(scheduled'))
  <2>1. Append(scheduled, p) \in Seq(DOMAIN pipes) /\ ToSet(Append(scheduled, p)) = ToSet(scheduled) \cup {p}
    BY <1>4, <1>5, AppendFacts
  <2> QED
    BY <1>1, <1>4, <2>1
<1>7. \A x : Runs(x)' <=> Runs(x)
  BY <1>2 DEF Runs
<1>8. \A k \in DOMAIN inside : k = 1 \/ (k - 1 \in DOMAIN inside' /\ inside'[k - 1] = inside[k])
  <2> TAKE k \in DOMAIN inside
  <2>1. k # 1 => k - 1 \in DOMAIN inside' /\ (k - 1) + 1 = k
    BY <1>5
  <2> QED
    BY <1>5, <2>1
<1> HIDE DEF p
<1>9. count' # 0 => \E x \in ToSet(inside') \cup ToSet(scheduled') : Runs(x)
  <2> HAVE count' # 0
  <2>1. PICK x \in ToSet(inside) \cup ToSet(scheduled) : Runs(x)
    BY <1>1, <1>3 DEF ScheduleTyped
  <2>2. ASSUME x \in ToSet(inside) PROVE x = p \/ x \in ToSet(inside')
    <3>1. PICK k \in DOMAIN inside : inside[k] = x
      BY <2>2 DEF ToSet
    <3>2. CASE k = 1
      BY <1>5, <3>1, <3>2
    <3>3. CASE k # 1
      <4>1. k - 1 \in DOMAIN inside' /\ inside'[k - 1] = x
        BY <1>8, <3>1, <3>3
      <4> QED
        BY <4>1 DEF ToSet
    <3> QED
      BY <3>2, <3>3
  <2> QED
    BY <1>6, <2>1, <2>2
<1>10. ScheduleTyped'
  <2>1. count' # 0 => \E x \in ToSet(inside') \cup ToSet(scheduled') : Runs(x)'
    BY <1>7, <1>9
  <2> QED
    BY <1>1, <1>2, <1>3, <1>5, <1>6, <2>1 DEF ScheduleTyped
<1>11. \A k \in DOMAIN inside :
          \A q \in DOMAIN pipes :
                q < inside[k] /\ pipes[q].sink = pipes[inside[k]].sink /\ Runs(q)
                    => q \in ToSet(scheduled) \/ \E i \in DOMAIN inside : i < k /\ inside[i] = q
  BY <1>3 DEF InOrder
<1>12. \A k \in DOMAIN inside' :
          \A q \in DOMAIN pipes :
                q < inside'[k] /\ pipes[q].sink = pipes[inside'[k]].sink /\ Runs(q)
                    => q \in ToSet(scheduled') \/ \E i \in DOMAIN inside' : i < k /\ inside'[i] = q
  <2> SUFFICES ASSUME NEW k \in DOMAIN inside', NEW q \in DOMAIN pipes,
                      q < inside'[k], pipes[q].sink = pipes[inside'[k]].sink, Runs(q)
               PROVE  q \in ToSet(scheduled') \/ \E i \in DOMAIN inside' : i < k /\ inside'[i] = q
    OBVIOUS
  <2>1. k + 1 \in DOMAIN inside /\ inside'[k] = inside[k + 1] /\ k \in Nat
    BY <1>5
  <2>2. q \in ToSet(scheduled) \/ \E i \in DOMAIN inside : i < k + 1 /\ inside[i] = q
    BY <1>11, <2>1
  <2>3. ASSUME NEW i \in DOMAIN inside, i < k + 1, inside[i] = q
        PROVE  q \in ToSet(scheduled') \/ \E h \in DOMAIN inside' : h < k /\ inside'[h] = q
    <3>1. CASE i = 1
      BY <1>5, <1>6, <2>3, <3>1
    <3>2. CASE i # 1
      <4>1. i - 1 \in DOMAIN inside' /\ inside'[i - 1] = q
        BY <1>8, <2>3, <3>2
      <4>2. i - 1 < k
        BY <1>5, <2>1, <2>3
      <4> QED
        BY <4>1, <4>2
    <3> QED
      BY <3>1, <3>2
  <2> QED
    BY <1>6, <2>2, <2>3
<1>13. \A k \in DOMAIN scheduled' :
          /\ Runs(scheduled'[k])
          /\ \A q \in DOMAIN pipes :
                q < scheduled'[k] /\ pipes[q].sink = pipes[scheduled'[k]].sink /\ Runs(q)
                    => \E i \in DOMAIN scheduled' : i < k /\ scheduled'[i] = q
  <2>0. \A k \in DOMAIN scheduled :
          /\ Runs(scheduled[k])
          /\ \A q \in DOMAIN pipes :
                q < scheduled[k] /\ pipes[q].sink = pipes[scheduled[k]].sink /\ Runs(q)
                    => \E i \in DOMAIN scheduled : i < k /\ scheduled[i] = q
    BY <1>3 DEF InOrder
  <2>1. CASE ~ Runs(p)
    BY <1>1, <2>0, <2>1
  <2>2. CASE Runs(p)
    <3> DEFINE t == Append(scheduled, p)
    <3>1. /\ DOMAIN t = 1 .. Len(scheduled) + 1 /\ DOMAIN scheduled = 1 .. Len(scheduled)
          /\ \A i \in DOMAIN scheduled : t[i] = scheduled[i]
          /\ t[Len(scheduled) + 1] = p /\ Len(scheduled) \in Nat
      BY <1>4, <1>5, AppendFacts
    <3>2. scheduled' = t
      BY <1>1, <2>2
    <3> HIDE DEF t
    <3>3. ASSUME NEW k \in DOMAIN scheduled
          PROVE  /\ Runs(t[k])
                 /\ \A q \in DOMAIN pipes :
                       q < t[k] /\ pipes[q].sink = pipes[t[k]].sink /\ Runs(q) => \E i \in DOMAIN t : i < k /\ t[i] = q
      <4>1. DOMAIN scheduled \subseteq DOMAIN t
        BY <3>1
      <4> QED
        BY <2>0, <3>1, <4>1
    <3>4. ASSUME NEW q \in DOMAIN pipes, q < p, pipes[q].sink = pipes[p].sink, Runs(q)
          PROVE  \E i \in DOMAIN t : i < Len(scheduled) + 1 /\ t[i] = q
      <4>1. q \in ToSet(scheduled) \/ \E i \in DOMAIN inside : i < 1 /\ inside[i] = q
        BY <1>5, <1>11, <3>4
      <4>2. \A i \in DOMAIN inside : ~ (i < 1)
        BY <1>5
      <4>3. PICK i \in DOMAIN scheduled : scheduled[i] = q
        BY <4>1, <4>2 DEF ToSet
      <4> QED
        BY <3>1, <4>3
    <3>5. \A k \in DOMAIN t : k \in DOMAIN scheduled \/ k = Len(scheduled) + 1
      BY <3>1
    <3> QED
      BY <2>2, <3>1, <3>2, <3>3, <3>4, <3>5
  <2> QED
    BY <2>1, <2>2
<1>14. InOrder'
  BY <1>2, <1>7, <1>12, <1>13 DEF InOrder
<1> QED
  BY <1>2, <1>10, <1>14 DEF IInv, ScheduleInv

LEMMA StartStep ==
    ASSUME IInv, StartExecution
    PROVE  IInv'
<1>1. /\ mode = "schedule" /\ mode' = "execute" /\ calls = <<>> /\ inside = <<>> /\ count = Len(toSchedule)
      /\ buildVars' = buildVars /\ calls' = calls /\ toSchedule' = toSchedule /\ cursor' = cursor /\ count' = count
      /\ inside' = inside /\ scheduled' = scheduled /\ next' = next
  BY DEF StartExecution, BetweenTurns, scheduleVars, runVars
<1>2. BuildInv' /\ plan' = plan /\ metas' = metas /\ pipes' = pipes /\ stack' = stack
  BY <1>1, BuildStays DEF IInv
<1>3. ScheduleTyped /\ InOrder
  BY DEF IInv, ScheduleInv
<1>4. toSchedule \in Seq(DOMAIN metas) /\ toSchedule # <<>> /\ scheduled \in Seq(DOMAIN pipes) /\ next = 1
  BY <1>1, <1>3 DEF ScheduleTyped
<1>5. count # 0
  BY <1>1, <1>4
<1>6. ToSet(inside) = {}
  BY <1>1 DEF ToSet
<1>7. \E p \in ToSet(scheduled) : Runs(p)
  BY <1>3, <1>5, <1>6 DEF ScheduleTyped
<1>8. DOMAIN scheduled # {}
  BY <1>7 DEF ToSet
<1>9. next \in DOMAIN scheduled
  BY <1>4, <1>8
<1>10. ScheduleTyped'
  BY <1>1, <1>2, <1>3, <1>4, <1>9 DEF ScheduleTyped, Runs
<1>11. InOrder'
  BY <1>1, <1>2, <1>3 DEF InOrder, Runs
<1> QED
  BY <1>2, <1>10, <1>11 DEF IInv, ScheduleInv

LEMMA RunStep ==
    ASSUME IInv, RunPipeline
    PROVE  IInv'
<1>1. /\ mode = "execute" /\ mode' = IF next = Len(scheduled) THEN "done" ELSE mode
      /\ buildVars' = buildVars /\ calls' = calls /\ toSchedule' = toSchedule /\ cursor' = cursor /\ count' = count
      /\ inside' = inside /\ scheduled' = scheduled /\ next' = next + 1
  BY DEF RunPipeline, scheduleVars
<1>2. BuildInv' /\ plan' = plan /\ metas' = metas /\ pipes' = pipes /\ stack' = stack
  BY <1>1, BuildStays DEF IInv
<1>3. ScheduleTyped /\ InOrder
  BY DEF IInv, ScheduleInv
<1>4. scheduled \in Seq(DOMAIN pipes) /\ next \in DOMAIN scheduled /\ inside = <<>> /\ stack = <<>>
  BY <1>1, <1>3 DEF ScheduleTyped
<1>5. next' \in Nat \ {0} /\ (mode' = "execute" => next' \in DOMAIN scheduled)
  <2>1. DOMAIN scheduled = 1 .. Len(scheduled) /\ Len(scheduled) \in Nat
    BY <1>4
  <2>2. next \in Nat \ {0}
    BY <1>4, <2>1
  <2>3. next # Len(scheduled) => next + 1 \in DOMAIN scheduled
    BY <1>4, <2>1
  <2> QED
    BY <1>1, <2>2, <2>3
<1>6. mode' \in {"execute", "done"}
  BY <1>1
<1>7. ScheduleTyped'
  BY <1>1, <1>2, <1>3, <1>4, <1>5, <1>6 DEF ScheduleTyped, Runs
<1>8. InOrder'
  BY <1>1, <1>2, <1>3 DEF InOrder, Runs
<1> QED
  BY <1>2, <1>7, <1>8 DEF IInv, ScheduleInv

LEMMA ThrowStep ==
    ASSUME IInv, Throw \/ UNCHANGED vars
    PROVE  IInv'
<1>1. /\ buildVars' = buildVars /\ calls' = calls /\ toSchedule' = toSchedule /\ cursor' = cursor /\ count' = count
      /\ inside' = inside /\ scheduled' = scheduled /\ next' = next
      /\ mode' = mode \/ (mode = "execute" /\ mode' = "thrown")
  BY DEF Throw, vars, scheduleVars, runVars
<1>2. BuildInv' /\ plan' = plan /\ metas' = metas /\ pipes' = pipes /\ stack' = stack
  BY <1>1, BuildStays DEF IInv
<1>3. ScheduleTyped /\ InOrder
  BY DEF IInv, ScheduleInv
<1>4. ScheduleTyped'
  BY <1>1, <1>2, <1>3 DEF ScheduleTyped, Runs
<1>5. InOrder'
  BY <1>1, <1>2, <1>3 DEF InOrder, Runs
<1> QED
  BY <1>2, <1>4, <1>5 DEF IInv, ScheduleInv

LEMMA Invariance ==
    Spec => []IInv
<1>1. Init => IInv
  BY InitBuildInv, InitScheduleInv DEF IInv
<1>2. IInv /\ [Next]_vars => IInv'
  <2> SUFFICES ASSUME IInv, [Next]_vars PROVE IInv'
    OBVIOUS
  <2>1. CASE BuildPipelines
    BY <2>1, BuildPipelinesStep
  <2>2. CASE Ready
    BY <2>2, ReadyKeeps
  <2>3. CASE GetMetaPipelines
    BY <2>3, CallsStep
  <2>4. CASE ScheduleTurn
    BY <2>4, TurnStep
  <2>5. CASE PushPipeline
    BY <2>5, PushStep
  <2>6. CASE StartExecution
    BY <2>6, StartStep
  <2>7. CASE RunPipeline
    BY <2>7, RunStep
  <2>8. CASE Throw \/ UNCHANGED vars
    BY <2>8, ThrowStep
  <2> QED
    BY <2>1, <2>2, <2>3, <2>4, <2>5, <2>6, <2>7, <2>8 DEF Next, Progress
<1> QED
  BY <1>1, <1>2, PTL DEF Spec

-----------------------------------------------------------------------------
\* The pipeline that scans a join's hash table for its unmatched rows runs after
\* every pipeline that probes the table: the invariant puts the probing ones into
\* the same meta-pipeline and before it, and the scheduler keeps that order.
THEOREM ScanAfterProbes ==
    Spec => []ScanFollowsProbes
<1>1. IInv => ScanFollowsProbes
  <2> SUFFICES ASSUME IInv, mode = "execute", plan[pipes[Running].source].type \in Joins,
                      NEW p \in ToSet(scheduled), pipes[Running].source \in ToSet(pipes[p].ops)
               PROVE  p \in Executed
    BY DEF ScanFollowsProbes
  <2>1. ScheduleTyped /\ InOrder /\ BuildInv
    BY DEF IInv, ScheduleInv
  <2>2. scheduled \in Seq(DOMAIN pipes) /\ next \in DOMAIN scheduled /\ stack = <<>>
    BY <2>1 DEF ScheduleTyped
  <2>3. Running \in DOMAIN pipes
    BY <2>2 DEF Running
  <2>4. pipes[Running].source \in JoinOps
    BY <2>1, <2>2, <2>3, BuiltFacts DEF JoinOps, OfType
  <2>5. PICK k \in DOMAIN scheduled : scheduled[k] = p
    BY DEF ToSet
  <2>6. p \in DOMAIN pipes /\ Runs(p)
    BY <2>1, <2>2, <2>5 DEF InOrder
  <2>7. p < Running /\ pipes[p].sink = pipes[Running].sink
    BY <2>1, <2>3, <2>4, <2>6 DEF BuildInv, OpsSound
  <2>8. PICK i \in DOMAIN scheduled : i < next /\ scheduled[i] = p
    BY <2>1, <2>2, <2>6, <2>7 DEF InOrder, Running
  <2>9. i \in 1 .. next - 1
    BY <2>2, <2>8
  <2> QED
    BY <2>8, <2>9 DEF Executed
<1> QED
  BY <1>1, Invariance, PTL

-----------------------------------------------------------------------------
(***************************************************************************)
(* The hash tables.                                                        *)
(***************************************************************************)
\* Nothing has been freed before the first pipeline runs.
LEMMA NothingFreedYet ==
    ASSUME ScheduleTyped, FreedWasProbed, next = 1
    PROVE  \A j \in DOMAIN table : table[j] # "freed"
<1>1. scheduled \in Seq(DOMAIN pipes)
  BY DEF ScheduleTyped
<1>2. \A k \in DOMAIN scheduled : ~ (k < 1)
  BY <1>1
<1> QED
  BY <1>2 DEF FreedWasProbed

\* Before the execution, what the tables are does not depend on the pipelines.
LEMMA TablesBefore ==
    ASSUME ScheduleTyped, FreedWasProbed, TablesAreLive, next = 1, plan' = plan, runVars' = runVars
    PROVE  FreedWasProbed' /\ TablesAreLive'
<1>1. table' = table /\ stale' = stale
  BY DEF runVars
<1>2. \A j \in DOMAIN table : table[j] # "freed"
  BY NothingFreedYet
<1>3. DOMAIN table = OfType(plan, {"HASH_JOIN"})
  BY DEF FreedWasProbed
<1>4. FreedWasProbed'
  BY <1>1, <1>2, <1>3 DEF FreedWasProbed
<1>5. TablesAreLive'
  BY <1>1 DEF TablesAreLive, AddsRows
<1> QED
  BY <1>4, <1>5

LEMMA InitTableInv ==
    ASSUME Init
    PROVE  TableInv
<1>1. inside = <<>> /\ scheduled = <<>> /\ stale = FALSE /\ table = [o \in OfType(plan, {"HASH_JOIN"}) |-> "none"]
  BY DEF Init
<1>2. Once
  BY <1>1 DEF Once, IsInjective, ToSet
<1>3. FreedWasProbed
  BY <1>1 DEF FreedWasProbed
<1>4. TablesAreLive
  BY <1>1 DEF TablesAreLive
<1> QED
  BY <1>2, <1>3, <1>4 DEF TableInv

\* A meta-pipeline's turn takes its pipelines in hand, none of which was pushed
\* before: its base pipeline would have been pushed before that one.
LEMMA OnceTurn ==
    ASSUME IInv, Once, ScheduleTurn
    PROVE  Once'
<1>1. /\ mode = "schedule" /\ calls = <<>> /\ inside = <<>> /\ scheduled' = scheduled
      /\ \/ ShouldSchedule /\ inside' = metas[Current].pipes
         \/ inside' = inside
  BY DEF ScheduleTurn, BetweenTurns
<1>2. CASE inside' = inside
  BY <1>1, <1>2 DEF Once
<1>3. CASE ShouldSchedule /\ inside' = metas[Current].pipes
  <2>1. ScheduleTyped /\ InOrder /\ stack = <<>> /\ BuildInv
    BY <1>1 DEF IInv, ScheduleInv, ScheduleTyped
  <2>2. /\ toSchedule \in Seq(DOMAIN metas) /\ cursor \in Nat /\ toSchedule # <<>> /\ cursor < Len(toSchedule)
        /\ scheduled \in Seq(DOMAIN pipes)
    BY <1>1, <2>1 DEF ScheduleTyped
  <2>3. Current \in DOMAIN metas
    <3>1. Len(toSchedule) - cursor \in DOMAIN toSchedule
      BY <2>2
    <3> QED
      BY <2>2, <3>1 DEF Current
  <2>4. PICK m \in DOMAIN metas : m = Current
    BY <2>3
  <2>5. /\ metas[m].pipes \in Seq(DOMAIN pipes) /\ Base(m) \in DOMAIN pipes /\ Runs(Base(m)) /\ MetaSound(m)
        /\ DOMAIN pipes \subseteq Nat
    <3>1. /\ \A n \in DOMAIN metas : Base(n) \in DOMAIN pipes /\ Runs(Base(n))
          /\ \A n \in DOMAIN metas : metas[n].pipes \in Seq(DOMAIN pipes)
      BY <2>1, BuiltFacts
    <3>2. metas[m].pipes \in Seq(DOMAIN pipes) /\ Base(m) \in DOMAIN pipes /\ Runs(Base(m))
      BY <3>1
    <3>3. MetaSound(m)
      BY <2>1 DEF BuildInv, MetasSound
    <3>4. DOMAIN pipes \subseteq Nat
      BY <2>1 DEF BuildInv, BuildTyped
    <3> QED
      BY <3>2, <3>3, <3>4
  <2>6. Base(m) \notin ToSet(scheduled) /\ inside' = metas[m].pipes
    BY <1>3, <2>4 DEF ShouldSchedule
  <2> DEFINE ps == metas[m].pipes
  <2>7. /\ ps \in Seq(DOMAIN pipes) /\ 1 \in DOMAIN ps /\ ps[1] = Base(m) /\ DOMAIN ps \subseteq Nat
        /\ \A i \in DOMAIN ps : 1 <= i
    <3>1. ps # <<>> /\ Base(m) = ps[1]
      BY <2>5 DEF MetaSound, Base
    <3> QED
      BY <2>5, <3>1
  <2>8. /\ \A i, k \in DOMAIN ps : i < k => ps[i] < ps[k]
        /\ \A i \in DOMAIN ps : pipes[ps[i]].sink = metas[m].sink
    BY <2>5 DEF MetaSound
  <2> HIDE DEF ps
  <2>9. IsInjective(ps)
    <3>1. ASSUME NEW i \in DOMAIN ps, NEW k \in DOMAIN ps, ps[i] = ps[k] PROVE i = k
      <4>1. ps[i] \in Nat /\ i \in Nat /\ k \in Nat
        BY <2>5, <2>7
      <4>2. ~ (i < k) /\ ~ (k < i)
        BY <2>8, <3>1, <4>1
      <4> QED
        BY <4>1, <4>2
    <3> QED
      BY <3>1 DEF IsInjective
  <2>10. ASSUME NEW k \in DOMAIN scheduled, NEW i \in DOMAIN ps, scheduled[k] = ps[i] PROVE FALSE
    <3>1. i # 1
      BY <2>6, <2>7, <2>10 DEF ToSet
    <3>2. Base(m) < scheduled[k]
      BY <2>7, <2>8, <2>10, <3>1
    <3>3. pipes[Base(m)].sink = pipes[scheduled[k]].sink
      BY <2>7, <2>8, <2>10
    <3>4. \E h \in DOMAIN scheduled : h < k /\ scheduled[h] = Base(m)
      BY <2>1, <2>5, <3>2, <3>3 DEF InOrder
    <3> QED
      BY <2>6, <3>4 DEF ToSet
  <2>11. ToSet(scheduled) \cap ToSet(ps) = {}
    BY <2>10 DEF ToSet
  <2>12. inside' = ps
    BY <2>6 DEF ps
  <2> QED
    BY <1>1, <2>9, <2>11, <2>12 DEF Once
<1> QED
  BY <1>1, <1>2, <1>3

LEMMA OncePush ==
    ASSUME IInv, Once, PushPipeline
    PROVE  Once'
<1> DEFINE p == Head(inside)
           t == Append(scheduled, p)
<1>1. inside # <<>> /\ inside' = Tail(inside) /\ scheduled' = IF Runs(p) THEN t ELSE scheduled
  BY DEF PushPipeline
<1>2. inside \in Seq(DOMAIN pipes) /\ scheduled \in Seq(DOMAIN pipes)
  BY DEF IInv, ScheduleInv, ScheduleTyped
<1>3. /\ p \in DOMAIN pipes /\ p = inside[1] /\ 1 \in DOMAIN inside
      /\ DOMAIN inside' = 1 .. Len(inside) - 1 /\ DOMAIN inside = 1 .. Len(inside) /\ Len(inside) \in Nat
      /\ \A k \in DOMAIN inside' : k + 1 \in DOMAIN inside /\ inside'[k] = inside[k + 1]
  BY <1>1, <1>2
<1>4. /\ DOMAIN t = 1 .. Len(scheduled) + 1 /\ DOMAIN scheduled = 1 .. Len(scheduled)
      /\ \A i \in DOMAIN scheduled : t[i] = scheduled[i]
      /\ t[Len(scheduled) + 1] = p /\ Len(scheduled) \in Nat /\ ToSet(t) = ToSet(scheduled) \cup {p}
  BY <1>2, <1>3, AppendFacts
<1> HIDE DEF p, t
<1>5. \A i, k \in DOMAIN inside : inside[i] = inside[k] => i = k
  BY DEF Once, IsInjective
<1>6. IsInjective(inside')
  <2>1. ASSUME NEW i \in DOMAIN inside', NEW k \in DOMAIN inside', inside'[i] = inside'[k] PROVE i = k
    <3>1. inside[i + 1] = inside[k + 1] /\ i + 1 \in DOMAIN inside /\ k + 1 \in DOMAIN inside
      BY <1>3, <2>1
    <3>2. i + 1 = k + 1
      BY <1>5, <3>1
    <3> QED
      BY <1>3, <3>2
  <2> QED
    BY <2>1 DEF IsInjective
<1>7. ToSet(inside') \subseteq ToSet(inside) \ {p}
  <2>1. ASSUME NEW k \in DOMAIN inside' PROVE inside'[k] \in ToSet(inside) /\ inside'[k] # p
    <3>1. inside'[k] = inside[k + 1] /\ k + 1 \in DOMAIN inside /\ k + 1 # 1
      BY <1>3
    <3> QED
      BY <1>3, <1>5, <3>1 DEF ToSet
  <2> QED
    BY <2>1 DEF ToSet
<1>8. p \in ToSet(inside) /\ p \notin ToSet(scheduled)
  BY <1>3 DEF Once, ToSet
<1>9. IsInjective(t)
  <2>1. \A i \in DOMAIN scheduled : scheduled[i] # p
    BY <1>8 DEF ToSet
  <2>2. \A i, k \in DOMAIN scheduled : scheduled[i] = scheduled[k] => i = k
    BY DEF Once, IsInjective
  <2>3. \A k \in DOMAIN t : k \in DOMAIN scheduled \/ k = Len(scheduled) + 1
    BY <1>4
  <2>4. \A i, k \in DOMAIN t : t[i] = t[k] => i = k
    BY <1>4, <2>1, <2>2, <2>3
  <2> QED
    BY <2>4 DEF IsInjective
<1>10. ToSet(t) \cap ToSet(inside') = {} /\ ToSet(scheduled) \cap ToSet(inside') = {}
  BY <1>4, <1>7 DEF Once
<1> QED
  BY <1>1, <1>6, <1>9, <1>10 DEF Once

\* Two pipelines that probe one table are of one meta-pipeline, so one of them goes
\* on from a join on the way up to it, and runs because that join adds rows.
LEMMA ProbedTwice ==
    ASSUME BuildInv, NEW p \in DOMAIN pipes, NEW q \in DOMAIN pipes, p # q, Runs(p), Runs(q),
           NEW j \in ToSet(pipes[p].ops), j \in ToSet(pipes[q].ops)
    PROVE  \E i \in DOMAIN Path(plan)[j] : AddsRows(Path(plan)[j][i])
<1>1. pipes[p].sink = pipes[q].sink
  BY DEF BuildInv, OpsSound
<1>2. PICK m \in DOMAIN metas : p \in ToSet(metas[m].pipes)
  BY DEF BuildInv, MetasSound
<1>3. PICK n \in DOMAIN metas : q \in ToSet(metas[n].pipes)
  BY DEF BuildInv, MetasSound
<1>4. PICK a \in DOMAIN metas[m].pipes : metas[m].pipes[a] = p
  BY <1>2 DEF ToSet
<1>5. PICK b \in DOMAIN metas[n].pipes : metas[n].pipes[b] = q
  BY <1>3 DEF ToSet
<1>6. m = n
  <2>1. MetaSound(m) /\ MetaSound(n)
    BY DEF BuildInv, MetasSound
  <2>2. pipes[p].sink = metas[m].sink /\ pipes[q].sink = metas[n].sink
    BY <1>4, <1>5, <2>1 DEF MetaSound
  <2> QED
    BY <1>1, <2>2 DEF BuildInv, MetasSound
<1>7. a # 1 \/ b # 1
  BY <1>4, <1>5, <1>6
<1>8. PICK r \in {p, q} : pipes[r].source \in JoinOps
  <2>1. \A i \in DOMAIN metas[m].pipes : i = 1 \/ pipes[metas[m].pipes[i]].source \in JoinOps
    BY DEF BuildInv, PathsSound
  <2> QED
    BY <1>4, <1>5, <1>6, <1>7, <2>1
<1>9. r \in DOMAIN pipes /\ Runs(r) /\ j \in ToSet(pipes[r].ops)
  OBVIOUS
<1>10. IsSource(pipes[r].source) /\ pipes[r].source \in Reach(j)
  BY <1>8, <1>9 DEF BuildInv, PathsSound
<1>11. AddsRows(pipes[r].source)
  <2>1. plan[pipes[r].source].type \in Joins
    BY <1>8 DEF JoinOps, OfType
  <2>2. CASE plan[pipes[r].source].type = "HASH_JOIN"
    BY <1>9, <2>1, <2>2 DEF AddsRows, Runs
  <2>3. CASE plan[pipes[r].source].type # "HASH_JOIN"
    BY <1>10, <2>1, <2>3 DEF AddsRows, IsSource
  <2> QED
    BY <2>2, <2>3
<1>12. PICK i \in DOMAIN Path(plan)[j] : Path(plan)[j][i] = pipes[r].source
  BY <1>10 DEF Reach, ToSet
<1> QED
  BY <1>11, <1>12

LEMMA RunTables ==
    ASSUME IInv, TableInv, RunPipeline
    PROVE  TableInv'
<1> DEFINE p == scheduled[next]
<1>1. /\ mode = "execute" /\ Supported(p) /\ next' = next + 1
      /\ stale' = (stale \/ \E j \in UsedBy(p) : table[j] = "freed")
      /\ buildVars' = buildVars /\ scheduled' = scheduled /\ inside' = inside
      /\ DOMAIN table' = DOMAIN table
      /\ \A j \in DOMAIN table : table'[j] = "freed" => table[j] = "freed" \/ j \in FreedBy(p)
  <2>1. PICK built \in {"built", "null"} :
               table' = [j \in DOMAIN table |->
                           IF j \in ReplacedBy(pipes[p].sink) THEN built
                           ELSE IF j \in FreedBy(p) /\ table[j] = "built" THEN "freed"
                           ELSE table[j]]
    BY DEF RunPipeline
  <2>2. /\ DOMAIN table' = DOMAIN table
        /\ \A j \in DOMAIN table : table'[j] = "freed" => table[j] = "freed" \/ j \in FreedBy(p)
    BY <2>1
  <2> QED
    BY <2>2 DEF RunPipeline, scheduleVars
<1>2. plan' = plan /\ pipes' = pipes
  BY <1>1 DEF buildVars
<1>3. ScheduleTyped /\ InOrder /\ BuildInv
  BY DEF IInv, ScheduleInv
<1>4. scheduled \in Seq(DOMAIN pipes) /\ next \in DOMAIN scheduled
  BY <1>1, <1>3 DEF ScheduleTyped
<1>5. p \in DOMAIN pipes /\ DOMAIN scheduled \subseteq Nat
  BY <1>4
<1> HIDE DEF p
<1>6. /\ DOMAIN table = OfType(plan, {"HASH_JOIN"})
      /\ \A j \in DOMAIN table : table[j] = "freed" =>
            /\ plan[j].join \in {"INNER", "SEMI", "MARK"}
            /\ \E k \in DOMAIN scheduled : k < next /\ j \in ToSet(pipes[scheduled[k]].ops)
  BY DEF TableInv, FreedWasProbed
<1>7. Once'
  BY <1>1 DEF TableInv, Once
<1>8. \A j \in DOMAIN table : table'[j] = "freed" =>
            /\ plan[j].join \in {"INNER", "SEMI", "MARK"}
            /\ \E k \in DOMAIN scheduled : k < next + 1 /\ j \in ToSet(pipes[scheduled[k]].ops)
  <2> SUFFICES ASSUME NEW j \in DOMAIN table, table'[j] = "freed"
               PROVE  /\ plan[j].join \in {"INNER", "SEMI", "MARK"}
                      /\ \E k \in DOMAIN scheduled : k < next + 1 /\ j \in ToSet(pipes[scheduled[k]].ops)
    OBVIOUS
  <2>1. CASE table[j] = "freed"
    <3>1. PICK k \in DOMAIN scheduled : k < next /\ j \in ToSet(pipes[scheduled[k]].ops)
      BY <1>6, <2>1
    <3>2. k < next + 1
      BY <1>4, <1>5, <3>1
    <3> QED
      BY <1>6, <2>1, <3>1, <3>2
  <2>2. CASE j \in FreedBy(p)
    <3>1. plan[j].join \in {"INNER", "SEMI", "MARK"} /\ j \in ToSet(pipes[p].ops)
      BY <2>2 DEF FreedBy, ProbedBy
    <3>2. next < next + 1
      BY <1>4, <1>5
    <3> QED
      BY <1>4, <3>1, <3>2 DEF p
  <2> QED
    BY <1>1, <2>1, <2>2
<1>9. FreedWasProbed'
  BY <1>1, <1>2, <1>6, <1>8 DEF FreedWasProbed
<1>10. ASSUME NEW j \in UsedBy(p), table[j] = "freed"
       PROVE  /\ j \in DOMAIN table /\ plan[j].join \in {"INNER", "SEMI", "MARK"}
              /\ \E i \in DOMAIN Path(plan)[j] : AddsRows(Path(plan)[j][i])
  <2>1. j \in DOMAIN table /\ (j \in ToSet(pipes[p].ops) \/ j = pipes[p].source)
    BY DEF UsedBy, ProbedBy
  <2>2. plan[j].type = "HASH_JOIN" /\ plan[j].join \in {"INNER", "SEMI", "MARK"}
    BY <1>6, <1>10, <2>1 DEF OfType
  <2>3. Runs(p)
    BY <1>1 DEF Supported
  <2>4. j # pipes[p].source
    BY <2>2, <2>3 DEF Runs, RightTypes
  <2>5. PICK k \in DOMAIN scheduled : k < next /\ j \in ToSet(pipes[scheduled[k]].ops)
    BY <1>6, <1>10, <2>1
  <2>6. scheduled[k] \in DOMAIN pipes /\ Runs(scheduled[k])
    BY <1>3, <1>4, <2>5 DEF InOrder
  <2>7. scheduled[k] # p
    <3>1. k # next
      BY <1>4, <1>5, <2>5
    <3> QED
      BY <1>4, <2>5, <3>1 DEF p, TableInv, Once, IsInjective
  <2> QED
    BY <1>3, <1>5, <2>1, <2>2, <2>3, <2>4, <2>5, <2>6, <2>7, ProbedTwice
<1>11. \A o : AddsRows(o)' <=> AddsRows(o)
  BY <1>2 DEF AddsRows
<1>12. TablesAreLive'
  <2>1. stale' => \E j \in DOMAIN table :
               /\ plan[j].join \in {"INNER", "SEMI", "MARK"}
               /\ \E i \in DOMAIN Path(plan)[j] : AddsRows(Path(plan)[j][i])
    <3>1. CASE stale
      BY <3>1 DEF TableInv, TablesAreLive
    <3>2. CASE \E j \in UsedBy(p) : table[j] = "freed"
      BY <1>10, <3>2
    <3> QED
      BY <1>1, <3>1, <3>2
  <2> QED
    BY <1>1, <1>2, <2>1 DEF TablesAreLive, AddsRows
<1> QED
  BY <1>7, <1>9, <1>12 DEF TableInv

\* Steps that leave the pipelines in hand, the pushed ones and the tables alone.
LEMMA QuietTables ==
    ASSUME TableInv, plan' = plan, pipes' = pipes, inside' = inside, scheduled' = scheduled, runVars' = runVars
    PROVE  TableInv'
<1>1. table' = table /\ stale' = stale /\ next' = next
  BY DEF runVars
<1>2. Once'
  BY DEF TableInv, Once
<1>3. FreedWasProbed'
  BY <1>1 DEF TableInv, FreedWasProbed
<1>4. TablesAreLive'
  BY <1>1 DEF TableInv, TablesAreLive, AddsRows
<1> QED
  BY <1>2, <1>3, <1>4 DEF TableInv

LEMMA PlanStays ==
    ASSUME BuildNext
    PROVE  plan' = plan
BY DEF BuildNext, BuildLeaf, BuildStream, BuildBlocking, BuildJoin, CreateChildPipeline, BuildProducer,
       RegisterScans, BuildScan

LEMMA TableSteps ==
    ASSUME IInv, TableInv, [Next]_vars
    PROVE  TableInv'
<1>1. ScheduleTyped /\ Once /\ FreedWasProbed /\ TablesAreLive
  BY DEF IInv, ScheduleInv, TableInv
<1>2. CASE BuildPipelines
  <2>1. /\ mode = "build" /\ BuildNext /\ inside' = inside /\ scheduled' = scheduled /\ runVars' = runVars
    BY <1>2 DEF BuildPipelines, scheduleVars
  <2>2. plan' = plan
    BY <2>1, PlanStays
  <2>3. next = 1
    BY <1>1, <2>1 DEF ScheduleTyped
  <2>4. FreedWasProbed' /\ TablesAreLive'
    BY <1>1, <2>1, <2>2, <2>3, TablesBefore
  <2>5. Once'
    BY <1>1, <2>1 DEF Once
  <2> QED
    BY <2>4, <2>5 DEF TableInv
<1>3. CASE Ready
  <2>1. /\ mode = "build" /\ plan' = plan /\ inside' = inside /\ scheduled' = scheduled /\ runVars' = runVars
    BY <1>3 DEF Ready, runVars
  <2>2. next = 1
    BY <1>1, <2>1 DEF ScheduleTyped
  <2>3. FreedWasProbed' /\ TablesAreLive'
    BY <1>1, <2>1, <2>2, TablesBefore
  <2>4. Once'
    BY <1>1, <2>1 DEF Once
  <2> QED
    BY <2>3, <2>4 DEF TableInv
<1>4. CASE ScheduleTurn \/ PushPipeline
  <2>1. mode = "schedule" /\ plan' = plan /\ runVars' = runVars
    BY <1>4 DEF ScheduleTurn, BetweenTurns, PushPipeline, buildVars
  <2>2. next = 1
    BY <1>1, <2>1 DEF ScheduleTyped
  <2>3. FreedWasProbed' /\ TablesAreLive'
    BY <1>1, <2>1, <2>2, TablesBefore
  <2>4. Once'
    BY <1>1, <1>4, OnceTurn, OncePush
  <2> QED
    BY <2>3, <2>4 DEF TableInv
<1>5. CASE RunPipeline
  BY <1>5, RunTables
<1>6. CASE GetMetaPipelines \/ StartExecution \/ Throw \/ UNCHANGED vars
  <2>1. plan' = plan /\ pipes' = pipes /\ inside' = inside /\ scheduled' = scheduled /\ runVars' = runVars
    BY <1>6 DEF GetMetaPipelines, StartExecution, Throw, vars, buildVars, scheduleVars
  <2> QED
    BY <2>1, QuietTables
<1> QED
  BY <1>2, <1>3, <1>4, <1>5, <1>6 DEF Next, Progress

\* Execute gives a join's hash table back after the first probe: no pipeline
\* uses the table again, unless a join on the way up to its own adds rows of its build
\* side.  Two pipelines that probe one table are of one meta-pipeline, and all but
\* its base pipeline go on from such a join.
THEOREM TablesStayLive ==
    Spec => []TablesAreLive
<1>1. Init => TableInv
  BY InitTableInv
<1>2. IInv /\ TableInv /\ [Next]_vars => TableInv'
  BY TableSteps
<1>3. TableInv => TablesAreLive
  BY DEF TableInv
<1> QED
  BY <1>1, <1>2, <1>3, Invariance, PTL DEF Spec

-----------------------------------------------------------------------------
(***************************************************************************)
(* What is read.                                                           *)
(***************************************************************************)
RowsInv == FeedInv /\ SinksPushed /\ DepsScheduled /\ HeldOnce

LEMMA FeedStays ==
    ASSUME plan' = plan, metas' = metas, pipes' = pipes, stack' = stack, FeedInv
    PROVE  FeedInv'
<1>1. /\ \A x : Reach(x)' = Reach(x)
      /\ \A x : Delims(x)' = Delims(x)
      /\ \A p, s : Dep(p, s)' <=> Dep(p, s)
      /\ \A p : Reads(p)' = Reads(p)
      /\ JoinOps' = JoinOps
  BY DEF Reach, Delims, Dep, Reads, JoinOps
<1>2. ASSUME NEW i \in DOMAIN stack', NEW f, f = stack'[i] PROVE FrameFed(f)'
  <2>1. FrameFed(f)
    BY <1>2 DEF FeedInv, FramesFed
  <2> QED
    BY <1>1, <2>1 DEF FrameFed
<1>3. ASSUME NEW m \in DOMAIN metas', NEW p \in ToSet(metas'[m].pipes) PROVE PipeFed(m, p)'
  <2>1. PipeFed(m, p)
    BY DEF FeedInv, PipesFed
  <2>2. \A s : Dep(Base(m), s)' <=> Dep(Base(m), s)
    BY DEF Dep, Base
  <2>3. \A r \in Reads(p)' : plan'[r].type \in Readable /\ \A s \in FilledBy(plan', r) : Dep(Base(m), s)'
    BY <1>1, <2>1, <2>2 DEF PipeFed
  <2> QED
    BY <1>1, <2>1, <2>3 DEF PipeFed
<1>4. SinksFed'
  BY DEF FeedInv, SinksFed, SinkFed
<1> QED
  BY <1>2, <1>3, <1>4 DEF FeedInv, FramesFed, PipesFed

LEMMA FeedSteps ==
    ASSUME IInv, FeedInv, [Next]_vars
    PROVE  FeedInv'
<1>1. CASE BuildPipelines
  BY <1>1, BuildSteps DEF IInv, BuildPipelines
<1>2. CASE Ready
  BY <1>2, ReadyStep DEF IInv
<1>3. CASE GetMetaPipelines \/ ScheduleTurn \/ PushPipeline \/ StartExecution \/ RunPipeline \/ Throw \/ UNCHANGED vars
  <2>1. plan' = plan /\ metas' = metas /\ pipes' = pipes /\ stack' = stack
    BY <1>3 DEF GetMetaPipelines, ScheduleTurn, PushPipeline, StartExecution, RunPipeline, Throw, vars, buildVars
  <2> QED
    BY <2>1, FeedStays
<1> QED
  BY <1>1, <1>2, <1>3 DEF Next, Progress

LEMMA ConcatElements ==
    ASSUME NEW S, NEW s \in Seq(S), NEW t \in Seq(S)
    PROVE  ToSet(s \o t) \subseteq ToSet(s) \cup ToSet(t)
<1>1. DOMAIN (s \o t) = 1 .. Len(s) + Len(t) /\ DOMAIN s = 1 .. Len(s) /\ DOMAIN t = 1 .. Len(t)
      /\ Len(s) \in Nat /\ Len(t) \in Nat
  OBVIOUS
<1>2. ASSUME NEW i \in DOMAIN (s \o t) PROVE (s \o t)[i] \in ToSet(s) \cup ToSet(t)
  <2>1. CASE i \in 1 .. Len(s)
    BY <1>1, <2>1, ConcatFacts DEF ToSet
  <2>2. CASE i \notin 1 .. Len(s)
    <3>1. i - Len(s) \in 1 .. Len(t) /\ Len(s) + (i - Len(s)) = i
      BY <1>1, <2>2
    <3>2. (s \o t)[i] = t[i - Len(s)]
      BY <3>1, ConcatFacts
    <3> QED
      BY <1>1, <3>1, <3>2 DEF ToSet
  <2> QED
    BY <2>1, <2>2
<1> QED
  BY <1>2 DEF ToSet

\* The children of a meta-pipeline come after it, so the root is no child.
LEMMA KidsFacts ==
    ASSUME BuildInv, NEW m \in DOMAIN metas
    PROVE  \A k \in ToSet(metas[m].kids) : k # 1
<1>1. MetaSound(m) /\ m \in Nat /\ m # 0 /\ Len(metas) \in Nat
  BY DEF BuildInv, BuildTyped, MetasSound
<1>2. \A i \in DOMAIN metas[m].kids : metas[m].kids[i] \in m + 1 .. Len(metas)
  BY <1>1 DEF MetaSound
<1>3. \A x \in m + 1 .. Len(metas) : x # 1
  BY <1>1
<1> QED
  BY <1>2, <1>3 DEF ToSet

LEMMA PushedSteps ==
    ASSUME IInv, SinksPushed, [Next]_vars
    PROVE  SinksPushed'
<1>1. ScheduleTyped /\ BuildInv
  BY DEF IInv, ScheduleInv
<1>2. /\ \A m \in ToSet(calls) \cup ToSet(toSchedule) : m # 1
      /\ \A p \in ToSet(inside) \cup ToSet(scheduled) : pipes[p].sink \in Ops(plan)
  BY DEF SinksPushed
<1>3. ToSet(<<>>) = {}
  BY DEF ToSet
<1>4. CASE BuildPipelines
  <2>1. calls' = <<>> /\ toSchedule' = <<>> /\ inside' = <<>> /\ scheduled' = <<>>
    BY <1>1, <1>4 DEF BuildPipelines, scheduleVars, ScheduleTyped
  <2> QED
    BY <1>3, <2>1 DEF SinksPushed
<1>5. CASE Ready
  <2>1. calls' = metas[1].kids /\ toSchedule' = <<>> /\ inside' = <<>> /\ scheduled' = <<>> /\ stack = <<>>
    BY <1>1, <1>5 DEF Ready, ScheduleTyped
  <2>2. 1 \in DOMAIN metas
    BY <1>1, <2>1, BuiltFacts
  <2> QED
    BY <1>1, <1>3, <2>1, <2>2, KidsFacts DEF SinksPushed
<1>6. CASE GetMetaPipelines
  <2>1. /\ calls # <<>> /\ toSchedule' = Append(toSchedule, Head(calls)) /\ calls' = metas[Head(calls)].kids \o Tail(calls)
        /\ inside' = inside /\ scheduled' = scheduled /\ pipes' = pipes /\ plan' = plan /\ mode = "schedule"
    BY <1>6 DEF GetMetaPipelines, buildVars
  <2>2. /\ calls \in Seq(DOMAIN metas) /\ toSchedule \in Seq(DOMAIN metas) /\ stack = <<>>
    BY <1>1, <2>1 DEF ScheduleTyped
  <2>3. Head(calls) \in DOMAIN metas /\ Head(calls) \in ToSet(calls) /\ ToSet(Tail(calls)) \subseteq ToSet(calls)
        /\ Tail(calls) \in Seq(DOMAIN metas)
    BY <2>1, <2>2 DEF ToSet
  <2>4. metas[Head(calls)].kids \in Seq(DOMAIN metas) /\ \A k \in ToSet(metas[Head(calls)].kids) : k # 1
    BY <1>1, <2>2, <2>3, BuiltFacts, KidsFacts
  <2>5. ToSet(toSchedule') = ToSet(toSchedule) \cup {Head(calls)}
    BY <2>1, <2>2, <2>3, AppendFacts
  <2>6. ToSet(calls') \subseteq ToSet(metas[Head(calls)].kids) \cup ToSet(Tail(calls))
    BY <2>1, <2>3, <2>4, ConcatElements
  <2> QED
    BY <1>2, <2>1, <2>3, <2>4, <2>5, <2>6 DEF SinksPushed
<1>7. CASE ScheduleTurn
  <2>1. /\ mode = "schedule" /\ inside = <<>> /\ calls = <<>> /\ scheduled' = scheduled /\ calls' = calls
        /\ toSchedule' = toSchedule /\ pipes' = pipes /\ plan' = plan
        /\ inside' = metas[Current].pipes \/ inside' = inside
    BY <1>7 DEF ScheduleTurn, BetweenTurns, buildVars
  <2>2. toSchedule \in Seq(DOMAIN metas) /\ cursor \in Nat /\ toSchedule # <<>> /\ cursor < Len(toSchedule)
    BY <1>1, <2>1 DEF ScheduleTyped
  <2>3. Current \in ToSet(toSchedule) /\ Current \in DOMAIN metas
    <3>1. Len(toSchedule) - cursor \in DOMAIN toSchedule
      BY <2>2
    <3> QED
      BY <2>2, <3>1 DEF Current, ToSet
  <2>4. PICK m \in DOMAIN metas : m = Current
    BY <2>3
  <2>5. /\ m # 1 /\ MetaSound(m)
        /\ \A p \in ToSet(metas[m].pipes) : p \in DOMAIN pipes /\ pipes[p].sink = metas[m].sink
    BY <1>1, <1>2, <2>3, <2>4, MetaFacts
  <2>6. metas[m].sink \in Ops(plan)
    BY <2>5 DEF MetaSound
  <2>7. inside' = metas[m].pipes \/ inside' = inside
    BY <2>1, <2>4
  <2> QED
    BY <1>2, <2>1, <2>5, <2>6, <2>7 DEF SinksPushed
<1>8. CASE PushPipeline
  <2>1. /\ inside # <<>> /\ inside' = Tail(inside) /\ calls' = calls /\ toSchedule' = toSchedule /\ pipes' = pipes /\ plan' = plan
        /\ scheduled' = Append(scheduled, Head(inside)) \/ scheduled' = scheduled
    BY <1>8 DEF PushPipeline, buildVars
  <2>2. inside \in Seq(DOMAIN pipes) /\ scheduled \in Seq(DOMAIN pipes)
    BY <1>1 DEF ScheduleTyped
  <2>3. Head(inside) \in DOMAIN pipes /\ Head(inside) \in ToSet(inside) /\ ToSet(Tail(inside)) \subseteq ToSet(inside)
    BY <2>1, <2>2 DEF ToSet
  <2>4. ToSet(scheduled') \subseteq ToSet(scheduled) \cup {Head(inside)}
    <3> DEFINE p == Head(inside)
    <3>1. p \in DOMAIN pipes /\ (scheduled' = Append(scheduled, p) \/ scheduled' = scheduled)
      BY <2>1, <2>3
    <3> HIDE DEF p
    <3>2. ToSet(Append(scheduled, p)) = ToSet(scheduled) \cup {p}
      BY <2>2, <3>1, AppendFacts
    <3>3. ToSet(scheduled') \subseteq ToSet(scheduled) \cup {p}
      BY <3>1, <3>2
    <3> QED
      BY <3>3 DEF p
  <2> QED
    BY <1>2, <2>1, <2>3, <2>4 DEF SinksPushed
<1>9. CASE StartExecution \/ RunPipeline \/ Throw \/ UNCHANGED vars
  <2>1. /\ plan' = plan /\ pipes' = pipes /\ calls' = calls /\ toSchedule' = toSchedule
        /\ inside' = inside /\ scheduled' = scheduled
    BY <1>9 DEF StartExecution, RunPipeline, Throw, vars, buildVars, scheduleVars
  <2> QED
    BY <2>1 DEF SinksPushed
<1> QED
  BY <1>4, <1>5, <1>6, <1>7, <1>8, <1>9 DEF Next, Progress

LEMMA DepsSteps ==
    ASSUME IInv, DepsScheduled, [Next]_vars
    PROVE  DepsScheduled'
<1>1. ScheduleTyped /\ BuildInv
  BY DEF IInv, ScheduleInv
<1>2. /\ \A k \in DOMAIN scheduled : \A m \in DOMAIN metas :
            scheduled[k] \in ToSet(metas[m].pipes) =>
              \A q \in pipes[Base(m)].deps : \E i \in DOMAIN scheduled : i < k /\ scheduled[i] = q
      /\ \A k \in DOMAIN inside : \A m \in DOMAIN metas :
            inside[k] \in ToSet(metas[m].pipes) => pipes[Base(m)].deps \subseteq ToSet(scheduled)
  BY DEF DepsScheduled
<1>3. CASE BuildPipelines \/ Ready
  <2>1. inside' = <<>> /\ scheduled' = <<>>
    BY <1>1, <1>3 DEF BuildPipelines, Ready, scheduleVars, ScheduleTyped
  <2> QED
    BY <2>1 DEF DepsScheduled
<1>4. CASE GetMetaPipelines \/ StartExecution \/ RunPipeline \/ Throw \/ UNCHANGED vars
  <2>1. metas' = metas /\ pipes' = pipes /\ inside' = inside /\ scheduled' = scheduled
    BY <1>4 DEF GetMetaPipelines, StartExecution, RunPipeline, Throw, vars, buildVars, scheduleVars
  <2> QED
    BY <2>1 DEF DepsScheduled, Base
<1>5. CASE ScheduleTurn
  <2>1. /\ mode = "schedule" /\ inside = <<>> /\ scheduled' = scheduled /\ calls = <<>>
        /\ metas' = metas /\ pipes' = pipes
        /\ (ShouldSchedule /\ inside' = metas[Current].pipes) \/ inside' = inside
    BY <1>5 DEF ScheduleTurn, BetweenTurns, buildVars
  <2>2. \A m \in DOMAIN metas : Base(m)' = Base(m)
    BY <2>1 DEF Base
  <2>3. toSchedule \in Seq(DOMAIN metas) /\ cursor \in Nat /\ toSchedule # <<>> /\ cursor < Len(toSchedule)
    BY <1>1, <2>1 DEF ScheduleTyped
  <2>4. Current \in DOMAIN metas
    <3>1. Len(toSchedule) - cursor \in DOMAIN toSchedule
      BY <2>3
    <3> QED
      BY <2>3, <3>1 DEF Current
  <2>5. PICK c \in DOMAIN metas : c = Current
    BY <2>4
  <2>6. ASSUME NEW k \in DOMAIN inside', NEW m \in DOMAIN metas, inside'[k] \in ToSet(metas[m].pipes)
        PROVE  pipes[Base(m)].deps \subseteq ToSet(scheduled)
    <3>1. ShouldSchedule /\ inside' = metas[c].pipes
      BY <2>1, <2>5
    <3>2. pipes[Base(c)].deps \subseteq ToSet(scheduled)
      BY <2>5, <3>1 DEF ShouldSchedule
    <3>3. inside'[k] \in ToSet(metas[c].pipes)
      BY <3>1 DEF ToSet
    <3>4. pipes[inside'[k]].sink = metas[c].sink /\ pipes[inside'[k]].sink = metas[m].sink
      BY <1>1, <2>6, <3>3, MetaFacts
    <3>5. m = c
      BY <1>1, <3>4 DEF BuildInv, MetasSound
    <3> QED
      BY <3>2, <3>5
  <2>7. \A k \in DOMAIN inside' : \A m \in DOMAIN metas' :
            inside'[k] \in ToSet(metas'[m].pipes) => pipes'[Base(m)'].deps \subseteq ToSet(scheduled')
    BY <2>1, <2>2, <2>6
  <2>8. \A k \in DOMAIN scheduled' : \A m \in DOMAIN metas' :
            scheduled'[k] \in ToSet(metas'[m].pipes) =>
              \A q \in pipes'[Base(m)'].deps : \E i \in DOMAIN scheduled' : i < k /\ scheduled'[i] = q
    BY <1>2, <2>1, <2>2
  <2> QED
    BY <2>7, <2>8 DEF DepsScheduled
<1>6. CASE PushPipeline
  <2> DEFINE p == Head(inside)
             t == Append(scheduled, p)
  <2>1. /\ inside # <<>> /\ inside' = Tail(inside) /\ metas' = metas /\ pipes' = pipes
        /\ scheduled' = scheduled \/ scheduled' = t
    BY <1>6 DEF PushPipeline, buildVars
  <2>2. \A m \in DOMAIN metas : Base(m)' = Base(m)
    BY <2>1 DEF Base
  <2>3. inside \in Seq(DOMAIN pipes) /\ scheduled \in Seq(DOMAIN pipes)
    BY <1>1 DEF ScheduleTyped
  <2>4. /\ p \in DOMAIN pipes /\ p = inside[1] /\ 1 \in DOMAIN inside
        /\ \A k \in DOMAIN inside' : k + 1 \in DOMAIN inside /\ inside'[k] = inside[k + 1]
    BY <2>1, <2>3
  <2>5. /\ DOMAIN t = 1 .. Len(scheduled) + 1 /\ DOMAIN scheduled = 1 .. Len(scheduled)
        /\ \A i \in DOMAIN scheduled : t[i] = scheduled[i]
        /\ t[Len(scheduled) + 1] = p /\ Len(scheduled) \in Nat /\ ToSet(t) = ToSet(scheduled) \cup {p}
    BY <2>3, <2>4, AppendFacts
  <2> HIDE DEF p, t
  <2>6. DOMAIN scheduled \subseteq DOMAIN scheduled' /\ ToSet(scheduled) \subseteq ToSet(scheduled')
        /\ \A i \in DOMAIN scheduled : scheduled'[i] = scheduled[i] /\ i < Len(scheduled) + 1
    BY <2>1, <2>5
  <2>7. ASSUME NEW k \in DOMAIN scheduled', NEW m \in DOMAIN metas, scheduled'[k] \in ToSet(metas[m].pipes),
               NEW q \in pipes[Base(m)].deps
        PROVE  \E i \in DOMAIN scheduled' : i < k /\ scheduled'[i] = q
    <3>1. CASE k \in DOMAIN scheduled
      BY <1>2, <2>6, <2>7, <3>1
    <3>2. CASE k \notin DOMAIN scheduled
      <4>1. k = Len(scheduled) + 1 /\ scheduled'[k] = p
        BY <2>1, <2>5, <3>2
      <4>2. q \in ToSet(scheduled)
        BY <1>2, <2>4, <2>7, <4>1
      <4>3. PICK i \in DOMAIN scheduled : scheduled[i] = q
        BY <4>2 DEF ToSet
      <4> QED
        BY <2>6, <4>1, <4>3
    <3> QED
      BY <3>1, <3>2
  <2>8. ASSUME NEW k \in DOMAIN inside', NEW m \in DOMAIN metas, inside'[k] \in ToSet(metas[m].pipes)
        PROVE  pipes[Base(m)].deps \subseteq ToSet(scheduled')
    <3>1. k + 1 \in DOMAIN inside /\ inside'[k] = inside[k + 1]
      BY <2>4
    <3>2. pipes[Base(m)].deps \subseteq ToSet(scheduled)
      BY <1>2, <2>8, <3>1
    <3> QED
      BY <2>6, <3>2
  <2>9. \A k \in DOMAIN inside' : \A m \in DOMAIN metas' :
            inside'[k] \in ToSet(metas'[m].pipes) => pipes'[Base(m)'].deps \subseteq ToSet(scheduled')
    BY <2>1, <2>2, <2>8
  <2>10. \A k \in DOMAIN scheduled' : \A m \in DOMAIN metas' :
            scheduled'[k] \in ToSet(metas'[m].pipes) =>
              \A q \in pipes'[Base(m)'].deps : \E i \in DOMAIN scheduled' : i < k /\ scheduled'[i] = q
    BY <2>1, <2>2, <2>7
  <2> QED
    BY <2>9, <2>10 DEF DepsScheduled
<1> QED
  BY <1>3, <1>4, <1>5, <1>6 DEF Next, Progress

\* What Sink fills, by the type of the sink.
LEMMA HoldsFacts ==
    ASSUME WellFormed(plan), NEW s \in Ops(plan), SinkFed(s), NEW x \in Holds(s)
    PROVE  \/ plan[s].type \in Joins \cup Blocking \cup {"CTE"} /\ x = s
           \/ s \in OfType(plan, DelimJoins) /\ x = plan[s].distinct
           \/ plan[s].type = "RIGHT_DELIM_JOIN" /\ x = plan[s].inner
           \/ plan[s].type = "LEFT_DELIM_JOIN" /\ x = Child(plan, plan[s].inner, 1)
<1>1. plan[s].type \in Joins \cup DelimJoins \cup Blocking \cup {"CTE"}
  BY DEF SinkFed
<1>2. x \in ReplacedBy(s) \/ x \in ExtendedBy(s)
  BY DEF Holds
<1>3. CASE plan[s].type \in Joins \cup {"CTE"}
  <2>1. ReplacedBy(s) = {s} /\ ExtendedBy(s) = {}
    BY <1>3 DEF ReplacedBy, ExtendedBy, Joins, DelimJoins, Blocking
  <2> QED
    BY <1>2, <1>3, <2>1
<1>4. CASE plan[s].type \in Blocking
  <2>1. ReplacedBy(s) = {} /\ ExtendedBy(s) = {s}
    BY <1>4 DEF ReplacedBy, ExtendedBy, Joins, DelimJoins, Blocking
  <2> QED
    BY <1>2, <1>4, <2>1
<1>5. CASE plan[s].type \in DelimJoins
  <2>1. ExtendedBy(s) = {plan[s].distinct} /\ s \in OfType(plan, DelimJoins)
    BY <1>5 DEF ExtendedBy, Joins, DelimJoins, Blocking, OfType
  <2>2. CASE plan[s].type = "LEFT_DELIM_JOIN"
    <3>1. ReplacedBy(s) = {Child(plan, plan[s].inner, 1)}
      BY <2>2 DEF ReplacedBy, Joins, Blocking
    <3> QED
      BY <1>2, <2>1, <2>2, <3>1
  <2>3. CASE plan[s].type = "RIGHT_DELIM_JOIN"
    <3>1. ReplacedBy(s) = {plan[s].inner}
      BY <2>3 DEF ReplacedBy, Joins, Blocking
    <3> QED
      BY <1>2, <2>1, <2>3, <3>1
  <2> QED
    BY <1>5, <2>2, <2>3 DEF DelimJoins
<1> QED
  BY <1>1, <1>3, <1>4, <1>5

\* No two sinks fill the same operator.
LEMMA HoldsApart ==
    ASSUME WellFormed(plan), NEW s \in Ops(plan), NEW t \in Ops(plan), SinkFed(s), SinkFed(t),
           NEW x \in Holds(s), x \in Holds(t)
    PROVE  s = t
<1> DEFINE Plain(o) == plan[o].type \in Joins \cup Blocking \cup {"CTE"} /\ x = o
           Apart2(o) == o \in OfType(plan, DelimJoins) /\ x = plan[o].distinct
           Inner(o) == plan[o].type = "RIGHT_DELIM_JOIN" /\ x = plan[o].inner
           Left(o) == plan[o].type = "LEFT_DELIM_JOIN" /\ x = Child(plan, plan[o].inner, 1)
<1>1. \A o \in {s, t} : o \in Ops(plan) /\ (Plain(o) \/ Apart2(o) \/ Inner(o) \/ Left(o)) /\ SinkFed(o)
  BY HoldsFacts
<1>2. \A o \in {s, t} : Apart2(o) => x \in OfType(plan, {"GROUP_BY"}) /\ \E d \in Ops(plan) : plan[d].distinct = x
  BY DelimOwns DEF OfType
<1>3. \A o \in {s, t} : Inner(o) =>
          x \in OfType(plan, Joins) /\ FilledByDelim(plan, x) # {} /\ x \in Owned(plan, o)
  <2> SUFFICES ASSUME NEW o \in {s, t}, Inner(o)
               PROVE  x \in OfType(plan, Joins) /\ FilledByDelim(plan, x) # {} /\ x \in Owned(plan, o)
    OBVIOUS
  <2>1. o \in OfType(plan, DelimJoins) /\ o \in OfType(plan, {"RIGHT_DELIM_JOIN"})
    BY DEF OfType, DelimJoins
  <2>2. o \in FilledByDelim(plan, x)
    BY <2>1 DEF FilledByDelim
  <2> QED
    BY <2>1, <2>2, DelimOwns
<1>4. \A o \in {s, t} : Left(o) =>
          /\ x \in OfType(plan, Leaves) /\ plan[o].inner \in Ops(plan)
          /\ x \in Owned(plan, plan[o].inner) /\ plan[o].inner \in Owned(plan, o)
  <2> SUFFICES ASSUME NEW o \in {s, t}, Left(o)
               PROVE  /\ x \in OfType(plan, Leaves) /\ plan[o].inner \in Ops(plan)
                      /\ x \in Owned(plan, plan[o].inner) /\ plan[o].inner \in Owned(plan, o)
    OBVIOUS
  <2>1. o \in OfType(plan, DelimJoins)
    BY DEF OfType, DelimJoins
  <2>2. HasDelimShape(plan, o) /\ plan[o].inner \in Ops(plan) /\ plan[o].inner \in Owned(plan, o)
        /\ Child(plan, plan[o].inner, 1) \in Owned(plan, plan[o].inner)
    BY <2>1, DelimOwns
  <2>3. Child(plan, plan[o].inner, 1) \in OfType(plan, Leaves)
    BY <2>2 DEF HasDelimShape
  <2> QED
    BY <2>2, <2>3
<1> HIDE DEF Inner, Left
<1>5. CASE Plain(s) \/ Plain(t)
  <2>1. PICK o \in {s, t} : Plain(o)
    BY <1>5
  <2>2. x = o /\ SinkFed(x) /\ plan[x].type \in Joins \cup Blocking \cup {"CTE"}
    BY <1>1, <2>1
  <2>3. \A e \in {s, t} : ~ Apart2(e) /\ ~ Inner(e) /\ ~ Left(e)
    <3> TAKE e \in {s, t}
    <3>1. ~ Apart2(e) /\ ~ Inner(e)
      BY <1>2, <1>3, <2>2 DEF SinkFed
    <3>2. ~ Left(e)
      BY <1>4, <2>2 DEF OfType, Leaves, Joins, Blocking
    <3> QED
      BY <3>1, <3>2
  <2> QED
    BY <1>1, <2>3
<1>6. CASE Apart2(s) /\ Apart2(t)
  <2>1. HasDelimShape(plan, s)
    BY <1>6, DelimOwns
  <2> QED
    BY <1>6, <2>1 DEF HasDelimShape
<1>7. ~ (Apart2(s) /\ (Inner(t) \/ Left(t))) /\ ~ (Apart2(t) /\ (Inner(s) \/ Left(s)))
  BY <1>2, <1>3, <1>4 DEF OfType, Joins, Leaves
<1>8. ~ (Inner(s) /\ Left(t)) /\ ~ (Inner(t) /\ Left(s))
  BY <1>3, <1>4 DEF OfType, Joins, Leaves
<1>9. CASE Inner(s) /\ Inner(t)
  <2>1. x \in Owned(plan, s) /\ x \in Owned(plan, t)
    BY <1>3, <1>9
  <2> QED
    BY <2>1, OneOwner
<1>10. CASE Left(s) /\ Left(t)
  <2>1. /\ plan[s].inner \in Ops(plan) /\ x \in Owned(plan, plan[s].inner) /\ plan[s].inner \in Owned(plan, s)
        /\ plan[t].inner \in Ops(plan) /\ x \in Owned(plan, plan[t].inner) /\ plan[t].inner \in Owned(plan, t)
    BY <1>4, <1>10
  <2>2. plan[s].inner = plan[t].inner
    BY <2>1, OneOwner
  <2>3. plan[s].inner \in Owned(plan, s) /\ plan[s].inner \in Owned(plan, t)
    BY <2>1, <2>2
  <2> QED
    BY <2>3, OneOwner
<1> QED
  BY <1>1, <1>5, <1>6, <1>7, <1>8, <1>9, <1>10

\* Before the execution nothing is held.
LEMMA HeldBefore ==
    ASSUME ScheduleTyped', HeldOnce, next = 1, plan' = plan, runVars' = runVars
    PROVE  HeldOnce'
<1>1. held' = held /\ next' = 1
  BY DEF runVars
<1>2. scheduled' \in Seq(DOMAIN pipes')
  BY DEF ScheduleTyped
<1>3. \A i \in DOMAIN scheduled' : ~ (i < 1)
  BY <1>2
<1>4. \A s : Sunk(s)' = {}
  BY <1>1, <1>3 DEF Sunk
<1>5. DOMAIN held = Ops(plan) /\ \A o \in Ops(plan) : held[o] = <<>>
  BY DEF HeldOnce
<1>6. \A s \in Ops(plan') : \A x \in Holds(s)' \cap Ops(plan') : held'[x] = <<>> /\ Sunk(s)' = {}
  BY <1>1, <1>4, <1>5
<1> QED
  BY <1>1, <1>5, <1>6 DEF HeldOnce

LEMMA HeldRun ==
    ASSUME IInv, RowsInv, RunPipeline
    PROVE  HeldOnce'
<1> DEFINE p == scheduled[next]
           t == pipes[p].sink
<1>1. /\ mode = "execute" /\ plan' = plan /\ pipes' = pipes /\ scheduled' = scheduled /\ next' = next + 1
      /\ held' = [o \in Ops(plan) |-> IF o \in ReplacedBy(t) THEN <<p>>
                                      ELSE IF o \in ExtendedBy(t) THEN Append(held[o], p)
                                      ELSE held[o]]
  BY DEF RunPipeline, buildVars, scheduleVars
<1>2. ScheduleTyped /\ BuildInv /\ HeldOnce /\ SinksPushed /\ SinksFed
  BY DEF IInv, ScheduleInv, RowsInv, FeedInv
<1>3. scheduled \in Seq(DOMAIN pipes) /\ next \in DOMAIN scheduled /\ next \in Nat \ {0} /\ WellFormed(plan)
  <2>1. WellFormed(plan)
    BY <1>2, PlansAssumption DEF BuildInv, BuildTyped
  <2> QED
    BY <1>1, <1>2, <2>1 DEF ScheduleTyped
<1>4. p \in DOMAIN pipes /\ t \in Ops(plan) /\ t # NoOp
  <2>1. p \in DOMAIN pipes /\ p \in ToSet(scheduled)
    BY <1>3 DEF ToSet
  <2>2. t \in Ops(plan)
    BY <1>2, <2>1 DEF SinksPushed
  <2>3. Ops(plan) = 1 .. Len(plan)
    BY <1>3, PlanFacts
  <2> QED
    BY <2>1, <2>2, <2>3 DEF NoOp
<1>5. SinkFed(t)
  <2>1. PICK m \in DOMAIN metas : p \in ToSet(metas[m].pipes)
    BY <1>2, <1>4 DEF BuildInv, MetasSound
  <2>2. metas[m].sink = t
    BY <1>2, <2>1, MetaFacts
  <2> QED
    BY <1>2, <1>4, <2>1, <2>2 DEF SinksFed
<1> HIDE DEF t
<1>6. ASSUME NEW s \in Ops(plan), SinkFed(s), NEW x \in Holds(s) \cap Ops(plan)
      PROVE  /\ Sunk(s)' = {} => held'[x] = <<>>
             /\ \A i \in Sunk(s)' : Sunk(s)' = {i} => held'[x] = <<scheduled[i]>>
  <2>1. /\ Sunk(s) = {} => held[x] = <<>>
        /\ \A i \in Sunk(s) : Sunk(s) = {i} => held[x] = <<scheduled[i]>>
    BY <1>2, <1>6 DEF HeldOnce
  <2>2. Sunk(s)' = Sunk(s) \cup (IF s = t THEN {next} ELSE {})
    <3>1. Sunk(s)' = {i \in DOMAIN scheduled : i < next + 1 /\ pipes[scheduled[i]].sink = s}
      BY <1>1 DEF Sunk
    <3>2. \A i \in DOMAIN scheduled : i < next + 1 <=> i < next \/ i = next
      BY <1>3
    <3>3. pipes[scheduled[next]].sink = t
      BY DEF t
    <3> QED
      BY <1>3, <3>1, <3>2, <3>3 DEF Sunk
  <2>3. CASE s # t
    <3>1. x \notin Holds(t)
      BY <1>3, <1>4, <1>5, <1>6, <2>3, HoldsApart
    <3>2. held'[x] = held[x]
      BY <1>1, <3>1 DEF Holds
    <3> QED
      BY <2>1, <2>2, <2>3, <3>2
  <2>4. CASE s = t
    <3> SUFFICES ASSUME NEW i \in Sunk(s)', Sunk(s)' = {i} PROVE held'[x] = <<scheduled[i]>>
      BY <2>2, <2>4
    <3>1. i = next /\ next \notin Sunk(s) /\ Sunk(s) = {}
      <4>1. next \notin Sunk(s)
        BY <1>3 DEF Sunk
      <4> QED
        BY <2>2, <2>4, <4>1
    <3>2. held[x] = <<>>
      BY <2>1, <3>1
    <3>3. x \in ReplacedBy(t) \/ x \in ExtendedBy(t)
      BY <2>4 DEF Holds
    <3>4. Append(<<>>, p) = <<p>>
      OBVIOUS
    <3> QED
      BY <1>1, <3>1, <3>2, <3>3, <3>4
  <2> QED
    BY <2>3, <2>4
<1>7. DOMAIN held' = Ops(plan') /\ next' # 1
  BY <1>1, <1>3
<1>8. \A s : (SinkFed(s)' <=> SinkFed(s)) /\ Holds(s)' = Holds(s)
  BY <1>1 DEF SinkFed, Holds, ReplacedBy, ExtendedBy
<1>9. \A s \in Ops(plan') : SinkFed(s)' =>
          \A x \in Holds(s)' \cap Ops(plan') :
            /\ Sunk(s)' = {} => held'[x] = <<>>
            /\ \A i \in Sunk(s)' : Sunk(s)' = {i} => held'[x] = <<scheduled'[i]>>
  BY <1>1, <1>6, <1>8
<1> QED
  BY <1>7, <1>9 DEF HeldOnce

LEMMA HeldSteps ==
    ASSUME IInv, IInv', RowsInv, [Next]_vars
    PROVE  HeldOnce'
<1>1. ScheduleTyped /\ ScheduleTyped' /\ HeldOnce
  BY DEF IInv, ScheduleInv, RowsInv
<1>2. CASE BuildPipelines \/ Ready \/ ScheduleTurn \/ PushPipeline
  <2>1. mode \in {"build", "schedule"} /\ runVars' = runVars
    BY <1>2 DEF BuildPipelines, Ready, ScheduleTurn, BetweenTurns, PushPipeline, runVars
  <2>2. plan' = plan
    <3>1. BuildPipelines => plan' = plan
      BY PlanStays DEF BuildPipelines
    <3>2. Ready \/ ScheduleTurn \/ PushPipeline => plan' = plan
      BY DEF Ready, ScheduleTurn, PushPipeline, buildVars
    <3> QED
      BY <1>2, <3>1, <3>2
  <2>3. next = 1
    BY <1>1, <2>1 DEF ScheduleTyped
  <2> QED
    BY <1>1, <2>1, <2>2, <2>3, HeldBefore
<1>3. CASE RunPipeline
  BY <1>3, HeldRun
<1>4. CASE GetMetaPipelines \/ StartExecution \/ Throw \/ UNCHANGED vars
  <2>1. plan' = plan /\ pipes' = pipes /\ scheduled' = scheduled /\ next' = next /\ held' = held
    BY <1>4 DEF GetMetaPipelines, StartExecution, Throw, vars, buildVars, scheduleVars, runVars
  <2>2. \A s : (SinkFed(s)' <=> SinkFed(s)) /\ Holds(s)' = Holds(s) /\ Sunk(s)' = Sunk(s)
    BY <2>1 DEF SinkFed, Holds, ReplacedBy, ExtendedBy, Sunk
  <2> QED
    BY <1>1, <2>1, <2>2 DEF HeldOnce
<1> QED
  BY <1>2, <1>3, <1>4 DEF Next, Progress

LEMMA InitRows ==
    ASSUME Init
    PROVE  RowsInv
<1>1. /\ calls = <<>> /\ toSchedule = <<>> /\ inside = <<>> /\ scheduled = <<>> /\ next = 1
      /\ held = [o \in Ops(plan) |-> <<>>]
  BY DEF Init
<1>2. FeedInv
  BY InitBuildInv
<1>3. SinksPushed /\ DepsScheduled
  BY <1>1 DEF SinksPushed, DepsScheduled, ToSet
<1>4. \A s : Sunk(s) = {}
  BY <1>1 DEF Sunk
<1>5. DOMAIN held = Ops(plan) /\ \A o \in Ops(plan) : held[o] = <<>>
  BY <1>1
<1>6. HeldOnce
  BY <1>1, <1>4, <1>5 DEF HeldOnce
<1> QED
  BY <1>2, <1>3, <1>6 DEF RowsInv

LEMMA RowsSteps ==
    ASSUME IInv, IInv', RowsInv, [Next]_vars
    PROVE  RowsInv'
BY FeedSteps, PushedSteps, DepsSteps, HeldSteps DEF RowsInv

\* What is read is filled by one operator, and it is there that its rows are.
LEMMA ReadsOne ==
    ASSUME WellFormed(plan), NEW r \in Ops(plan), plan[r].type \in Readable,
           NEW s \in FilledBy(plan, r), s \in Ops(plan)
    PROVE  /\ FilledBy(plan, r) = {s}
           /\ plan[r].type = "CTE_SCAN" => s \in Holds(s) /\ ProducersOf(plan, r) = {s}
           /\ plan[r].type # "CTE_SCAN" => r \in Holds(s)
<1>1. CASE plan[r].type = "CTE_SCAN"
  <2>1. FilledBy(plan, r) = ProducersOf(plan, r) /\ r \in OfType(plan, Scans)
    BY <1>1, FilledFacts DEF Scans, OfType
  <2>2. ProducersOf(plan, r) = {s} /\ s \in OfType(plan, DelimJoins \cup {"CTE"})
    BY <2>1, ProducerFacts
  <2>3. s \notin OfType(plan, DelimJoins)
    <3> SUFFICES ASSUME s \in OfType(plan, DelimJoins) PROVE FALSE
      OBVIOUS
    <3>1. HasDelimShape(plan, s) /\ r \in plan[s].scans
      BY <2>1, DelimOwns DEF ProducersOf
    <3>2. r \in OfType(plan, {"DELIM_SCAN"})
      BY <3>1 DEF HasDelimShape
    <3> QED
      BY <1>1, <3>2 DEF OfType
  <2>4. plan[s].type = "CTE"
    BY <2>2, <2>3 DEF OfType
  <2>5. ReplacedBy(s) = {s}
    BY <2>4 DEF ReplacedBy, Joins, Blocking
  <2> QED
    BY <1>1, <2>1, <2>2, <2>5 DEF Holds
<1>2. CASE plan[r].type \in Leaves
  <2>1. FilledBy(plan, r) = CachedBy(plan, r) /\ plan[r].type # "CTE_SCAN"
    BY <1>2 DEF FilledBy, Leaves, Scans, Joins, Blocking
  <2>2. ASSUME NEW d \in CachedBy(plan, r)
        PROVE  /\ d \in Ops(plan) /\ plan[d].type = "LEFT_DELIM_JOIN" /\ r = Child(plan, plan[d].inner, 1)
               /\ plan[d].inner \in Ops(plan) /\ r \in Owned(plan, plan[d].inner) /\ plan[d].inner \in Owned(plan, d)
    <3>1. d \in OfType(plan, DelimJoins) /\ plan[d].type = "LEFT_DELIM_JOIN" /\ r = Child(plan, plan[d].inner, 1)
      BY DEF CachedBy, OfType, DelimJoins
    <3> QED
      BY <3>1, DelimOwns
  <2>3. \A d \in CachedBy(plan, r) : d = s
    <3> TAKE d \in CachedBy(plan, r)
    <3>1. plan[d].inner = plan[s].inner
      BY <2>1, <2>2, OneOwner
    <3>2. plan[d].inner \in Owned(plan, d) /\ plan[d].inner \in Owned(plan, s)
      BY <2>1, <2>2, <3>1
    <3>3. d \in Ops(plan)
      BY <2>2
    <3> QED
      BY <3>2, <3>3, OneOwner
  <2>4. ReplacedBy(s) = {Child(plan, plan[s].inner, 1)}
    <3>1. plan[s].type = "LEFT_DELIM_JOIN"
      BY <2>1, <2>2
    <3> QED
      BY <3>1 DEF ReplacedBy, Joins, Blocking
  <2>5. r \in Holds(s)
    BY <2>1, <2>2, <2>4 DEF Holds
  <2> QED
    BY <2>1, <2>3, <2>5
<1>3. CASE plan[r].type \in Joins
  <2>1. FilledBy(plan, r) = IF FilledByDelim(plan, r) = {} THEN {r} ELSE FilledByDelim(plan, r)
    BY <1>3, FilledFacts
  <2>2. plan[r].type # "CTE_SCAN"
    BY <1>3 DEF Joins
  <2>3. CASE FilledByDelim(plan, r) = {}
    <3>1. s = r /\ FilledBy(plan, r) = {s}
      BY <2>1, <2>3
    <3>2. ReplacedBy(r) = {r}
      BY <1>3 DEF ReplacedBy, Joins, DelimJoins, Blocking
    <3> QED
      BY <2>2, <3>1, <3>2 DEF Holds
  <2>4. CASE FilledByDelim(plan, r) # {}
    <3>1. FilledBy(plan, r) = FilledByDelim(plan, r)
      BY <2>1, <2>4
    <3>2. \A d \in FilledByDelim(plan, r) :
              d \in OfType(plan, DelimJoins) /\ plan[d].type = "RIGHT_DELIM_JOIN" /\ plan[d].inner = r
      BY DEF FilledByDelim, OfType, DelimJoins
    <3>3. \A d \in FilledByDelim(plan, r) : d \in Ops(plan) /\ r \in Owned(plan, d)
      BY <3>2, DelimOwns
    <3>4. FilledByDelim(plan, r) = {s}
      BY <3>1, <3>3, OneOwner
    <3>5. plan[s].type = "RIGHT_DELIM_JOIN" /\ plan[s].inner = r
      BY <3>1, <3>2
    <3>6. ReplacedBy(s) = {r}
      BY <3>5 DEF ReplacedBy, Joins, Blocking
    <3> QED
      BY <2>2, <3>1, <3>4, <3>6 DEF Holds
  <2> QED
    BY <2>3, <2>4
<1>4. CASE plan[r].type \in Blocking
  <2>1. plan[r].type # "CTE_SCAN"
    BY <1>4 DEF Blocking
  <2>2. CASE \A d \in Ops(plan) : plan[d].distinct # r
    <3>1. FilledBy(plan, r) = {r} /\ s = r
      BY <1>4, <2>2, FilledFacts
    <3>2. ExtendedBy(r) = {r}
      BY <1>4 DEF ExtendedBy, Blocking, Joins, DelimJoins
    <3> QED
      BY <2>1, <3>1, <3>2 DEF Holds
  <2>3. ASSUME NEW d \in Ops(plan), plan[d].distinct = r
        PROVE  /\ FilledBy(plan, r) = {s}
               /\ r \in Holds(s)
    <3>1. d \in OfType(plan, DelimJoins)
      <4>1. HasShape(plan, d) /\ r # 0
        BY PlanFacts
      <4> QED
        BY <2>3, <4>1 DEF HasShape, OfType
    <3>2. FilledBy(plan, r) = {d}
      BY <2>3, <3>1, FilledFacts
    <3>3. s = d /\ plan[s].type \in DelimJoins
      BY <3>1, <3>2 DEF OfType
    <3>4. ExtendedBy(s) = {plan[s].distinct}
      BY <3>3 DEF ExtendedBy, DelimJoins, Joins, Blocking
    <3> QED
      BY <2>3, <3>2, <3>3, <3>4 DEF Holds
  <2> QED
    BY <2>1, <2>2, <2>3
<1> QED
  BY <1>1, <1>2, <1>3, <1>4 DEF Readable

\* Without a join that adds rows on the way, only a base pipeline runs into a sink.
LEMMA SunkByBase ==
    ASSUME BuildInv, FeedInv, NEW m \in DOMAIN metas, NEW y \in ToSet(metas[m].pipes), Runs(y),
           NEW s, pipes[y].sink = s, s # NoOp, \A i \in DOMAIN Way(plan, s) : ~ AddsRows(Way(plan, s)[i])
    PROVE  y = Base(m)
<1> SUFFICES ASSUME y # Base(m) PROVE FALSE
  OBVIOUS
<1>1. PICK a \in DOMAIN metas[m].pipes : metas[m].pipes[a] = y
  BY DEF ToSet
<1>2. a # 1 /\ y \in DOMAIN pipes
  BY <1>1, MetaFacts DEF Base
<1>3. pipes[y].source \in JoinOps
  BY <1>1, <1>2 DEF BuildInv, PathsSound
<1>4. IsSource(pipes[y].source)
  BY <1>2, <1>3 DEF BuildInv, PathsSound
<1>5. AddsRows(pipes[y].source)
  <2>1. plan[pipes[y].source].type \in Joins
    BY <1>3 DEF JoinOps, OfType
  <2>2. CASE plan[pipes[y].source].type = "HASH_JOIN"
    BY <2>1, <2>2 DEF AddsRows, Runs
  <2>3. CASE plan[pipes[y].source].type # "HASH_JOIN"
    BY <1>4, <2>1, <2>3 DEF AddsRows, IsSource
  <2> QED
    BY <2>2, <2>3
<1>6. PipeFed(m, y)
  BY DEF FeedInv, PipesFed
<1>7. pipes[y].source \in ToSet(Way(plan, s))
  BY <1>3, <1>6 DEF PipeFed
<1> QED
  BY <1>5, <1>7 DEF ToSet

\* A pipeline finds what it reads complete: its meta-pipeline waits for the one that
\* fills it, which runs before and is the only one to do so, unless a join on the way
\* adds rows.
THEOREM ReadersGetRows ==
    Spec => []RowsReachReaders
<1>1. IInv /\ TableInv /\ RowsInv => RowsReachReaders
  <2> SUFFICES ASSUME IInv, TableInv, RowsInv, mode = "execute", NEW r \in ReadBy(Running),
                      \A s \in FilledBy(plan, r) : \A i \in DOMAIN Way(plan, s) : ~ AddsRows(Way(plan, s)[i])
               PROVE  Len(RowsAt(r)) = 1 /\ ToSet(RowsAt(r)) = FeedersOf(r)
    BY DEF RowsReachReaders
  <2> DEFINE p == Running
  <2>1. /\ ScheduleTyped /\ InOrder /\ BuildInv /\ Once /\ FeedInv /\ SinksPushed /\ DepsScheduled /\ HeldOnce
        /\ PipesFed /\ SinksFed
    BY DEF IInv, ScheduleInv, TableInv, RowsInv, FeedInv
  <2>2. scheduled \in Seq(DOMAIN pipes) /\ next \in DOMAIN scheduled /\ stack = <<>> /\ WellFormed(plan)
    <3>1. WellFormed(plan)
      BY <2>1, PlansAssumption DEF BuildInv, BuildTyped
    <3> QED
      BY <2>1, <3>1 DEF ScheduleTyped
  <2>3. p \in DOMAIN pipes /\ p = scheduled[next]
    BY <2>2 DEF Running
  <2>4. PICK m \in DOMAIN metas : p \in ToSet(metas[m].pipes)
    BY <2>1, <2>3 DEF BuildInv, MetasSound
  <2>5. r \in Reads(p) /\ r \in Ops(plan) /\ FilledBy(plan, r) # {}
    <3>1. r \in ToSet(pipes[p].ops) \cup {pipes[p].source} /\ plan[r].type \notin Streams /\ FilledBy(plan, r) # {}
      BY DEF ReadBy
    <3>2. ToSet(pipes[p].ops) \subseteq Ops(plan)
      BY <2>1, <2>3 DEF BuildInv, BuildTyped
    <3>3. pipes[p].source \in Ops(plan)
      BY <2>1, <2>2, <2>3, BuiltFacts
    <3> QED
      BY <3>1, <3>2, <3>3 DEF Reads
  <2>6. plan[r].type \in Readable /\ \A s \in FilledBy(plan, r) : Dep(Base(m), s)
    <3>1. PipeFed(m, p)
      BY <2>1, <2>4 DEF PipesFed
    <3> QED
      BY <2>5, <3>1 DEF PipeFed
  <2>7. PICK s \in FilledBy(plan, r) : Dep(Base(m), s)
    BY <2>5, <2>6
  <2>8. PICK q \in pipes[Base(m)].deps : q \in DOMAIN pipes /\ pipes[q].sink = s
    BY <2>7 DEF Dep
  <2>9. PICK i \in DOMAIN scheduled : i < next /\ scheduled[i] = q
    BY <2>1, <2>2, <2>3, <2>4, <2>8 DEF DepsScheduled
  <2>10. s \in Ops(plan) /\ s # NoOp
    <3>1. q \in ToSet(scheduled)
      BY <2>9 DEF ToSet
    <3>2. s \in Ops(plan)
      BY <2>1, <2>8, <3>1 DEF SinksPushed
    <3>3. Ops(plan) = 1 .. Len(plan)
      BY <2>2, PlanFacts
    <3> QED
      BY <3>2, <3>3 DEF NoOp
  <2>11. PICK n \in DOMAIN metas : q \in ToSet(metas[n].pipes)
    BY <2>1, <2>8 DEF BuildInv, MetasSound
  <2>12. metas[n].sink = s /\ SinkFed(s)
    <3>1. metas[n].sink = s
      BY <2>1, <2>8, <2>11, MetaFacts
    <3> QED
      BY <2>1, <2>10, <3>1 DEF SinksFed
  <2>13. ASSUME NEW x \in DOMAIN pipes, Runs(x), pipes[x].sink = s PROVE x = Base(n)
    <3>1. PICK k \in DOMAIN metas : x \in ToSet(metas[k].pipes)
      BY <2>1 DEF BuildInv, MetasSound
    <3>2. metas[k].sink = s
      BY <2>1, <2>13, <3>1, MetaFacts
    <3>3. k = n
      BY <2>1, <2>12, <3>2 DEF BuildInv, MetasSound
    <3>4. x \in ToSet(metas[n].pipes)
      BY <3>1, <3>3
    <3>5. \A a \in DOMAIN Way(plan, s) : ~ AddsRows(Way(plan, s)[a])
      OBVIOUS
    <3> QED
      BY <2>1, <2>10, <2>13, <3>4, <3>5, SunkByBase
  <2>14. \A k \in DOMAIN scheduled : pipes[scheduled[k]].sink = s => scheduled[k] = q
    <3>1. \A k \in DOMAIN scheduled : scheduled[k] \in DOMAIN pipes /\ Runs(scheduled[k])
      BY <2>1, <2>2 DEF InOrder
    <3>2. q = Base(n)
      BY <2>8, <2>9, <2>13, <3>1
    <3> QED
      BY <2>13, <3>1, <3>2
  <2>15. /\ FilledBy(plan, r) = {s}
         /\ plan[r].type = "CTE_SCAN" => s \in Holds(s) /\ ProducersOf(plan, r) = {s}
         /\ plan[r].type # "CTE_SCAN" => r \in Holds(s)
    BY <2>2, <2>5, <2>6, <2>10, ReadsOne
  <2>16. FeedersOf(r) = {q}
    <3>1. \A x \in ToSet(scheduled) : pipes[x].sink = s <=> x = q
      BY <2>8, <2>14 DEF ToSet
    <3>2. q \in ToSet(scheduled)
      BY <2>9 DEF ToSet
    <3> QED
      BY <2>15, <3>1, <3>2 DEF FeedersOf
  <2>17. Sunk(s) = {i}
    <3>1. i \in Sunk(s)
      BY <2>8, <2>9 DEF Sunk
    <3>2. \A k \in Sunk(s) : k = i
      BY <2>1, <2>9, <2>14 DEF Sunk, Once, IsInjective
    <3> QED
      BY <3>1, <3>2
  <2>18. \A x \in Holds(s) \cap Ops(plan) : held[x] = <<q>>
    BY <2>1, <2>9, <2>10, <2>12, <2>17 DEF HeldOnce
  <2>19. RowsAt(r) = <<q>>
    <3>1. CASE plan[r].type = "CTE_SCAN"
      <4>1. (CHOOSE c \in ProducersOf(plan, r) : TRUE) = s
        BY <2>15, <3>1
      <4> QED
        BY <2>10, <2>15, <2>18, <3>1, <4>1 DEF RowsAt
    <3>2. CASE plan[r].type # "CTE_SCAN"
      BY <2>5, <2>15, <2>18, <3>2 DEF RowsAt
    <3> QED
      BY <3>1, <3>2
  <2>20. Len(<<q>>) = 1 /\ ToSet(<<q>>) = {q}
    <3>1. DOMAIN <<q>> = {1} /\ <<q>>[1] = q /\ Len(<<q>>) = 1
      OBVIOUS
    <3> QED
      BY <3>1 DEF ToSet
  <2> QED
    BY <2>16, <2>19, <2>20
<1>2. Init => TableInv /\ RowsInv
  BY InitTableInv, InitRows
<1>3. IInv /\ IInv' /\ TableInv /\ RowsInv /\ [Next]_vars => TableInv' /\ RowsInv'
  BY TableSteps, RowsSteps
<1> QED
  BY <1>1, <1>2, <1>3, Invariance, PTL DEF Spec
=============================================================================
