------------------------ MODULE QueryLifecycleProofs ------------------------
(***************************************************************************)
(* Proofs about QueryLifecycle, for every number of statements, every size *)
(* of the host arena and every number of cells that plans, executions and  *)
(* answers take in it.                                                     *)
(***************************************************************************)
EXTENDS QueryLifecycle, SequenceTheorems, TLAPS

\* The bounds are natural numbers.
LEMMA Sizes ==
    /\ ArenaCells \in Nat /\ PlanCells \in Nat /\ WorkCells \in Nat
    /\ Chunks \in Nat /\ MaxCalls \in Nat /\ Substrait \subseteq Statements
  BY LifecycleAssumption

-----------------------------------------------------------------------------
(* Types *)

Contents ==
    {Free} \cup {PlanCell(s) : s \in Statements} \cup {WorkCell(s) : s \in Statements}
           \cup {ChunkCell(s, i) : s \in Statements, i \in 1 .. Chunks}

Typed ==
    /\ initialized \in BOOLEAN
    /\ hostPtr \in Nat
    /\ arena \in [Cell -> Contents]
    /\ call \in [Statements -> {"unbound", "bound", "running", "collecting", "collected",
                                "answering", "drained", "failed"}]
    /\ plan \in [Statements -> {"null", "ready", "error", "moved"}]
    /\ planAt \in [Statements -> Nat]
    /\ res \in [Statements -> {"none", "gpu", "duckdb"}]
    /\ chunkAt \in [Statements -> Nat]
    /\ given \in [Statements -> 0 .. Chunks]
    /\ fetched \in [Statements -> Seq(Contents)]
    /\ calls \in [Statements -> Nat]
    /\ resetSince \in [Statements -> BOOLEAN]
    /\ allocSince \in [Statements -> BOOLEAN]

\* A GPU answer lies inside the arena.
AnswersInArena ==
    \A s \in Statements :
        call[s] = "collected" \/ res[s] = "gpu" => chunkAt[s] + Chunks <= ArenaCells

-----------------------------------------------------------------------------
(***************************************************************************)
(* What a call has done and what it has are in step: where it stands       *)
(* decides what became of its plan, its result and its chunks.             *)
(***************************************************************************)
AtGPU == {"running", "collecting", "collected"}

PlanInStep(s) ==
    /\ call[s] = "unbound" => plan[s] = "null"
    /\ call[s] \in AtGPU => plan[s] = "moved"
    /\ call[s] # "unbound" /\ plan[s] = "null" => s \notin Substrait
    /\ call[s] = "failed" => initialized /\ plan[s] = "null"

ResultInStep(s) ==
    /\ call[s] \in {"unbound", "bound", "failed"} \cup AtGPU => res[s] = "none"
    /\ call[s] \in {"answering", "drained"} => res[s] # "none"
    /\ calls[s] = 0 => res[s] = "none"
    /\ res[s] = "none" => given[s] = 0
    /\ call[s] \in AtGPU => fetched[s] = <<>> /\ calls[s] # 0
    /\ call[s] = "drained" => given[s] = Chunks

InStep == \A s \in Statements : PlanInStep(s) /\ ResultInStep(s)

(***************************************************************************)
(* What is alive in the arena lies below the pointer: the arrays of every  *)
(* plan that is to run or runs, and the chunks of an answer that its own   *)
(* query has not reset yet.                                                *)
(***************************************************************************)
HoldsPlan(s) == plan[s] = "ready" \/ call[s] \in {"running", "collecting"}

PlanHeld(s) ==
    HoldsPlan(s) /\ ~resetSince[s] =>
        /\ planAt[s] + PlanCells <= hostPtr
        /\ planAt[s] + PlanCells <= ArenaCells
        /\ \A c \in planAt[s] .. planAt[s] + PlanCells - 1 : arena[c] = PlanCell(s)

PlansHeld == \A s \in Statements : PlanHeld(s)

\* Once the query has reset the arena, its chunks stay only as long as nobody allocates.
Undisturbed(s) == ~resetSince[s] /\ ~allocSince[s]

ChunksAt(s) == \A i \in 1 .. Chunks : arena[chunkAt[s] + i - 1] = ChunkCell(s, i)

AnswerHeld(s) ==
    /\ call[s] = "collected" /\ ~resetSince[s] =>
           chunkAt[s] + Chunks <= hostPtr /\ ChunksAt(s)
    /\ call[s] = "answering" /\ calls[s] = 1 /\ res[s] = "gpu" /\ Undisturbed(s) => ChunksAt(s)

AnswersHeld == \A s \in Statements : AnswerHeld(s)

\* The chunks given out so far are the first ones of the answer.
FetchedHeld(s) ==
    call[s] \in {"answering", "drained"} /\ calls[s] = 1 /\ (res[s] = "gpu" => Undisturbed(s))
    => fetched[s] = [i \in 1 .. given[s] |-> ChunkCell(s, i)]

FetchesHeld == \A s \in Statements : FetchedHeld(s)

IInv == Typed /\ AnswersInArena /\ InStep /\ PlansHeld /\ AnswersHeld /\ FetchesHeld

-----------------------------------------------------------------------------
(* The arena *)

\* Arrays are sequences of cells.
LEMMA Arrays ==
    ASSUME NEW s \in Statements
    PROVE  /\ [i \in 1 .. PlanCells |-> PlanCell(s)] \in Seq(Contents)
           /\ Len([i \in 1 .. PlanCells |-> PlanCell(s)]) = PlanCells
           /\ [i \in 1 .. WorkCells |-> WorkCell(s)] \in Seq(Contents)
           /\ Len([i \in 1 .. WorkCells |-> WorkCell(s)]) = WorkCells
           /\ [i \in 1 .. Chunks |-> ChunkCell(s, i)] \in Seq(Contents)
           /\ Len([i \in 1 .. Chunks |-> ChunkCell(s, i)]) = Chunks
<1>1. PlanCell(s) \in Contents /\ WorkCell(s) \in Contents
  BY DEF Contents
<1>2. \A i \in 1 .. Chunks : ChunkCell(s, i) \in Contents
  BY DEF Contents
<1>3. QED
  BY <1>1, <1>2, Sizes

\* A granted request gets the cells from the pointer on and leaves those below it alone.
LEMMA Granted ==
    ASSUME Typed, NEW s \in Statements, NEW content \in Seq(Contents), HostAlloc(s, content)
    PROVE  /\ hostPtr' = hostPtr + Len(content) /\ hostPtr' \in Nat /\ hostPtr' < ArenaCells
           /\ arena' \in [Cell -> Contents]
           /\ \A c \in Cell : c < hostPtr => arena'[c] = arena[c]
           /\ \A i \in 1 .. Len(content) : arena'[hostPtr + i - 1] = content[i]
           /\ allocSince' \in [Statements -> BOOLEAN]
           /\ \A t \in Statements : ~allocSince'[t] =>
                  ~allocSince[t] /\ (t = s \/ call[t] # "answering")
           /\ \A t \in Statements : t # s /\ call[t] = "answering" => allocSince'[t]
<1>1. Len(content) \in Nat /\ hostPtr \in Nat /\ DOMAIN content = 1 .. Len(content)
  BY DEF Typed
<1>2. hostPtr' = hostPtr + Len(content) /\ hostPtr' < ArenaCells
  BY DEF HostAlloc, Fits
<1>3. arena' = [c \in Cell |-> IF c \in hostPtr .. hostPtr + Len(content) - 1
                               THEN content[c - hostPtr + 1] ELSE arena[c]]
  BY DEF HostAlloc
<1>4. arena' \in [Cell -> Contents]
  <2> SUFFICES ASSUME NEW c \in Cell PROVE arena'[c] \in Contents
    BY <1>3
  <2>1. CASE c \in hostPtr .. hostPtr + Len(content) - 1
    <3>1. c - hostPtr + 1 \in DOMAIN content
      BY <1>1, <2>1
    <3>2. content[c - hostPtr + 1] \in Contents
      BY <3>1
    <3>3. QED
      BY <3>2, <2>1, <1>3
  <2>2. CASE c \notin hostPtr .. hostPtr + Len(content) - 1
    BY <2>2, <1>3 DEF Typed
  <2>3. QED
    BY <2>1, <2>2
<1>5. \A c \in Cell : c < hostPtr => arena'[c] = arena[c]
  BY <1>1, <1>3 DEF Cell
<1>6. \A i \in 1 .. Len(content) : arena'[hostPtr + i - 1] = content[i]
  <2> SUFFICES ASSUME NEW i \in 1 .. Len(content) PROVE arena'[hostPtr + i - 1] = content[i]
    OBVIOUS
  <2>1. hostPtr + i - 1 \in Cell /\ hostPtr + i - 1 \in hostPtr .. hostPtr + Len(content) - 1
    BY <1>1, <1>2, Sizes DEF Cell
  <2>2. (hostPtr + i - 1) - hostPtr + 1 = i
    BY <1>1
  <2>3. QED
    BY <2>1, <2>2, <1>3
<1>7. /\ allocSince' \in [Statements -> BOOLEAN]
      /\ \A t \in Statements : ~allocSince'[t] => ~allocSince[t] /\ (t = s \/ call[t] # "answering")
      /\ \A t \in Statements : t # s /\ call[t] = "answering" => allocSince'[t]
  BY DEF HostAlloc, Typed
<1>8. QED
  BY <1>1, <1>2, <1>4, <1>5, <1>6, <1>7

\* A plan stays where it is as long as nothing below the pointer is written.
LEMMA PlanStays ==
    ASSUME Typed, NEW s \in Statements, PlanHeld(s),
           HoldsPlan(s)' => HoldsPlan(s), planAt'[s] = planAt[s], resetSince[s] => resetSince'[s],
           resetSince'[s] \/ (/\ hostPtr' \in Nat /\ hostPtr' >= hostPtr
                             /\ \A c \in Cell : c < hostPtr => arena'[c] = arena[c])
    PROVE  PlanHeld(s)'
<1> SUFFICES ASSUME HoldsPlan(s)', ~resetSince'[s]
             PROVE  /\ planAt'[s] + PlanCells <= hostPtr'
                    /\ planAt'[s] + PlanCells <= ArenaCells
                    /\ \A c \in planAt'[s] .. planAt'[s] + PlanCells - 1 : arena'[c] = PlanCell(s)
  BY DEF PlanHeld, HoldsPlan, PlanCell
<1>1. /\ planAt[s] + PlanCells <= hostPtr
      /\ planAt[s] + PlanCells <= ArenaCells
      /\ \A c \in planAt[s] .. planAt[s] + PlanCells - 1 : arena[c] = PlanCell(s)
  BY DEF PlanHeld
<1>2. planAt[s] \in Nat /\ hostPtr \in Nat /\ hostPtr' \in Nat
  BY DEF Typed
<1>3. \A c \in planAt[s] .. planAt[s] + PlanCells - 1 : c \in Cell /\ c < hostPtr
  BY <1>1, <1>2, Sizes DEF Cell
<1>4. QED
  BY <1>1, <1>2, <1>3, Sizes

\* So do the chunks of an answer whose query has not reset the arena yet.
LEMMA ChunksStay ==
    ASSUME Typed, AnswersInArena, NEW s \in Statements, call[s] = "collected",
           chunkAt[s] + Chunks <= hostPtr, ChunksAt(s), chunkAt'[s] = chunkAt[s],
           \A c \in Cell : c < hostPtr => arena'[c] = arena[c]
    PROVE  ChunksAt(s)'
<1>1. chunkAt[s] \in Nat /\ hostPtr \in Nat /\ chunkAt[s] + Chunks <= ArenaCells
  BY DEF Typed, AnswersInArena
<1>2. \A i \in 1 .. Chunks : chunkAt[s] + i - 1 \in Cell /\ chunkAt[s] + i - 1 < hostPtr
  BY <1>1, Sizes DEF Cell
<1>3. QED
  BY <1>2 DEF ChunksAt, ChunkCell
-----------------------------------------------------------------------------
(* One lemma per part of the invariant *)

LEMMA InitInv == Init => IInv
<1> SUFFICES ASSUME Init PROVE IInv
  OBVIOUS
<1>1. Typed
  <2>1. Free \in Contents /\ <<>> \in Seq(Contents) /\ 0 \in 0 .. Chunks
    BY Sizes DEF Contents
  <2>2. arena \in [Cell -> Contents] /\ fetched \in [Statements -> Seq(Contents)]
    BY <2>1 DEF Init
  <2>3. resetSince \in [Statements -> BOOLEAN] /\ allocSince \in [Statements -> BOOLEAN]
    BY DEF Init
  <2>4. QED
    BY <2>1, <2>2, <2>3 DEF Init, Typed
<1>2. AnswersInArena /\ PlansHeld /\ AnswersHeld /\ FetchesHeld
  BY DEF Init, AnswersInArena, PlansHeld, PlanHeld, HoldsPlan, AnswersHeld, AnswerHeld,
         FetchesHeld, FetchedHeld
<1>3. InStep
  BY DEF Init, InStep, PlanInStep, ResultInStep, AtGPU
<1>4. QED
  BY <1>1, <1>2, <1>3 DEF IInv

\* What a chunk given out is taken from.
LEMMA NextChunkIsTyped ==
    ASSUME Typed, AnswersInArena, NEW s \in Statements, given[s] < Chunks, res[s] # "none"
    PROVE  NextChunk(s) \in Contents
<1>1. given[s] \in Nat /\ given[s] + 1 \in 1 .. Chunks
  BY Sizes DEF Typed
<1>2. CASE res[s] = "gpu"
  <2>1. chunkAt[s] + given[s] \in Cell
    BY <1>1, <1>2, Sizes DEF AnswersInArena, Cell, Typed
  <2>2. QED
    BY <2>1, <1>2 DEF NextChunk, Typed
<1>3. CASE res[s] # "gpu"
  BY <1>1, <1>3 DEF NextChunk, Contents
<1>4. QED
  BY <1>2, <1>3

LEMMA NextTyped == IInv /\ [Next]_vars => Typed'
<1> SUFFICES ASSUME IInv, [Next]_vars PROVE Typed'
  OBVIOUS
<1> USE Sizes DEF IInv
<1>1. CASE GPUBufferInit
  BY <1>1 DEF GPUBufferInit, Typed, arenaVars, history
<1>2. ASSUME NEW s \in Statements, BindUnplanned(s) PROVE Typed'
  BY <1>2 DEF BindUnplanned, Typed, arenaVars, history
<1>3. ASSUME NEW s \in Statements, GeneratePlan(s) PROVE Typed'
  <2>1. hostPtr' \in Nat /\ arena' \in [Cell -> Contents] /\ allocSince' \in [Statements -> BOOLEAN]
    <3>1. CASE HostAlloc(s, [i \in 1 .. PlanCells |-> PlanCell(s)])
      BY <3>1, Arrays, Granted
    <3>2. CASE HostRefuse(PlanCells)
      BY <3>2 DEF HostRefuse, Typed
    <3>3. QED
      BY <1>3, <3>1, <3>2 DEF GeneratePlan
  <2>2. plan' \in [Statements -> {"null", "ready", "error", "moved"}]
    BY <1>3 DEF GeneratePlan, Typed
  <2>3. QED
    BY <1>3, <2>1, <2>2 DEF GeneratePlan, Typed
<1>4. ASSUME NEW s \in Statements, CallAgain(s) \/ CallDuckDB(s) \/ CallUnplanned(s) \/ CallGPU(s)
      PROVE  Typed'
  <2>1. <<>> \in Seq(Contents)
    OBVIOUS
  <2>2. fetched' \in [Statements -> Seq(Contents)] /\ calls' \in [Statements -> Nat]
    <3>1. StartCall(s)
      BY <1>4 DEF CallAgain, CallDuckDB, CallUnplanned, CallGPU
    <3>2. QED
      BY <3>1, <2>1 DEF StartCall, Typed
  <2>3. CASE CallAgain(s) \/ CallUnplanned(s)
    BY <2>2, <2>3 DEF CallAgain, CallUnplanned, StartCall, Typed, arenaVars, history
  <2>4. CASE CallDuckDB(s)
    BY <2>2, <2>4 DEF CallDuckDB, StartCall, Typed, arenaVars, history
  <2>5. CASE CallGPU(s)
    BY <2>2, <2>5 DEF CallGPU, StartCall, Typed, arenaVars, history
  <2>6. QED
    BY <1>4, <2>3, <2>4, <2>5
<1>5. ASSUME NEW s \in Statements, Run(s) PROVE Typed'
  <2>1. hostPtr' \in Nat /\ arena' \in [Cell -> Contents] /\ allocSince' \in [Statements -> BOOLEAN]
    BY <1>5, Arrays, Granted DEF Run
  <2>2. QED
    BY <1>5, <2>1 DEF Run, Typed
<1>6. ASSUME NEW s \in Statements, Collect(s) PROVE Typed'
  <2>1. hostPtr' \in Nat /\ arena' \in [Cell -> Contents] /\ allocSince' \in [Statements -> BOOLEAN]
    BY <1>6, Arrays, Granted DEF Collect
  <2>2. QED
    BY <1>6, <2>1 DEF Collect, Typed
<1>7. ASSUME NEW s \in Statements, EndQuery(s) \/ Throw(s) PROVE Typed'
  <2>1. resetSince' = [t \in Statements |-> resetSince[t] \/ t # s]
    BY <1>7 DEF EndQuery, Throw, ResetBuffer
  <2>2. resetSince' \in [Statements -> BOOLEAN]
    BY <2>1, Zenon
  <2>3. CASE EndQuery(s)
    BY <2>2, <2>3 DEF EndQuery, ResetBuffer, Typed
  <2>4. CASE Throw(s)
    BY <2>2, <2>4 DEF Throw, ResetBuffer, Typed
  <2>5. QED
    BY <1>7, <2>3, <2>4
<1>8. ASSUME NEW s \in Statements, Fetch(s) PROVE Typed'
  <2>1. NextChunk(s) \in Contents
    BY <1>8, NextChunkIsTyped DEF Fetch, InStep, ResultInStep
  <2>2. fetched' \in [Statements -> Seq(Contents)]
    BY <1>8, <2>1 DEF Fetch, Typed
  <2>3. QED
    BY <1>8, <2>2 DEF Fetch, Typed, arenaVars, history
<1>9. ASSUME NEW s \in Statements, Drain(s) PROVE Typed'
  BY <1>9 DEF Drain, Typed, arenaVars, history
<1>10. CASE UNCHANGED vars
  BY <1>10 DEF vars, Typed
<1>11. QED
  BY <1>1, <1>2, <1>3, <1>4, <1>5, <1>6, <1>7, <1>8, <1>9, <1>10 DEF Next, Continue

LEMMA NextInArena == IInv /\ [Next]_vars => AnswersInArena'
<1> SUFFICES ASSUME IInv, [Next]_vars PROVE AnswersInArena'
  OBVIOUS
<1>1. ASSUME NEW s \in Statements, Collect(s) PROVE AnswersInArena'
  <2>1. hostPtr + Chunks < ArenaCells
    BY <1>1, Arrays DEF Collect, HostAlloc, Fits
  <2>2. QED
    BY <1>1, <2>1, Sizes DEF Collect, AnswersInArena, IInv, Typed
<1>2. ASSUME chunkAt' = chunkAt,
             \A t \in Statements : call'[t] = "collected" \/ res'[t] = "gpu" => call[t] = "collected" \/ res[t] = "gpu"
      PROVE  AnswersInArena'
  BY <1>2 DEF AnswersInArena, IInv
<1>3. ASSUME GPUBufferInit \/ UNCHANGED vars PROVE AnswersInArena'
  BY <1>2, <1>3 DEF GPUBufferInit, vars
<1>4. ASSUME NEW s \in Statements, BindUnplanned(s) \/ GeneratePlan(s) PROVE AnswersInArena'
  <2>1. /\ chunkAt' = chunkAt /\ res' = res
        /\ call' = [call EXCEPT ![s] = "bound"]
    BY <1>4 DEF BindUnplanned, GeneratePlan
  <2>2. QED
    BY <1>2, <2>1 DEF IInv, Typed
<1>5. ASSUME NEW s \in Statements, CallAgain(s) \/ CallDuckDB(s) \/ CallUnplanned(s) \/ CallGPU(s)
      PROVE  AnswersInArena'
  <2>1. /\ chunkAt' = chunkAt /\ res' \in {res, [res EXCEPT ![s] = "duckdb"]}
        /\ \E to \in {"answering", "failed", "running"} : call' = [call EXCEPT ![s] = to]
    BY <1>5 DEF CallAgain, CallDuckDB, CallUnplanned, CallGPU
  <2>2. QED
    BY <1>2, <2>1 DEF IInv, Typed
<1>6. ASSUME NEW s \in Statements, Run(s) \/ Throw(s) \/ Fetch(s) \/ Drain(s)
      PROVE  AnswersInArena'
  <2>1. /\ chunkAt' = chunkAt /\ res' \in {res, [res EXCEPT ![s] = "duckdb"]}
        /\ \/ call' = call
           \/ \E to \in {"collecting", "answering", "drained"} : call' = [call EXCEPT ![s] = to]
    BY <1>6 DEF Run, Throw, Fetch, Drain
  <2>2. QED
    BY <1>2, <2>1 DEF IInv, Typed
<1>7. ASSUME NEW s \in Statements, EndQuery(s) PROVE AnswersInArena'
  <2>1. /\ chunkAt' = chunkAt /\ call[s] = "collected"
        /\ res' = [res EXCEPT ![s] = "gpu"] /\ call' = [call EXCEPT ![s] = "answering"]
    BY <1>7 DEF EndQuery
  <2>2. QED
    BY <1>2, <2>1 DEF IInv, Typed
<1>8. QED
  BY <1>1, <1>3, <1>4, <1>5, <1>6, <1>7 DEF Next, Continue

\* The parts of the invariant that speak of one statement hold for a statement
\* that a step leaves alone.
LEMMA OthersInStep ==
    ASSUME NEW s \in Statements, PlanInStep(s), ResultInStep(s), initialized => initialized',
           call'[s] = call[s], plan'[s] = plan[s], res'[s] = res[s], given'[s] = given[s],
           fetched'[s] = fetched[s], calls'[s] = calls[s]
    PROVE  PlanInStep(s)' /\ ResultInStep(s)'
  BY DEF PlanInStep, ResultInStep, AtGPU

LEMMA NextInStep == IInv /\ [Next]_vars => InStep'
<1> SUFFICES ASSUME IInv, [Next]_vars, NEW t \in Statements
             PROVE  PlanInStep(t)' /\ ResultInStep(t)'
  BY DEF InStep
<1> USE DEF IInv
<1>1. PlanInStep(t) /\ ResultInStep(t)
  BY DEF InStep
<1>2. CASE GPUBufferInit
  BY <1>1, <1>2 DEF GPUBufferInit, arenaVars, history, PlanInStep, ResultInStep, AtGPU
<1>3. CASE UNCHANGED vars
  BY <1>1, <1>3 DEF vars, PlanInStep, ResultInStep, AtGPU
<1>4. ASSUME NEW s \in Statements, s # t,
             \/ BindUnplanned(s) \/ GeneratePlan(s) \/ CallAgain(s) \/ CallDuckDB(s)
             \/ CallUnplanned(s) \/ CallGPU(s) \/ Continue(s)
      PROVE  PlanInStep(t)' /\ ResultInStep(t)'
  <2>1. /\ initialized' = initialized
        /\ call'[t] = call[t] /\ plan'[t] = plan[t] /\ res'[t] = res[t] /\ given'[t] = given[t]
        /\ fetched'[t] = fetched[t] /\ calls'[t] = calls[t]
    BY <1>4 DEF BindUnplanned, GeneratePlan, CallAgain, CallDuckDB, CallUnplanned, CallGPU, StartCall,
                Continue, Run, Collect, EndQuery, Throw, Fetch, Drain, Typed
  <2>2. QED
    BY <2>1, <1>1, OthersInStep
<1>5. CASE BindUnplanned(t) \/ GeneratePlan(t)
  BY <1>1, <1>5 DEF BindUnplanned, GeneratePlan, PlansAtBind, Typed, PlanInStep, ResultInStep, AtGPU
<1>6. CASE CallAgain(t)
  BY <1>1, <1>6 DEF CallAgain, StartCall, Typed, PlanInStep, ResultInStep, AtGPU
<1>7. CASE CallDuckDB(t)
  BY <1>1, <1>7 DEF CallDuckDB, StartCall, Typed, PlanInStep, ResultInStep, AtGPU
<1>8. CASE CallUnplanned(t)
  BY <1>1, <1>8 DEF CallUnplanned, StartCall, Typed, PlanInStep, ResultInStep, AtGPU
<1>9. CASE CallGPU(t)
  BY <1>1, <1>9 DEF CallGPU, StartCall, Typed, PlanInStep, ResultInStep, AtGPU
<1>10. CASE Run(t)
  BY <1>1, <1>10 DEF Run, Typed, PlanInStep, ResultInStep, AtGPU
<1>11. CASE Collect(t)
  BY <1>1, <1>11 DEF Collect, Typed, PlanInStep, ResultInStep, AtGPU
<1>12. CASE EndQuery(t) \/ Throw(t)
  BY <1>1, <1>12 DEF EndQuery, Throw, Typed, PlanInStep, ResultInStep, AtGPU
<1>13. CASE Fetch(t) \/ Drain(t)
  BY <1>1, <1>13, Sizes DEF Fetch, Drain, Typed, PlanInStep, ResultInStep, AtGPU
<1>14. QED
  BY <1>2, <1>3, <1>4, <1>5, <1>6, <1>7, <1>8, <1>9, <1>10, <1>11, <1>12, <1>13 DEF Next, Continue
LEMMA NextPlansHeld == IInv /\ [Next]_vars => PlansHeld'
<1> SUFFICES ASSUME IInv, [Next]_vars, NEW t \in Statements PROVE PlanHeld(t)'
  BY DEF PlansHeld
<1> USE DEF IInv
<1>1. PlanHeld(t) /\ Typed'
  BY NextTyped DEF PlansHeld
<1>2. CASE UNCHANGED vars
  BY <1>1, <1>2, PlanStays DEF vars, Typed, HoldsPlan
<1>3. CASE GPUBufferInit
  BY <1>1, <1>3, PlanStays DEF GPUBufferInit, arenaVars, history, Typed, HoldsPlan
<1>4. ASSUME NEW s \in Statements,
             \/ BindUnplanned(s) \/ CallAgain(s) \/ CallDuckDB(s) \/ CallUnplanned(s) \/ CallGPU(s)
             \/ Fetch(s) \/ Drain(s)
      PROVE  PlanHeld(t)'
  <2>1. HoldsPlan(t)' => HoldsPlan(t)
    BY <1>4 DEF BindUnplanned, CallAgain, CallDuckDB, CallUnplanned, CallGPU, StartCall, Fetch, Drain,
                Typed, HoldsPlan
  <2>2. /\ planAt'[t] = planAt[t] /\ resetSince'[t] = resetSince[t]
        /\ hostPtr' = hostPtr /\ arena' = arena
    BY <1>4 DEF BindUnplanned, CallAgain, CallDuckDB, CallUnplanned, CallGPU, StartCall, Fetch, Drain,
                arenaVars, history
  <2>3. hostPtr' \in Nat /\ hostPtr' >= hostPtr /\ \A c \in Cell : c < hostPtr => arena'[c] = arena[c]
    BY <2>2 DEF Typed
  <2>4. QED
    BY <2>1, <2>2, <2>3, <1>1, PlanStays
<1>5. ASSUME NEW s \in Statements, Run(s) \/ Collect(s) PROVE PlanHeld(t)'
  <2>1. HoldsPlan(t)' => HoldsPlan(t)
    BY <1>5 DEF Run, Collect, Typed, HoldsPlan
  <2>2. planAt'[t] = planAt[t] /\ resetSince'[t] = resetSince[t]
    BY <1>5 DEF Run, Collect
  <2>3. hostPtr' >= hostPtr /\ \A c \in Cell : c < hostPtr => arena'[c] = arena[c]
    <3>1. PICK content \in Seq(Contents) : HostAlloc(s, content)
      BY <1>5, Arrays DEF Run, Collect
    <3>2. hostPtr' = hostPtr + Len(content) /\ \A c \in Cell : c < hostPtr => arena'[c] = arena[c]
      BY <3>1, Granted
    <3>3. Len(content) \in Nat /\ hostPtr \in Nat
      BY DEF Typed
    <3>4. QED
      BY <3>2, <3>3
  <2>4. hostPtr' \in Nat
    BY <1>1 DEF Typed
  <2>5. QED
    BY <2>1, <2>2, <2>3, <2>4, <1>1, PlanStays
<1>6. ASSUME NEW s \in Statements, EndQuery(s) \/ Throw(s) PROVE PlanHeld(t)'
  <2>1. HoldsPlan(t)' => HoldsPlan(t)
    BY <1>6 DEF EndQuery, Throw, Typed, HoldsPlan
  <2>2. planAt'[t] = planAt[t] /\ (resetSince[t] => resetSince'[t]) /\ (t # s => resetSince'[t])
    <3>1. planAt' = planAt /\ resetSince' = [u \in Statements |-> resetSince[u] \/ u # s]
      BY <1>6 DEF EndQuery, Throw, ResetBuffer
    <3>2. QED
      BY <3>1
  <2>3. CASE t # s
    BY <2>1, <2>2, <2>3, <1>1, PlanStays
  <2>4. CASE t = s
    <3>1. plan[t] = "moved" /\ ~HoldsPlan(t)'
      BY <1>6, <2>4 DEF EndQuery, Throw, HoldsPlan, InStep, PlanInStep, AtGPU, Typed
    <3>2. QED
      BY <3>1 DEF PlanHeld
  <2>5. QED
    BY <2>3, <2>4
<1>7. ASSUME NEW s \in Statements, GeneratePlan(s) PROVE PlanHeld(t)'
  <2>1. CASE HostAlloc(s, [i \in 1 .. PlanCells |-> PlanCell(s)])
    <3>1. /\ hostPtr' = hostPtr + PlanCells /\ hostPtr' < ArenaCells
          /\ \A c \in Cell : c < hostPtr => arena'[c] = arena[c]
          /\ \A i \in 1 .. PlanCells : arena'[hostPtr + i - 1] = PlanCell(s)
      <4> DEFINE content == [i \in 1 .. PlanCells |-> PlanCell(s)]
      <4>1. content \in Seq(Contents) /\ Len(content) = PlanCells /\ HostAlloc(s, content)
        BY <2>1, Arrays
      <4>2. \A i \in 1 .. PlanCells : content[i] = PlanCell(s)
        OBVIOUS
      <4> HIDE DEF content
      <4>3. QED
        BY <4>1, <4>2, Granted
    <3>2. CASE t = s
      <4>1. planAt'[t] = hostPtr
        BY <1>7, <3>2 DEF GeneratePlan, Typed
      <4>2. \A c \in hostPtr .. hostPtr + PlanCells - 1 : c - hostPtr + 1 \in 1 .. PlanCells
        BY Sizes DEF Typed
      <4>3. \A c \in hostPtr .. hostPtr + PlanCells - 1 : arena'[c] = PlanCell(s)
        <5>1. \A c \in hostPtr .. hostPtr + PlanCells - 1 : hostPtr + (c - hostPtr + 1) - 1 = c
          BY Sizes DEF Typed
        <5>2. QED
          BY <4>2, <5>1, <3>1
      <4>4. QED
        BY <4>1, <4>3, <3>1, <3>2, Sizes DEF PlanHeld, PlanCell, Typed
    <3>3. CASE t # s
      <4>1. /\ HoldsPlan(t)' => HoldsPlan(t)
            /\ planAt'[t] = planAt[t] /\ resetSince'[t] = resetSince[t]
        BY <1>7, <3>3 DEF GeneratePlan, HoldsPlan, Typed
      <4>2. hostPtr' \in Nat /\ hostPtr' >= hostPtr
        BY <3>1, Sizes DEF Typed
      <4>3. QED
        BY <4>1, <4>2, <3>1, <1>1, PlanStays
    <3>4. QED
      BY <3>2, <3>3
  <2>2. CASE HostRefuse(PlanCells) /\ plan' = [plan EXCEPT ![s] = "error"]
    <3>1. HoldsPlan(t)' => HoldsPlan(t) /\ t # s
      BY <1>7, <2>2 DEF GeneratePlan, HoldsPlan, Typed
    <3>2. t # s => planAt'[t] = planAt[t] /\ resetSince'[t] = resetSince[t]
      BY <1>7 DEF GeneratePlan, Typed
    <3>3. hostPtr' >= hostPtr /\ hostPtr' \in Nat /\ arena' = arena
      BY <2>2, Sizes DEF HostRefuse, Typed
    <3>4. CASE t = s
      BY <3>1, <3>4 DEF PlanHeld
    <3>5. CASE t # s
      BY <3>1, <3>2, <3>3, <3>5, <1>1, PlanStays
    <3>6. QED
      BY <3>4, <3>5
  <2>3. QED
    BY <1>7, <2>1, <2>2 DEF GeneratePlan
<1>8. QED
  BY <1>2, <1>3, <1>4, <1>5, <1>6, <1>7 DEF Next, Continue
LEMMA NextAnswersHeld == IInv /\ [Next]_vars => AnswersHeld'
<1> SUFFICES ASSUME IInv, [Next]_vars, NEW t \in Statements PROVE AnswerHeld(t)'
  BY DEF AnswersHeld
<1> USE DEF IInv
<1>1. AnswerHeld(t) /\ PlanInStep(t) /\ ResultInStep(t) /\ Typed'
  BY NextTyped DEF AnswersHeld, InStep
\* Steps that leave the arena and the answer of t alone.
<1>2. ASSUME arena' = arena, hostPtr' = hostPtr, chunkAt'[t] = chunkAt[t],
             resetSince'[t] = resetSince[t], allocSince'[t] = allocSince[t],
             call'[t] = "collected" => call[t] = "collected",
             call'[t] = "answering" /\ calls'[t] = 1 /\ res'[t] = "gpu" =>
                 call[t] = "answering" /\ calls[t] = 1 /\ res[t] = "gpu"
      PROVE  AnswerHeld(t)'
  BY <1>1, <1>2 DEF AnswerHeld, ChunksAt, ChunkCell, Undisturbed
<1>3. CASE GPUBufferInit \/ UNCHANGED vars
  BY <1>3, <1>2 DEF GPUBufferInit, vars, arenaVars, history
<1>4. ASSUME NEW s \in Statements,
             \/ BindUnplanned(s) \/ CallAgain(s) \/ CallDuckDB(s) \/ CallUnplanned(s) \/ CallGPU(s)
             \/ Fetch(s) \/ Drain(s)
      PROVE  AnswerHeld(t)'
  <2>1. /\ arena' = arena /\ hostPtr' = hostPtr /\ chunkAt' = chunkAt
        /\ resetSince' = resetSince /\ allocSince' = allocSince
    BY <1>4 DEF BindUnplanned, CallAgain, CallDuckDB, CallUnplanned, CallGPU, StartCall, Fetch, Drain,
                arenaVars, history
  <2>2. call'[t] = "collected" => call[t] = "collected"
    BY <1>4 DEF BindUnplanned, CallAgain, CallDuckDB, CallUnplanned, CallGPU, StartCall, Fetch, Drain, Typed
  <2>3. call'[t] = "answering" /\ calls'[t] = 1 /\ res'[t] = "gpu" =>
            call[t] = "answering" /\ calls[t] = 1 /\ res[t] = "gpu"
    <3>1. CASE CallAgain(s)
      BY <3>1, <1>1 DEF CallAgain, StartCall, Typed, ResultInStep
    <3>2. CASE CallDuckDB(s)
      BY <3>2 DEF CallDuckDB, StartCall, Typed
    <3>3. CASE BindUnplanned(s) \/ CallUnplanned(s) \/ CallGPU(s) \/ Fetch(s) \/ Drain(s)
      BY <3>3 DEF BindUnplanned, CallUnplanned, CallGPU, StartCall, Fetch, Drain, Typed
    <3>4. QED
      BY <1>4, <3>1, <3>2, <3>3
  <2>4. QED
    BY <2>1, <2>2, <2>3, <1>2
\* A request: what t has collected lies below, and a request of t's own comes earlier.
<1>5. ASSUME NEW s \in Statements, NEW content \in Seq(Contents), HostAlloc(s, content),
             chunkAt'[t] = chunkAt[t], resetSince'[t] = FALSE => resetSince[t] = FALSE,
             call'[t] = "collected" => call[t] = "collected",
             call'[t] = "answering" => s # t /\ call[t] = "answering"
      PROVE  AnswerHeld(t)'
  <2>1. call'[t] = "answering" => allocSince'[t]
    BY <1>5, Granted
  <2>2. ASSUME call'[t] = "collected", ~resetSince'[t]
        PROVE  chunkAt'[t] + Chunks <= hostPtr' /\ ChunksAt(t)'
    <3>1. call[t] = "collected" /\ chunkAt[t] + Chunks <= hostPtr /\ ChunksAt(t)
      BY <2>2, <1>5, <1>1 DEF AnswerHeld, Typed
    <3>2. /\ hostPtr' = hostPtr + Len(content) /\ Len(content) \in Nat
          /\ \A c \in Cell : c < hostPtr => arena'[c] = arena[c]
      BY <1>5, Granted
    <3>3. ChunksAt(t)'
      BY <3>1, <3>2, <1>5, ChunksStay
    <3>4. QED
      BY <3>1, <3>2, <3>3, <1>5, Sizes DEF Typed
  <2>3. QED
    BY <2>1, <2>2 DEF AnswerHeld, Undisturbed
<1>6. ASSUME NEW s \in Statements, GeneratePlan(s) PROVE AnswerHeld(t)'
  <2>1. /\ chunkAt' = chunkAt /\ call[s] = "unbound" /\ call' = [call EXCEPT ![s] = "bound"]
        /\ res' = res /\ calls' = calls
        /\ resetSince' = [resetSince EXCEPT ![s] = FALSE]
    BY <1>6 DEF GeneratePlan
  <2>2. CASE t = s
    BY <2>1, <2>2 DEF AnswerHeld, Typed
  <2>3. CASE t # s /\ HostAlloc(s, [i \in 1 .. PlanCells |-> PlanCell(s)])
    <3>1. PICK content \in Seq(Contents) : HostAlloc(s, content)
      BY <2>3, Arrays
    <3>2. call'[t] = call[t] /\ resetSince'[t] = resetSince[t]
      BY <2>1, <2>3 DEF Typed
    <3>3. QED
      BY <3>1, <3>2, <2>1, <2>3, <1>5 DEF Typed
  <2>4. CASE t # s /\ HostRefuse(PlanCells)
    <3>1. /\ call'[t] = call[t] /\ resetSince'[t] = resetSince[t]
          /\ arena' = arena /\ allocSince' = allocSince /\ hostPtr' = hostPtr + PlanCells
      BY <2>1, <2>4 DEF HostRefuse, Typed
    <3>2. chunkAt[t] + Chunks <= hostPtr => chunkAt[t] + Chunks <= hostPtr'
      BY <3>1, Sizes DEF Typed
    <3>3. QED
      BY <3>1, <3>2, <2>1, <1>1 DEF AnswerHeld, ChunksAt, ChunkCell, Undisturbed
  <2>5. QED
    BY <1>6, <2>2, <2>3, <2>4 DEF GeneratePlan
<1>7. ASSUME NEW s \in Statements, Run(s) PROVE AnswerHeld(t)'
  <2>1. PICK content \in Seq(Contents) : HostAlloc(s, content)
    BY <1>7, Arrays DEF Run
  <2>2. QED
    BY <1>7, <2>1, <1>5 DEF Run, Typed
<1>8. ASSUME NEW s \in Statements, Collect(s) PROVE AnswerHeld(t)'
  <2> DEFINE content == [i \in 1 .. Chunks |-> ChunkCell(s, i)]
  <2>1. content \in Seq(Contents) /\ Len(content) = Chunks /\ HostAlloc(s, content)
    BY <1>8, Arrays DEF Collect
  <2>2. \A i \in 1 .. Chunks : content[i] = ChunkCell(s, i)
    OBVIOUS
  <2> HIDE DEF content
  <2>3. CASE t # s
    BY <1>8, <2>1, <2>3, <1>5 DEF Collect, Typed
  <2>4. CASE t = s
    <3>1. hostPtr' = hostPtr + Chunks /\ \A i \in 1 .. Chunks : arena'[hostPtr + i - 1] = content[i]
      BY <2>1, Granted
    <3>2. chunkAt'[s] = hostPtr /\ call'[s] = "collected"
      BY <1>8 DEF Collect, Typed
    <3>3. ChunksAt(t)'
      BY <3>1, <3>2, <2>2, <2>4 DEF ChunksAt
    <3>4. QED
      BY <3>1, <3>2, <3>3, <2>4, Sizes DEF AnswerHeld, Typed
  <2>5. QED
    BY <2>3, <2>4
<1>9. ASSUME NEW s \in Statements, EndQuery(s) \/ Throw(s) PROVE AnswerHeld(t)'
  <2>1. chunkAt' = chunkAt /\ arena' = arena /\ allocSince' = allocSince /\ calls' = calls
    BY <1>9 DEF EndQuery, Throw, ResetBuffer
  <2>2. CASE t # s
    <3>1. resetSince'[t]
      <4>1. resetSince' = [u \in Statements |-> resetSince[u] \/ u # s]
        BY <1>9 DEF EndQuery, Throw, ResetBuffer
      <4>2. QED
        BY <4>1, <2>2, Zenon
    <3>2. QED
      BY <3>1 DEF AnswerHeld, Undisturbed
  <2>3. CASE t = s
    <3>1. call'[t] = "answering" /\ (resetSince[t] => resetSince'[t])
      <4>1. /\ resetSince' = [u \in Statements |-> resetSince[u] \/ u # s]
            /\ call' = [call EXCEPT ![s] = "answering"]
        BY <1>9 DEF EndQuery, Throw, ResetBuffer
      <4>2. QED
        BY <4>1, <2>3, Zenon DEF Typed
    <3>2. res'[t] = "gpu" => call[t] = "collected"
      BY <1>9, <2>3, <1>1 DEF EndQuery, Throw, Typed, ResultInStep, AtGPU
    <3>3. QED
      BY <3>1, <3>2, <2>1, <1>1 DEF AnswerHeld, ChunksAt, ChunkCell, Undisturbed
  <2>4. QED
    BY <2>2, <2>3
<1>10. QED
  BY <1>3, <1>4, <1>6, <1>7, <1>8, <1>9 DEF Next, Continue
LEMMA NextFetchesHeld == IInv /\ [Next]_vars => FetchesHeld'
<1> SUFFICES ASSUME IInv, [Next]_vars, NEW t \in Statements PROVE FetchedHeld(t)'
  BY DEF FetchesHeld
<1> USE DEF IInv
<1>1. FetchedHeld(t) /\ AnswerHeld(t) /\ PlanInStep(t) /\ ResultInStep(t) /\ Typed'
  BY NextTyped DEF FetchesHeld, AnswersHeld, InStep
\* Steps after which what t has been given has not grown.
<1>2. ASSUME call'[t] \in {"answering", "drained"} => call[t] \in {"answering", "drained"},
             calls'[t] = calls[t], res'[t] = res[t], given'[t] = given[t], fetched'[t] = fetched[t],
             Undisturbed(t)' => Undisturbed(t) \/ call[t] = "unbound"
      PROVE  FetchedHeld(t)'
  BY <1>1, <1>2 DEF FetchedHeld, ChunkCell
<1>3. ASSUME call'[t] \notin {"answering", "drained"} PROVE FetchedHeld(t)'
  BY <1>3 DEF FetchedHeld
<1>4. CASE GPUBufferInit \/ UNCHANGED vars
  BY <1>4, <1>2 DEF GPUBufferInit, vars, arenaVars, history, Undisturbed
<1>5. ASSUME NEW s \in Statements, s # t,
             \/ BindUnplanned(s) \/ CallAgain(s) \/ CallDuckDB(s) \/ CallUnplanned(s) \/ CallGPU(s)
             \/ Fetch(s) \/ Drain(s)
      PROVE  FetchedHeld(t)'
  <2>1. /\ call'[t] = call[t] /\ calls'[t] = calls[t] /\ res'[t] = res[t] /\ given'[t] = given[t]
        /\ fetched'[t] = fetched[t]
    BY <1>5 DEF BindUnplanned, CallAgain, CallDuckDB, CallUnplanned, CallGPU, StartCall, Fetch, Drain, Typed
  <2>2. Undisturbed(t)' = Undisturbed(t)
    BY <1>5 DEF BindUnplanned, CallAgain, CallDuckDB, CallUnplanned, CallGPU, Fetch, Drain, history, Undisturbed
  <2>3. QED
    BY <2>1, <2>2, <1>2
<1>6. ASSUME NEW s \in Statements, s # t,
             GeneratePlan(s) \/ Run(s) \/ Collect(s) \/ EndQuery(s) \/ Throw(s)
      PROVE  FetchedHeld(t)'
  <2>1. /\ call'[t] = call[t] /\ calls'[t] = calls[t] /\ res'[t] = res[t] /\ given'[t] = given[t]
        /\ fetched'[t] = fetched[t]
    BY <1>6 DEF GeneratePlan, Run, Collect, EndQuery, Throw, Typed
  <2>2. resetSince[t] => resetSince'[t]
    <3>1. CASE GeneratePlan(s)
      BY <3>1, <1>6 DEF GeneratePlan, Typed
    <3>2. CASE Run(s) \/ Collect(s)
      BY <3>2 DEF Run, Collect
    <3>3. CASE EndQuery(s) \/ Throw(s)
      <4>1. resetSince' = [u \in Statements |-> resetSince[u] \/ u # s]
        BY <3>3 DEF EndQuery, Throw, ResetBuffer
      <4>2. QED
        BY <4>1, <1>6, Zenon
    <3>4. QED
      BY <1>6, <3>1, <3>2, <3>3
  <2>3. allocSince[t] => allocSince'[t]
    <3>1. CASE \E content \in Seq(Contents) : HostAlloc(s, content)
      BY <3>1, Granted
    <3>2. CASE allocSince' = allocSince
      BY <3>2
    <3>3. QED
      BY <1>6, <3>1, <3>2, Arrays DEF GeneratePlan, Run, Collect, EndQuery, Throw, HostRefuse, ResetBuffer
  <2>4. QED
    BY <2>1, <2>2, <2>3, <1>2 DEF Undisturbed
<1>7. CASE BindUnplanned(t) \/ GeneratePlan(t) \/ CallUnplanned(t) \/ CallGPU(t) \/ Run(t) \/ Collect(t)
  BY <1>7, <1>3 DEF BindUnplanned, GeneratePlan, CallUnplanned, CallGPU, Run, Collect, Typed
<1>8. CASE CallAgain(t)
  BY <1>8, <1>1 DEF CallAgain, StartCall, Typed, ResultInStep, FetchedHeld
<1>9. CASE CallDuckDB(t) \/ EndQuery(t) \/ Throw(t)
  <2>1. given'[t] = 0 /\ fetched'[t] = <<>>
    BY <1>9, <1>1 DEF CallDuckDB, StartCall, EndQuery, Throw, Typed, ResultInStep, AtGPU
  <2>2. QED
    BY <2>1 DEF FetchedHeld
<1>10. CASE Drain(t)
  BY <1>10, <1>2 DEF Drain, Typed, history, Undisturbed
<1>11. CASE Fetch(t)
  <2> SUFFICES ASSUME calls'[t] = 1, res'[t] = "gpu" => Undisturbed(t)'
               PROVE  fetched'[t] = [i \in 1 .. given'[t] |-> ChunkCell(t, i)]
    BY DEF FetchedHeld, ChunkCell
  <2>1. /\ call[t] = "answering" /\ calls[t] = 1 /\ given[t] < Chunks /\ res'[t] = res[t]
        /\ given'[t] = given[t] + 1 /\ fetched'[t] = Append(fetched[t], NextChunk(t))
        /\ res[t] = "gpu" => Undisturbed(t)
    BY <1>11 DEF Fetch, Typed, history, Undisturbed
  <2>2. fetched[t] = [i \in 1 .. given[t] |-> ChunkCell(t, i)]
    BY <2>1, <1>1 DEF FetchedHeld
  <2>3. given[t] \in Nat /\ given[t] + 1 \in 1 .. Chunks
    BY <2>1, Sizes DEF Typed
  <2>4. NextChunk(t) = ChunkCell(t, given[t] + 1)
    <3>1. CASE res[t] = "gpu"
      <4>1. arena[chunkAt[t] + (given[t] + 1) - 1] = ChunkCell(t, given[t] + 1)
        BY <3>1, <2>1, <2>3, <1>1 DEF AnswerHeld, ChunksAt
      <4>2. chunkAt[t] + (given[t] + 1) - 1 = chunkAt[t] + given[t]
        BY <2>3 DEF Typed
      <4>3. QED
        BY <4>1, <4>2, <3>1 DEF NextChunk
    <3>2. CASE res[t] # "gpu"
      BY <3>2 DEF NextChunk
    <3>3. QED
      BY <3>1, <3>2
  <2>5. QED
    <3> DEFINE given_ == [i \in 1 .. given[t] |-> ChunkCell(t, i)]
    <3>1. given_ \in Seq(Contents) /\ Len(given_) = given[t]
      <4>1. \A i \in 1 .. given[t] : ChunkCell(t, i) \in Contents
        <5>1. \A i \in 1 .. given[t] : i \in 1 .. Chunks
          BY <2>3, Sizes
        <5>2. QED
          BY <5>1 DEF Contents
      <4>2. given_ \in [1 .. given[t] -> Contents]
        BY <4>1
      <4> HIDE DEF given_
      <4>3. QED
        BY <4>2, <2>3
    <3>2. Append(given_, ChunkCell(t, given[t] + 1)) = [i \in 1 .. given[t] + 1 |-> ChunkCell(t, i)]
      <4> DEFINE more == Append(given_, ChunkCell(t, given[t] + 1))
      <4>1. /\ more \in Seq(Contents) /\ Len(more) = given[t] + 1
            /\ \A i \in 1 .. given[t] : more[i] = given_[i]
            /\ more[given[t] + 1] = ChunkCell(t, given[t] + 1)
        <5>1. ChunkCell(t, given[t] + 1) \in Contents
          BY <2>3 DEF Contents
        <5> HIDE DEF given_
        <5>2. QED
          BY <3>1, <5>1, <2>3, AppendProperties
      <4>2. \A i \in 1 .. given[t] + 1 : more[i] = ChunkCell(t, i)
        BY <4>1, <2>3
      <4> HIDE DEF more
      <4>3. more = [i \in 1 .. given[t] + 1 |-> ChunkCell(t, i)]
        BY <4>1, <4>2
      <4>4. QED
        BY <4>3 DEF more
    <3>3. QED
      BY <3>2, <2>1, <2>2, <2>4
<1>12. QED
  BY <1>4, <1>5, <1>6, <1>7, <1>8, <1>9, <1>10, <1>11 DEF Next, Continue

LEMMA InvAlways == Spec => []IInv
<1>1. IInv /\ [Next]_vars => IInv'
  BY NextTyped, NextInArena, NextInStep, NextPlansHeld, NextAnswersHeld, NextFetchesHeld DEF IInv
<1>2. QED
  BY <1>1, InitInv, PTL DEF Spec

-----------------------------------------------------------------------------
\* The arrays a scan's constructor allocated at bind time hold what the plan put there
\* until its pipelines have read them, whatever number of statements bind, run and fail
\* meanwhile, unless one of them ended a GPU execution and so reset the arena
\* (customCudaHostAlloc, GPUBufferManager::ResetBuffer).
THEOREM PlansAreIntact == Spec => []PlanMemoryIsIntact
<1>1. IInv => PlanMemoryIsIntact
  BY DEF IInv, PlansHeld, PlanHeld, HoldsPlan, PlanMemoryIsIntact
<1>2. QED
  BY <1>1, InvAlways, PTL

\* The first execution of a statement gives out all chunks of its answer, in order and
\* with their contents, although a GPU answer is fetched from an arena its own query
\* has reset, as long as no other statement resets it before or allocates in it after.
THEOREM AnswersAreWhole == Spec => []AnswerIsWhole
<1>1. IInv => AnswerIsWhole
  <2> SUFFICES ASSUME IInv, NEW s \in Statements, call[s] = "drained", calls[s] = 1,
                      res[s] = "gpu" => ~resetSince[s] /\ ~allocSince[s]
               PROVE  fetched[s] = [i \in 1 .. Chunks |-> ChunkCell(s, i)]
    BY DEF AnswerIsWhole
  <2>1. given[s] = Chunks /\ FetchedHeld(s)
    BY DEF IInv, InStep, ResultInStep, FetchesHeld
  <2>2. QED
    BY <2>1 DEF FetchedHeld, Undisturbed
<1>2. QED
  BY <1>1, InvAlways, PTL

\* No call ends in an exception but one that was bound before gpu_buffer_init and
\* executed after it: whatever fails at the GPU, DuckDB answers (GPUProcessingFunction).
THEOREM OnlyLateInitEndsInException == Spec => []OnlyLateInitFails
<1>1. IInv => OnlyLateInitFails
  BY DEF IInv, InStep, PlanInStep, OnlyLateInitFails
<1>2. QED
  BY <1>1, InvAlways, PTL
===============================================================================
