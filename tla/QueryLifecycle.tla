---------------------------- MODULE QueryLifecycle ----------------------------
(* The life of a call of gpu_processing or gpu_processing_substrait: bound by  *)
(* GPUProcessingBind, executed by GPUProcessingFunction through GPUContext,    *)
(* answered chunk by chunk, and given to DuckDB when the GPU cannot answer.    *)
(* Statements of one connection or of several share one GPUBufferManager: its  *)
(* host arena holds the arrays a plan allocates while it is generated and the  *)
(* chunks of an answer until they are fetched, and ResetBuffer, at the end of  *)
(* every GPU execution, takes all of it back.                                  *)
EXTENDS Naturals, Sequences

CONSTANTS
    Statements,  \* the bound table functions (one FunctionData each)
    Substrait,   \* those bound by gpu_processing_substrait
    ArenaCells,  \* size of the host arena (processing_size_per_cpu)
    PlanCells,   \* cells the plan of a statement allocates when generated
    WorkCells,   \* cells its execution allocates before the result collector
    Chunks,      \* chunks of its answer, one cell each
    MaxCalls     \* bound: executions of a statement

ASSUME LifecycleAssumption ==
    /\ Substrait \subseteq Statements
    /\ {ArenaCells, PlanCells, WorkCells, Chunks, MaxCalls} \subseteq Nat

VARIABLES
    initialized,  \* buffer_is_initialized
    manager,      \* the singleton GPUBufferManager: "none", "sized" or "empty"
    hostPtr,      \* cpuProcessingPointer
    arena,        \* what each cell of the host arena holds
    call,         \* where the call of each statement is
    plan,         \* data.gpu_prepared and data.plan_error
    planAt,       \* first cell of the plan's arrays
    res,          \* data.res: "none", "gpu" or "duckdb"
    chunkAt,      \* first cell of the chunks of a GPU answer
    given,        \* read_idx of data.res
    fetched,      \* what the chunks given out in this execution held
    calls,        \* executions so far
    resetSince,   \* (history) another statement reset the buffer since the bind
    allocSince    \* (history) another allocated since this answer was collected

arenaVars == <<hostPtr, arena>>
history == <<resetSince, allocSince>>
vars == <<initialized, manager, hostPtr, arena, call, plan, planAt, res,
          chunkAt, given, fetched, calls, resetSince, allocSince>>

Cell == 0 .. ArenaCells - 1
PlanCell(s) == <<s, "plan", 0>>
WorkCell(s) == <<s, "work", 0>>
ChunkCell(s, i) == <<s, "chunk", i>>
Free == <<"free">>

Init ==
    /\ initialized = FALSE
    /\ manager = "none"
    /\ hostPtr = 0
    /\ arena = [c \in Cell |-> Free]
    /\ call = [s \in Statements |-> "unbound"]
    /\ plan = [s \in Statements |-> "null"]
    /\ planAt = [s \in Statements |-> 0]
    /\ res = [s \in Statements |-> "none"]
    /\ chunkAt = [s \in Statements |-> 0]
    /\ given = [s \in Statements |-> 0]
    /\ fetched = [s \in Statements |-> <<>>]
    /\ calls = [s \in Statements |-> 0]
    /\ resetSince = [s \in Statements |-> FALSE]
    /\ allocSince = [s \in Statements |-> FALSE]

-------------------------------------------------------------------------------
(* The host arena *)

(* customCudaHostAlloc: the cells fit strictly below the arena's size; a       *)
(* manager built by GetInstance() without sizes has none.                      *)
Fits(n) == manager' = "sized" /\ hostPtr + n < ArenaCells

(* A faulty variant, for mutation: the last cell is not counted. *)
HostAllocShort(s, content) ==
    /\ Fits(Len(content))
    /\ arena' = [c \in Cell |-> IF c \in hostPtr .. hostPtr + Len(content) - 1
                                THEN content[c - hostPtr + 1] ELSE arena[c]]
    /\ hostPtr' = hostPtr + Len(content) - 1
    /\ allocSince' = [t \in Statements |->
                        allocSince[t] \/ (t # s /\ call[t] = "answering")]

(* A granted request: the caller writes content[i] in its i-th cell. *)
HostAlloc(s, content) ==
    /\ Fits(Len(content))
    /\ arena' = [c \in Cell |-> IF c \in hostPtr .. hostPtr + Len(content) - 1
                                THEN content[c - hostPtr + 1] ELSE arena[c]]
    /\ hostPtr' = hostPtr + Len(content)
    /\ allocSince' = [t \in Statements |->
                        allocSince[t] \/ (t # s /\ call[t] = "answering")]

(* A refused one: the pointer keeps the size it was advanced by. *)
HostRefuse(n) ==
    /\ ~Fits(n)
    /\ hostPtr' = hostPtr + n
    /\ UNCHANGED <<arena, allocSince>>

(* ResetBuffer: nothing below the pointer is anybody's any more. *)
ResetBuffer(s) ==
    /\ hostPtr' = 0
    /\ resetSince' = [t \in Statements |-> resetSince[t] \/ t # s]
    /\ UNCHANGED <<arena, allocSince>>

-------------------------------------------------------------------------------
(* gpu_buffer_init: the manager is built with the sizes asked for, unless it   *)
(* exists already, in which case GetInstance returns it as it is.              *)
GPUBufferInit ==
    /\ ~initialized
    /\ initialized' = TRUE
    /\ manager' = IF manager = "none" THEN "sized" ELSE manager
    /\ UNCHANGED <<arenaVars, call, plan, planAt, res, chunkAt, given, fetched, calls, history>>

(* GPUProcessingBind generates no plan before gpu_buffer_init;                 *)
(* GPUProcessingSubstraitBind always does.                                     *)
PlansAtBind(s) == initialized \/ s \in Substrait

BindUnplanned(s) ==
    /\ call[s] = "unbound"
    /\ ~PlansAtBind(s)
    /\ call' = [call EXCEPT ![s] = "bound"]
    /\ UNCHANGED <<initialized, manager, arenaVars, plan, planAt, res, chunkAt, given, fetched, calls, history>>

(* Generating the plan: the constructor of a scan allocates its arrays in the  *)
(* host arena, and any operator may turn out to be unsupported afterwards; the *)
(* exception is remembered in plan_error and what was allocated stays.         *)
GeneratePlan(s) ==
    /\ call[s] = "unbound"
    /\ PlansAtBind(s)
    /\ manager' = IF manager = "none" THEN "empty" ELSE manager
    /\ planAt' = [planAt EXCEPT ![s] = hostPtr]
    /\ \/ /\ HostAlloc(s, [i \in 1 .. PlanCells |-> PlanCell(s)])
          /\ \E p \in {"ready", "error"} : plan' = [plan EXCEPT ![s] = p]
       \/ HostRefuse(PlanCells) /\ plan' = [plan EXCEPT ![s] = "error"]
    /\ call' = [call EXCEPT ![s] = "bound"]
    /\ resetSince' = [resetSince EXCEPT ![s] = FALSE]
    /\ UNCHANGED <<initialized, res, chunkAt, given, fetched, calls>>

-------------------------------------------------------------------------------
(* GPUProcessingFunction *)

StartCall(s) ==
    /\ call[s] \in {"bound", "drained", "failed"}
    /\ calls[s] < MaxCalls
    /\ calls' = [calls EXCEPT ![s] = @ + 1]
    /\ fetched' = [fetched EXCEPT ![s] = <<>>]

(* data.res is kept from the first execution of the statement. *)
CallAgain(s) ==
    /\ StartCall(s)
    /\ res[s] # "none"
    /\ call' = [call EXCEPT ![s] = "answering"]
    /\ UNCHANGED <<initialized, manager, arenaVars, plan, planAt, res, chunkAt, given, history>>

(* Not initialised, or planned in vain: DuckDB answers. *)
CallDuckDB(s) ==
    /\ StartCall(s)
    /\ res[s] = "none"
    /\ ~initialized \/ plan[s] = "error"
    /\ res' = [res EXCEPT ![s] = "duckdb"]
    /\ call' = [call EXCEPT ![s] = "answering"]
    /\ UNCHANGED <<initialized, manager, arenaVars, plan, planAt, chunkAt, given, history>>

(* Bound before gpu_buffer_init and executed after it: the null gpu_prepared   *)
(* is dereferenced outside any try, so the exception reaches the caller.       *)
CallUnplanned(s) ==
    /\ StartCall(s)
    /\ res[s] = "none"
    /\ initialized
    /\ plan[s] = "null"
    /\ call' = [call EXCEPT ![s] = "failed"]
    /\ UNCHANGED <<initialized, manager, arenaVars, plan, planAt, res, chunkAt, given, history>>

(* GPUExecuteQuery: the active query takes the prepared statement over. *)
CallGPU(s) ==
    /\ StartCall(s)
    /\ res[s] = "none"
    /\ initialized
    /\ plan[s] = "ready"
    /\ plan' = [plan EXCEPT ![s] = "moved"]
    /\ call' = [call EXCEPT ![s] = "running"]
    /\ UNCHANGED <<initialized, manager, arenaVars, planAt, res, chunkAt, given, history>>

(* The pipelines run, reading the arrays of the plan. *)
Run(s) ==
    /\ call[s] = "running"
    /\ UNCHANGED manager
    /\ HostAlloc(s, [i \in 1 .. WorkCells |-> WorkCell(s)])
    /\ call' = [call EXCEPT ![s] = "collecting"]
    /\ UNCHANGED <<initialized, plan, planAt, res, chunkAt, given, fetched, calls, resetSince>>

(* The result collector copies the answer to the host arena. *)
Collect(s) ==
    /\ call[s] = "collecting"
    /\ UNCHANGED manager
    /\ HostAlloc(s, [i \in 1 .. Chunks |-> ChunkCell(s, i)])
    /\ chunkAt' = [chunkAt EXCEPT ![s] = hostPtr]
    /\ call' = [call EXCEPT ![s] = "collected"]
    /\ UNCHANGED <<initialized, plan, planAt, res, given, fetched, calls, resetSince>>

(* FetchResultInternal, CleanupInternal, EndQueryInternal. *)
EndQuery(s) ==
    /\ call[s] = "collected"
    /\ ResetBuffer(s)
    /\ res' = [res EXCEPT ![s] = "gpu"]
    /\ call' = [call EXCEPT ![s] = "answering"]
    /\ UNCHANGED <<initialized, manager, plan, planAt, chunkAt, given, fetched, calls>>

(* A faulty variant, for mutation: the error result is what the caller gets. *)
ThrowToCaller(s) ==
    /\ call[s] \in {"running", "collecting"}
    /\ ResetBuffer(s)
    /\ call' = [call EXCEPT ![s] = "failed"]
    /\ UNCHANGED <<initialized, manager, plan, planAt, res, chunkAt, given, fetched, calls>>
(* An exception in Execute: GPUExecutePendingQueryResult resets the buffer and *)
(* returns an error result, for which GPUProcessingFunction asks DuckDB.       *)
Throw(s) ==
    /\ call[s] \in {"running", "collecting"}
    /\ ResetBuffer(s)
    /\ res' = [res EXCEPT ![s] = "duckdb"]
    /\ call' = [call EXCEPT ![s] = "answering"]
    /\ UNCHANGED <<initialized, manager, plan, planAt, chunkAt, given, fetched, calls>>

(* One Fetch: GetNext refers to the chunk where it lies in the arena; a result *)
(* of DuckDB owns its chunks.                                                  *)
NextChunk(s) ==
    IF res[s] = "gpu" THEN arena[chunkAt[s] + given[s]] ELSE ChunkCell(s, given[s] + 1)

(* A faulty variant, for mutation: read_idx is not advanced. *)
FetchAgain(s) ==
    /\ call[s] = "answering"
    /\ given[s] < Chunks
    /\ fetched' = [fetched EXCEPT ![s] = <<NextChunk(s)>>]
    /\ UNCHANGED <<initialized, manager, arenaVars, call, plan, planAt, res, chunkAt, given, calls, history>>

Fetch(s) ==
    /\ call[s] = "answering"
    /\ given[s] < Chunks
    /\ given' = [given EXCEPT ![s] = @ + 1]
    /\ fetched' = [fetched EXCEPT ![s] = Append(@, NextChunk(s))]
    /\ UNCHANGED <<initialized, manager, arenaVars, call, plan, planAt, res, chunkAt, calls, history>>

(* A faulty variant, for mutation: the comparison with write_idx is off by one. *)
DrainEarly(s) ==
    /\ call[s] = "answering"
    /\ given[s] + 1 >= Chunks
    /\ call' = [call EXCEPT ![s] = "drained"]
    /\ UNCHANGED <<initialized, manager, arenaVars, plan, planAt, res, chunkAt, given, fetched, calls, history>>

Drain(s) ==
    /\ call[s] = "answering"
    /\ given[s] = Chunks
    /\ call' = [call EXCEPT ![s] = "drained"]
    /\ UNCHANGED <<initialized, manager, arenaVars, plan, planAt, res, chunkAt, given, fetched, calls, history>>

-------------------------------------------------------------------------------
(* What the thread of a call does by itself once the call is made. *)
Continue(s) == Run(s) \/ Collect(s) \/ EndQuery(s) \/ Throw(s) \/ Fetch(s) \/ Drain(s)

Next ==
    \/ GPUBufferInit
    \/ \E s \in Statements :
        \/ BindUnplanned(s) \/ GeneratePlan(s)
        \/ CallAgain(s) \/ CallDuckDB(s) \/ CallUnplanned(s) \/ CallGPU(s)
        \/ Continue(s)

Spec == Init /\ [][Next]_vars
(* A thread inside the function goes on; nobody has to bind or to call. *)
FairSpec == Spec /\ \A s \in Statements : WF_vars(Continue(s))

-------------------------------------------------------------------------------
(* The arrays a scan's constructor allocated at bind time still hold what the  *)
(* plan put there all the while it executes, unless another statement ended a  *)
(* GPU execution in between: the cells a plan gets are nobody else's until a   *)
(* ResetBuffer.                                                                *)
PlanMemoryIsIntact ==
    \A s \in Statements :
        (plan[s] = "ready" \/ call[s] \in {"running", "collecting"}) /\ ~resetSince[s]
        => \A c \in planAt[s] .. planAt[s] + PlanCells - 1 : arena[c] = PlanCell(s)

(* A whole answer, in order, for the first execution of a statement: from one  *)
(* engine, and with the chunks of a GPU answer still in the arena although     *)
(* their own query has already reset it, as long as no other statement resets  *)
(* it before or allocates in it after.                                         *)
AnswerIsWhole ==
    \A s \in Statements :
        call[s] = "drained" /\ calls[s] = 1 /\ (res[s] = "gpu" => ~resetSince[s] /\ ~allocSince[s])
        => fetched[s] = [i \in 1 .. Chunks |-> ChunkCell(s, i)]

(* A call ends in an exception only when it was bound before gpu_buffer_init   *)
(* and executed after it; everything else is answered, by DuckDB if need be.   *)
OnlyLateInitFails ==
    \A s \in Statements :
        call[s] = "failed" => initialized /\ plan[s] = "null" /\ s \notin Substrait

(* Once gpu_buffer_init has been called, the manager has the regions it asked  *)
(* for.                                                                        *)
InitSizesTheRegions == initialized => manager = "sized"

(* A call that has started is answered to the end or fails. *)
EveryCallEnds ==
    \A s \in Statements :
        call[s] \in {"running", "collecting", "collected", "answering"}
        ~> call[s] \in {"drained", "failed"}
===============================================================================
