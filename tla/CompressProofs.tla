--------------------------- MODULE CompressProofs ---------------------------
(***************************************************************************)
(* Proofs about the users of a compress context, for every width of the    *)
(* count, with or without faults: the batch loops (CompressBatch), for     *)
(* every batch size, and the one-task functions with the local             *)
(* decompressor (CompressTask), for every number of tasks.                 *)
(***************************************************************************)
EXTENDS CompressBatch, CompressTask, FiniteSetTheorems, TLAPS

(* CompressBatch: while a batch function waits its count is exact, and it  *)
(* adds up lengths only when every task of the block has had its callback. *)
(*                                                                         *)
(* CountExact is strengthened with what is in flight while the batch is    *)
(* submitted: a task the loop has passed has not had its callback, for the *)
(* loop does not poll.  So the count, set after the loop, is right however *)
(* many tasks an earlier, refused batch has left in flight: meeting one of *)
(* them is the misuse after which nothing is claimed.                      *)


InCallback == {"inflight", "ok", "failed"}   \* a busy task

Types ==
  /\ task \in [Tasks -> TaskStates]
  /\ num \in 0 .. Modulus - 1
  /\ run \in BOOLEAN
  /\ pc \in Pcs
  /\ j \in Tasks
  /\ status \in [Tasks -> Statuses]
  /\ ctx \in CtxStates
  /\ block \subseteq Tasks

Passed == pc = "submit" => /\ block = 0 .. j - 1
                           /\ \A t \in 0 .. j - 1 : task[t] \in InCallback
Whole  == pc \in {"wait", "check", "collect"} => block = Tasks
Waits  == pc = "wait" => num = Cardinality(Busy) /\ (~run => Busy = {})
Calm   == pc \in {"check", "collect"} => Busy = {}

IInv == Types /\ Passed /\ Whole /\ Waits /\ Calm

\* The count of a batch is far from the end of its type.
LEMMA SmallMod ==
  ASSUME NEW m \in Nat \ {0}, NEW n \in 0 .. m - 1 PROVE n % m = n
  OBVIOUS

LEMMA TasksFinite == IsFiniteSet(Tasks) /\ Cardinality(Tasks) = BatchSize
  BY FS_Interval, BatchAssumption DEF Tasks

\* The busy tasks are tasks of the batch, finitely many.
LEMMA BusyFinite ==
  ASSUME Types
  PROVE  /\ Busy = {t \in Tasks : task[t] \in InCallback}
         /\ IsFiniteSet(Busy)
         /\ Cardinality(Busy) \in Nat
         /\ Cardinality(Busy) = 0 <=> Busy = {}
  <1>1. Busy = {t \in Tasks : task[t] \in InCallback}
    BY DEF Types, Busy, InFlight, Finished, InCallback
  <1>2. IsFiniteSet(Busy)
    BY <1>1, TasksFinite, FS_Subset
  <1> QED
    BY <1>1, <1>2, FS_CardinalityType, FS_EmptySet

LEMMA InitIInv == Init => IInv
  <1> SUFFICES ASSUME Init PROVE IInv
    OBVIOUS
  <1>1. 0 \in 0 .. Modulus - 1 /\ 0 \in Tasks
    BY BatchAssumption, ModulusAssumption DEF Tasks
  <1>2. Types
    BY <1>1 DEF Init, Types, TaskStates, Pcs, Statuses, CtxStates
  <1> QED
    BY <1>2 DEF Init, IInv, Passed, Whole, Waits, Calm

\* The submit that ends the loop finds every task busy, and counts them all.
LEMMA SubmitStep == ASSUME IInv, SubmitTask PROVE IInv'
  <1> USE DEF IInv, Types, Tasks
  <1>1. task' = [task EXCEPT ![j] = "inflight"] /\ task' \in [Tasks -> TaskStates]
    BY DEF SubmitTask, DocaSubmit, TaskStates
  <1>2. block' = 0 .. j /\ \A t \in 0 .. j : task'[t] \in InCallback
    BY <1>1, BatchAssumption DEF SubmitTask, Passed, InCallback
  <1>3. CASE j + 1 < BatchSize
    <2>1. pc' = "submit" /\ j' = j + 1 /\ num' = num /\ run' = run /\ j' \in Tasks
      BY <1>3, BatchAssumption DEF SubmitTask, NextSubmit
    <2> QED
      BY <1>1, <1>2, <2>1 DEF SubmitTask, Pcs, Passed, Whole, Waits, Calm
  <1>4. CASE ~(j + 1 < BatchSize)
    <2>1. pc' = "wait" /\ j' = 0 /\ num' = BatchSize /\ run' = TRUE /\ block' = Tasks
      BY <1>2, <1>4, BatchAssumption DEF SubmitTask, NextSubmit
    <2>2. Types'
      BY <1>1, <2>1, BatchAssumption, ModulusAssumption DEF SubmitTask, Pcs
    <2>3. Busy' = Tasks
      BY <1>1, <1>2, <1>4, BatchAssumption DEF Busy, InFlight, Finished, InCallback
    <2>4. num' = Cardinality(Busy')
      BY <2>1, <2>3, TasksFinite
    <2> QED
      BY <2>1, <2>2, <2>4 DEF Passed, Whole, Waits, Calm
  <1> QED
    BY <1>3, <1>4

\* A callback takes one task off the count and out of the busy ones.
LEMMA CallbackStep ==
  ASSUME IInv, NEW t \in Tasks, PollCompleted(t) \/ PollFailed(t)
  PROVE  IInv'
  <1> USE DEF IInv, Types
  <1>1. /\ pc = "wait" /\ pc' = "wait" /\ block' = block /\ j' = j
        /\ task[t] \in {"ok", "failed"}
        /\ task' \in [Tasks -> TaskStates]
        /\ \A x \in Tasks : task'[x] \in InCallback <=> task[x] \in InCallback /\ x # t
        /\ num' = Decremented
    BY DEF PollCompleted, PollFailed, Polling, DeflateCompleted, Failed, TaskStates, InCallback
  <1>2. t \in Busy /\ Busy' = Busy \ {t}
    BY <1>1 DEF Busy, InFlight, Finished, InCallback
  <1>3. /\ Cardinality(Busy') = Cardinality(Busy) - 1
        /\ Cardinality(Busy) \in Nat /\ Cardinality(Busy') \in Nat
        /\ Cardinality(Busy') = 0 => Busy' = {}
    <2>1. IsFiniteSet(Busy) /\ Cardinality(Busy) \in Nat
      BY BusyFinite
    <2>2. IsFiniteSet(Busy') /\ Cardinality(Busy') = Cardinality(Busy) - 1
      BY <1>2, <2>1, FS_RemoveElement
    <2> QED
      BY <2>1, <2>2, FS_CardinalityType, FS_EmptySet
  <1>4. num' = num - 1 /\ num' \in 0 .. Modulus - 1 /\ num' = Cardinality(Busy')
    <2>1. num - 1 \in 0 .. Modulus - 1
      BY <1>1, <1>3, ModulusAssumption DEF Waits
    <2> QED
      BY <1>1, <1>3, <2>1, SmallMod, ModulusAssumption DEF Waits, Decremented
  <1>5. ~run' => num' = 0 \/ ~run
    BY DEF PollCompleted, PollFailed, Polling, DeflateCompleted, Failed
  <1>6. run' \in BOOLEAN /\ status' \in [Tasks -> Statuses] /\ ctx' \in CtxStates
    BY DEF PollCompleted, PollFailed, Polling, DeflateCompleted, Failed, DocaStop, CtxStates, Statuses
  <1>7. run
    BY DEF PollCompleted, PollFailed, Polling
  <1> QED
    BY <1>1, <1>3, <1>4, <1>5, <1>6, <1>7 DEF Passed, Whole, Waits, Calm

\* The other steps of the function: none changes a task but a refused submit,
\* after which nothing is claimed until the next block.
LEMMA OtherStep ==
  ASSUME IInv,
         OpenFile \/ ReadBlock \/ EndOfFile \/ SubmitRefused \/ Misuse \/ PollToIdle
           \/ EndWait \/ Check \/ Collect
  PROVE  IInv'
  <1> USE DEF IInv, Types, Pcs
  <1>1. CASE OpenFile \/ EndOfFile \/ Misuse
    BY <1>1 DEF OpenFile, EndOfFile, Misuse, Passed, Whole, Waits, Calm
  <1>2. CASE ReadBlock
    BY <1>2, BatchAssumption DEF ReadBlock, Passed, Whole, Waits, Calm, Tasks
  <1>3. CASE SubmitRefused
    BY <1>3 DEF SubmitRefused, TaskStates, Passed, Whole, Waits, Calm
  <1>4. CASE PollToIdle
    <2>1. Busy' = Busy /\ Busy = {}
      BY <1>4 DEF PollToIdle, Polling, ToIdle, Drained, Busy, InFlight, Finished
    <2> QED
      BY <1>4, <2>1 DEF PollToIdle, Polling, ToIdle, CtxStates, Passed, Whole, Waits, Calm
  <1>5. CASE EndWait \/ Check \/ Collect
    <2>1. Busy' = Busy
      BY <1>5 DEF EndWait, Check, Collect, Busy, InFlight, Finished
    <2> QED
      BY <1>5, <2>1 DEF EndWait, Check, Collect, Passed, Whole, Waits, Calm
  <1> QED
    BY <1>1, <1>2, <1>3, <1>4, <1>5

\* The engine moves a task among the busy ones.
LEMMA EngineStep == ASSUME IInv, NEW t \in Tasks, Engine(t) PROVE IInv'
  <1> USE DEF IInv, Types
  <1>1. /\ task' \in [Tasks -> TaskStates]
        /\ \A x \in Tasks : task'[x] \in InCallback <=> task[x] \in InCallback
    BY DEF Engine, EngineCompletes, EngineFails, TaskStates, InCallback
  <1>2. Busy' = Busy
    BY <1>1 DEF Busy, InFlight, Finished, InCallback
  <1>3. UNCHANGED <<ctx, num, run, status, pc, j, block>>
    BY DEF Engine
  <1>4. Passed'
    <2>1. pc = "submit" => \A x \in 0 .. j - 1 : x \in Tasks
      BY BatchAssumption DEF Tasks
    <2> QED
      BY <1>1, <1>3, <2>1 DEF Passed
  <1> QED
    BY <1>1, <1>2, <1>3, <1>4 DEF Whole, Waits, Calm

LEMMA NextIInv == IInv /\ [Next]_vars => IInv'
  <1> SUFFICES ASSUME IInv, [Next]_vars PROVE IInv'
    OBVIOUS
  <1>1. CASE UNCHANGED vars
    BY <1>1 DEF vars, IInv, Types, Passed, Whole, Waits, Calm, Busy, InFlight, Finished
  <1>2. CASE Next
    BY <1>1, <1>2, SubmitStep, CallbackStep, OtherStep, EngineStep DEF Next, Batch
  <1> QED
    BY <1>1, <1>2

\* While a batch function waits, its count is the tasks whose callback is to
\* come; when it adds up the lengths, every task of the block has had its own.
THEOREM CountIsExact == Spec => []CountExact
  <1>1. IInv => CountExact
    BY DEF IInv, Whole, Waits, Calm, CountExact
  <1> QED
    BY <1>1, InitIInv, NextIInv, PTL DEF Spec

\* Type correctness, of the count in particular: it never wraps.
THEOREM TypeCorrect == Spec => []TypeOK
  <1>1. IInv => TypeOK
    BY DEF IInv, Types, TypeOK, CallbackTypeOK
  <1> QED
    BY <1>1, InitIInv, NextIInv, PTL DEF Spec

-----------------------------------------------------------------------------
(* CompressTask: success is real, and what the last free finds.             *)
(*                                                                         *)
(* Whatever the count has come to, the engine never holds a task but that  *)
(* of the current call: a call ends with the flag cleared, by the callback *)
(* of a task, which can only be its own, or by the context's transition to *)
(* idle, which no busy task outlives.  (A count that leaks or wraps keeps  *)
(* a call from returning; it never makes one return early.)                *)

\* The task of the current call is with the engine, or its callback has run.
OneAtATime ==
  /\ pc # "wait" => Busy = {}
  /\ pc = "wait" => /\ Busy \subseteq {cur}
                    /\ cur \in Busy \/ status[cur] # "unset"
                    /\ ~run => Busy = {}
  /\ pc = "check" => status[cur] # "unset"

\* An outcome is that of the last call, whose status is still there.
Outcomes ==
  /\ pc \in {"submit", "wait", "check"} => outcome = "none"
  /\ outcome = "success" => status[cur] = "success"

\* The decompressor's one task, before a frame and after it.
FrameTask ==
  Frame => /\ pc \in {"idle", "submit"} => task[cur] # "freed"
           /\ pc \in {"wait", "check", "destroy"} /\ task[cur] = "freed" => status[cur] = "error"

DestroysFrames == pc = "destroy" => Frame

CallInv == CallTypeOK /\ OneAtATime /\ Outcomes /\ FrameTask /\ DestroysFrames

LEMMA CallInitInv == CallInit => CallInv
  <1> SUFFICES ASSUME CallInit PROVE CallInv
    OBVIOUS
  <1>1. 0 \in Slots /\ 0 \in 0 .. Modulus - 1
    BY TasksAssumption, ModulusAssumption DEF Slots
  <1>2. CallTypeOK
    BY <1>1 DEF CallInit, CallTypeOK, CallbackTypeOK, CtxStates, TaskStates, Statuses, CallPcs
  <1>3. Busy = {} /\ task[cur] = IF Frame THEN "ready" ELSE "freed"
    BY <1>1 DEF CallInit, Busy, InFlight, Finished
  <1> QED
    BY <1>2, <1>3 DEF CallInit, CallInv, OneAtATime, Outcomes, FrameTask, DestroysFrames

\* A call is begun: nothing of an earlier one is with the engine.
LEMMA BeginStep ==
  ASSUME CallInv, (\E t \in Slots : Allocate(t)) \/ AllocateFails \/ BeginFrame \/ EndOfObjects
  PROVE  CallInv'
  <1> USE DEF CallInv, CallTypeOK, CallbackTypeOK, CallPcs
  <1>1. ASSUME NEW t \in Slots, Allocate(t) PROVE CallInv'
    <2>1. task' = [task EXCEPT ![t] = "ready"] /\ status' = [status EXCEPT ![t] = "unset"]
      BY <1>1 DEF Allocate
    <2>2. task' \in [Slots -> TaskStates] /\ status' \in [Slots -> Statuses]
      BY <2>1 DEF TaskStates, Statuses
    <2>3. Busy' = {}
      BY <1>1, <2>1 DEF Allocate, OneAtATime, Busy, InFlight, Finished
    <2> QED
      BY <1>1, <2>2, <2>3
      DEF Allocate, OneAtATime, Outcomes, FrameTask, DestroysFrames, Frame
  <1>2. CASE AllocateFails \/ EndOfObjects
    <2>1. Busy' = Busy
      BY <1>2 DEF AllocateFails, EndOfObjects, Busy, InFlight, Finished
    <2> QED
      BY <1>2, <2>1 DEF AllocateFails, EndOfObjects, OneAtATime, Outcomes, FrameTask,
         DestroysFrames, Frame
  <1>3. CASE BeginFrame
    <2>1. Busy' = Busy
      BY <1>3 DEF BeginFrame, Busy, InFlight, Finished
    <2>2. status' \in [Slots -> Statuses]
      BY <1>3 DEF BeginFrame, Statuses
    <2> QED
      BY <1>3, <2>1, <2>2 DEF BeginFrame, OneAtATime, Outcomes, FrameTask, DestroysFrames, Frame
  <1> QED
    BY <1>1, <1>2, <1>3

\* The submit hands the call's task, and no other, to the engine.
LEMMA SubmitCallStep ==
  ASSUME CallInv, SubmitOne \/ OneRefused \/ SubmitFrame \/ FrameRefused
  PROVE  CallInv'
  <1> USE DEF CallInv, CallTypeOK, CallbackTypeOK, CallPcs
  <1>a. (num + 1) % Modulus \in 0 .. Modulus - 1 /\ 1 \in 0 .. Modulus - 1
    BY ModulusAssumption, TasksAssumption
  <1>1. CASE SubmitOne \/ SubmitFrame
    <2>1. task' = [task EXCEPT ![cur] = "inflight"] /\ task' \in [Slots -> TaskStates]
      BY <1>1 DEF SubmitOne, SubmitFrame, DocaSubmit, TaskStates
    <2>2. Busy' = {cur}
      BY <1>1, <2>1 DEF SubmitOne, SubmitFrame, OneAtATime, Busy, InFlight, Finished
    <2>3. task'[cur] = "inflight" /\ cur' = cur
      BY <1>1, <2>1 DEF SubmitOne, SubmitFrame
    <2> QED
      BY <1>a, <1>1, <2>1, <2>2, <2>3
      DEF SubmitOne, SubmitFrame, OneAtATime, Outcomes, FrameTask, DestroysFrames, Frame
  <1>2. CASE OneRefused
    <2>1. task' = [task EXCEPT ![cur] = "freed"] /\ task' \in [Slots -> TaskStates]
      BY <1>2 DEF OneRefused, TaskStates
    <2>2. Busy' = {}
      BY <1>2, <2>1 DEF OneRefused, OneAtATime, Busy, InFlight, Finished
    <2>3. num' \in 0 .. Modulus - 1
      BY <1>2, ModulusAssumption DEF OneRefused
    <2> QED
      BY <1>2, <2>1, <2>2, <2>3
      DEF OneRefused, OneAtATime, Outcomes, FrameTask, DestroysFrames, Frame
  <1>3. CASE FrameRefused
    <2>1. Busy' = Busy
      BY <1>3 DEF FrameRefused, Busy, InFlight, Finished
    <2> QED
      BY <1>a, <1>3, <2>1
      DEF FrameRefused, OneAtATime, Outcomes, FrameTask, DestroysFrames, Frame
  <1> QED
    BY <1>1, <1>2, <1>3

\* The only callback a call can run for a task is its own.
LEMMA CallPollStep == ASSUME CallInv, CallPolls PROVE CallInv'
  <1> USE DEF CallInv, CallTypeOK, CallbackTypeOK, CallPcs
  <1>1. ASSUME NEW t \in Slots, CallCompleted(t) \/ CallFailed(t) PROVE CallInv'
    <2>1. /\ pc = "wait" /\ task[t] \in {"ok", "failed"}
          /\ UNCHANGED <<kind, pc, cur, outcome>>
      BY <1>1 DEF CallCompleted, CallFailed, Polling, Lz4Completed, DeflateCompleted, Failed
    <2>2. t = cur
      BY <2>1 DEF OneAtATime, Busy, Finished
    <2>3. /\ task' \in [Slots -> TaskStates] /\ status' \in [Slots -> Statuses]
          /\ \A x \in Slots : x # t => task'[x] = task[x]
          /\ task'[t] \in {"reaped", "freed"} /\ status'[t] # "unset"
          /\ Frame /\ task'[t] = "freed" => status'[t] = "error"
      BY <1>1 DEF CallCompleted, CallFailed, Lz4Completed, DeflateCompleted, Failed,
         TaskStates, Statuses, Frame
    <2>4. Busy' = {}
      BY <2>1, <2>2, <2>3 DEF OneAtATime, Busy, InFlight, Finished
    <2>5. ctx' \in CtxStates /\ run' \in BOOLEAN /\ num' = Decremented
      BY <1>1 DEF CallCompleted, CallFailed, Lz4Completed, DeflateCompleted, Failed, DocaStop,
         CtxStates
    <2>6. num' \in 0 .. Modulus - 1
      BY <2>5, ModulusAssumption DEF Decremented
    <2> QED
      BY <2>1, <2>2, <2>3, <2>4, <2>5, <2>6
      DEF OneAtATime, Outcomes, FrameTask, DestroysFrames, Frame
  <1>2. CASE CallToIdle
    <2>1. Busy' = {} /\ Busy = {}
      BY <1>2 DEF CallToIdle, ToIdle, Drained, Busy, InFlight, Finished
    <2> QED
      BY <1>2, <2>1 DEF CallToIdle, ToIdle, Polling, CtxStates, OneAtATime, Outcomes, FrameTask,
         DestroysFrames, Frame
  <1> QED
    BY <1>1, <1>2 DEF CallPolls

LEMMA ReturnStep ==
  ASSUME CallInv, EndCall \/ Return \/ FrameReturns \/ Destroy
  PROVE  CallInv'
  <1> USE DEF CallInv, CallTypeOK, CallbackTypeOK, CallPcs
  <1>1. CASE EndCall \/ Return \/ FrameReturns
    <2>1. Busy' = Busy
      BY <1>1 DEF EndCall, Return, FrameReturns, Busy, InFlight, Finished
    <2>2. pc = "check" => status[cur] \in {"success", "error"}
      BY DEF OneAtATime, Statuses
    <2> QED
      BY <1>1, <2>1, <2>2 DEF EndCall, Return, FrameReturns, OneAtATime, Outcomes, FrameTask,
         DestroysFrames, Frame
  <1>2. CASE Destroy
    <2>1. task' = [task EXCEPT ![cur] = "freed"] /\ task' \in [Slots -> TaskStates]
      BY <1>2 DEF Destroy, TaskStates
    <2>2. Busy' = {}
      BY <1>2, <2>1 DEF Destroy, OneAtATime, Busy, InFlight, Finished
    <2> QED
      BY <1>2, <2>1, <2>2 DEF Destroy, CtxStates, OneAtATime, Outcomes, FrameTask,
         DestroysFrames, Frame
  <1> QED
    BY <1>1, <1>2

LEMMA SlotEngineStep == ASSUME CallInv, NEW t \in Slots, SlotEngine(t) PROVE CallInv'
  <1> USE DEF CallInv, CallTypeOK, CallbackTypeOK, CallPcs
  <1>1. /\ task[t] = "inflight" /\ task'[t] \in {"ok", "failed"}
        /\ \A x \in Slots : x # t => task'[x] = task[x]
        /\ task' \in [Slots -> TaskStates]
        /\ UNCHANGED <<ctx, num, run, status, kind, pc, cur, outcome>>
    BY DEF SlotEngine, EngineCompletes, EngineFails, TaskStates
  <1>2. Busy' = Busy
    BY <1>1 DEF Busy, InFlight, Finished
  <1>3. t = cur
    BY <1>1 DEF OneAtATime, Busy, InFlight
  <1> QED
    BY <1>1, <1>2, <1>3 DEF OneAtATime, Outcomes, FrameTask, DestroysFrames, Frame

LEMMA CallNextInv == CallInv /\ [CallNext]_callVars => CallInv'
  <1> SUFFICES ASSUME CallInv, [CallNext]_callVars PROVE CallInv'
    OBVIOUS
  <1>1. CASE UNCHANGED callVars \/ CallEnded
    BY <1>1 DEF callVars, CallEnded, CallInv, CallTypeOK, CallbackTypeOK, OneAtATime, Outcomes,
       FrameTask, DestroysFrames, Frame, Busy, InFlight, Finished
  <1>2. CASE CallNext
    BY <1>1, <1>2, BeginStep, SubmitCallStep, CallPollStep, ReturnStep, SlotEngineStep
    DEF CallNext, Call
  <1> QED
    BY <1>1, <1>2

LEMMA CallsKeepInv == CallSpec => []CallInv
  BY CallInitInv, CallNextInv, PTL DEF CallSpec

\* A function returns DOCA_SUCCESS only for a task whose callback has run and
\* reported success, however many calls have failed or been refused before it.
THEOREM SuccessesAreReal == CallSpec => []SuccessIsReal
  <1>1. CallInv => SuccessIsReal
    BY DEF CallInv, Outcomes, SuccessIsReal
  <1> QED
    BY <1>1, CallsKeepInv, PTL

\* When the local decompressor frees its task at the end, the engine holds no
\* task, and the task has been freed before only if the last frame has failed.
THEOREM DestroyIsSafe == CallSpec => []DestroyFreesOnce
  <1>1. CallInv => DestroyFreesOnce
    BY DEF CallInv, OneAtATime, FrameTask, DestroysFrames, DestroyFreesOnce
  <1> QED
    BY <1>1, CallsKeepInv, PTL

\* Between two calls the engine holds no task of this program, even after a
\* refused submit has left the count one too high.
THEOREM NothingLeftBehind == CallSpec => [](pc # "wait" => Busy = {})
  <1>1. CallInv => (pc # "wait" => Busy = {})
    BY DEF CallInv, OneAtATime
  <1> QED
    BY <1>1, CallsKeepInv, PTL
=============================================================================
