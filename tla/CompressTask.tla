---------------------------- MODULE CompressTask ----------------------------
(***************************************************************************)
(* The one-task functions of compress/compress_common.c, called any number *)
(* of times on one context by a caller that goes on after an error:        *)
(*                                                                         *)
(*   deflate   submit_compress_deflate_task,                               *)
(*             submit_decompress_deflate_task                              *)
(*   lz4       submit_decompress_lz4_stream_task                           *)
(*                                                                         *)
(* Each call allocates a task of its own, counts it, submits it, and polls *)
(* until the flag is cleared.  The context was configured for NumTasks     *)
(* tasks; a "freed" entry of task is a slot an allocation may take.        *)
(*                                                                         *)
(*   frame     decompress_frame of attach/test/doca_local_decompress.c     *)
(*                                                                         *)
(* uses the deflate callbacks with a single task, allocated beforehand and *)
(* submitted for every frame; the first frame that fails ends the program, *)
(* which frees the task once more.                                         *)
(***************************************************************************)
EXTENDS CompressCallbacks

CONSTANTS
  Kinds,      \* the functions the caller may use
  NumTasks    \* tasks the context is configured for (max_bufs / 2)

ASSUME KindsAssumption == Kinds \subseteq {"deflate", "lz4", "frame"}
ASSUME TasksAssumption == NumTasks \in Nat \ {0} /\ NumTasks < Modulus

VARIABLES
  kind,     \* which function the caller uses
  cur,      \* the task of the current call
  outcome   \* what the last call has returned

callVars == <<ctx, task, num, run, status, kind, pc, cur, outcome>>

Slots == 0 .. NumTasks - 1
CallPcs == {"idle", "submit", "wait", "check", "destroy", "done"}
Frame == kind = "frame"

CallInit ==
  /\ ctx = "RUNNING"
  /\ kind \in Kinds
  /\ task = [t \in Slots |-> IF Frame /\ t = 0 THEN "ready" ELSE "freed"]
  /\ num = 0
  /\ run = FALSE
  /\ status = [t \in Slots |-> "unset"]
  /\ pc = "idle"
  /\ cur = 0
  /\ outcome = "none"

-----------------------------------------------------------------------------

\* task_result = {0}, then ..._alloc_init(): DOCA_SUCCESS is 0, so the status
\* of a task whose callback has not run reads as success.
Allocate(t) ==
  /\ pc = "idle" /\ ~Frame
  /\ task[t] = "freed"
  /\ task' = [task EXCEPT ![t] = "ready"]
  /\ status' = [status EXCEPT ![t] = "unset"]
  /\ cur' = t
  /\ pc' = "submit"
  /\ outcome' = "none"
  /\ UNCHANGED <<ctx, num, run, kind>>

AllocateFails ==
  /\ pc = "idle" /\ ~Frame
  /\ \A t \in Slots : task[t] # "freed"
  /\ outcome' = "no_memory"
  /\ UNCHANGED <<ctx, task, num, run, status, kind, pc, cur>>

\* num_remaining_tasks++; doca_task_submit(task); run_pe_progress = true
SubmitOne ==
  /\ pc = "submit" /\ ~Frame
  /\ DocaSubmit(cur)
  /\ num' = (num + 1) % Modulus
  /\ run' = TRUE
  /\ pc' = "wait"
  /\ UNCHANGED <<ctx, status, kind, cur, outcome>>

\* The task is freed and the error returned; the count stays incremented.
\* Once all counts are used up the caller gives up (a bound of the model).
OneRefused ==
  /\ pc = "submit" /\ ~Frame
  /\ Faults \/ ctx # "RUNNING"
  /\ num + 1 < Modulus
  /\ num' = num + 1
  /\ task' = [task EXCEPT ![cur] = "freed"]
  /\ pc' = "idle"
  /\ outcome' = "error"
  /\ UNCHANGED <<ctx, run, status, kind, cur>>

\* doca_pe_progress() runs the callback of a task, or of the context.
CallCompleted(t) ==
  /\ Polling
  /\ IF kind = "lz4" THEN Lz4Completed(t) ELSE DeflateCompleted(t)
  /\ UNCHANGED <<kind, pc, cur, outcome>>

CallFailed(t) ==
  /\ Polling
  /\ Failed(t)
  /\ UNCHANGED <<kind, pc, cur, outcome>>

CallToIdle ==
  /\ Polling
  /\ ToIdle
  /\ UNCHANGED <<kind, pc, cur, outcome>>

EndCall ==
  /\ pc = "wait" /\ ~run
  /\ pc' = "check"
  /\ UNCHANGED <<ctx, task, num, run, status, kind, cur, outcome>>

\* if (task_result.status != DOCA_SUCCESS) return it
Return ==
  /\ pc = "check" /\ ~Frame
  /\ outcome' = IF status[cur] = "error" THEN "error" ELSE "success"
  /\ pc' = "idle"
  /\ UNCHANGED <<ctx, task, num, run, status, kind, cur>>

-----------------------------------------------------------------------------
(* doca_local_decompress.c: decompress_frame, main, decompressor_destroy.   *)

\* memset(&task_result, 0, ...)
BeginFrame ==
  /\ pc = "idle" /\ Frame
  /\ status' = [status EXCEPT ![cur] = "unset"]
  /\ pc' = "submit"
  /\ outcome' = "none"
  /\ UNCHANGED <<ctx, task, num, run, kind, cur>>

SubmitFrame ==
  /\ pc = "submit" /\ Frame
  /\ DocaSubmit(cur)
  /\ num' = 1
  /\ run' = TRUE
  /\ pc' = "wait"
  /\ UNCHANGED <<ctx, status, kind, cur, outcome>>

\* mutant: the refused task is freed, as in the one-task functions
FrameRefused_Frees ==
  /\ pc = "submit" /\ Frame
  /\ Faults \/ ctx # "RUNNING"
  /\ num' = 1
  /\ run' = TRUE
  /\ task' = [task EXCEPT ![cur] = "freed"]
  /\ pc' = "destroy"
  /\ outcome' = "error"
  /\ UNCHANGED <<ctx, status, kind, cur>>

FrameRefused ==
  /\ pc = "submit" /\ Frame
  /\ Faults \/ ctx # "RUNNING"
  /\ num' = 1
  /\ run' = TRUE
  /\ pc' = "destroy"
  /\ outcome' = "error"
  /\ UNCHANGED <<ctx, task, status, kind, cur>>

\* The next frame, of this object or another, or the end.
FrameReturns ==
  /\ pc = "check" /\ Frame
  /\ outcome' = IF status[cur] = "error" THEN "error" ELSE "success"
  /\ pc' = IF outcome' = "error" THEN "destroy" ELSE "idle"
  /\ UNCHANGED <<ctx, task, num, run, status, kind, cur>>

\* No object is left, or one is not well formed or not verified.
EndOfObjects ==
  /\ pc = "idle" /\ Frame
  /\ pc' = "destroy"
  /\ UNCHANGED <<ctx, task, num, run, status, kind, cur, outcome>>

\* doca_task_free(task), whatever the callbacks did to it; then
\* destroy_compress_resources stops the context.
Destroy ==
  /\ pc = "destroy"
  /\ task' = [task EXCEPT ![cur] = "freed"]
  /\ ctx' = "IDLE"
  /\ pc' = "done"
  /\ UNCHANGED <<num, run, status, kind, cur, outcome>>

-----------------------------------------------------------------------------

SlotEngine(t) ==
  /\ EngineCompletes(t) \/ (Faults /\ EngineFails(t))
  /\ UNCHANGED <<ctx, num, run, status, kind, pc, cur, outcome>>

CallPolls ==
  \/ \E t \in Slots : CallCompleted(t)
  \/ \E t \in Slots : CallFailed(t)
  \/ CallToIdle

Call ==
  \/ SubmitOne
  \/ OneRefused
  \/ SubmitFrame
  \/ FrameRefused
  \/ CallPolls
  \/ EndCall
  \/ Return
  \/ FrameReturns
  \/ Destroy

\* Polling a context that will never report anything again, or the bound on
\* the count.
WaitsForNothing == Polling /\ Busy = {} /\ ~Drained
CallEnded ==
  /\ \/ WaitsForNothing
     \/ pc = "submit" /\ ctx # "RUNNING" /\ num + 1 >= Modulus
     \/ pc = "done"
  /\ UNCHANGED callVars

CallNext ==
  \/ \E t \in Slots : Allocate(t)
  \/ AllocateFails
  \/ BeginFrame
  \/ EndOfObjects
  \/ Call
  \/ \E t \in Slots : SlotEngine(t)
  \/ CallEnded

CallFairness == WF_callVars(Call) /\ \A t \in Slots : WF_callVars(SlotEngine(t))
CallSpec     == CallInit /\ [][CallNext]_callVars
FairCallSpec == CallSpec /\ CallFairness

-----------------------------------------------------------------------------
(* Properties.                                                              *)

CallTypeOK ==
  /\ CallbackTypeOK
  /\ task \in [Slots -> TaskStates]
  /\ status \in [Slots -> Statuses]
  /\ kind \in Kinds
  /\ pc \in CallPcs
  /\ cur \in Slots
  /\ outcome \in {"none", "success", "error", "no_memory"}

\* The functions return DOCA_SUCCESS only for a task the engine has really
\* completed: the zero-initialised status, which reads as success, is never
\* looked at before the callback of this call's task has run.
SuccessIsReal == outcome = "success" => status[cur] = "success"

\* The local decompressor frees its task at the end whatever has become of
\* it.  The engine never holds it then, and it has been freed before only
\* where the engine has failed the last frame: neither a refused submit nor an
\* object that is not verified leads to a second free.
DestroyFreesOnce ==
  pc = "destroy" => Busy = {} /\ (task[cur] = "freed" => status[cur] = "error")

\* "Submit ... task and wait for completion" (compress_common.h): whatever
\* happened to the calls before it, a call that waits for no more callbacks
\* than there are tasks in flight returns, its task completed or failed.  (A
\* call after a refused submit waits for one more and does not return.)
CallReturns == (pc = "wait" /\ num = Cardinality(Busy)) ~> (pc \in {"idle", "destroy"})
=============================================================================
