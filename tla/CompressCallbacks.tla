-------------------------- MODULE CompressCallbacks --------------------------
(***************************************************************************)
(* The callbacks of compress/compress_common.c, through which every user   *)
(* of a compress context learns what became of its tasks:                  *)
(* num_remaining_tasks and run_pe_progress of struct compress_resources,   *)
(* and the status each task's callback leaves in its result.               *)
(*                                                                         *)
(* The deflate callbacks keep a completed task and clear the flag with the *)
(* last one; the LZ4 callback frees a completed task and stops the context *)
(* with the last one; every error callback frees the failed task and stops *)
(* the context if it is the last one.                                      *)
(***************************************************************************)
EXTENDS DocaContext

CONSTANTS
  Modulus,   \* number of values of the size_t num_remaining_tasks
  Faults     \* TRUE: a task may fail, and doca_task_submit may refuse one

ASSUME ModulusAssumption == Modulus \in Nat \ {0}
ASSUME FaultsAssumption  == Faults \in BOOLEAN

VARIABLES
  num,      \* resources->num_remaining_tasks
  run,      \* resources->run_pe_progress
  status,   \* task id -> the status in its result structure
  pc        \* where the function that uses the context is

Statuses == {"unset", "success", "error"}

\* while (resources->run_pe_progress) doca_pe_progress()
Polling == pc = "wait" /\ run

Decremented == (num - 1) % Modulus

\* mutant: the line that replaced doca_ctx_stop() is lost with it
DeflateCompleted_NoClear(t) ==
  /\ task[t] = "ok"
  /\ task' = [task EXCEPT ![t] = "reaped"]
  /\ status' = [status EXCEPT ![t] = "success"]
  /\ num' = Decremented
  /\ UNCHANGED <<ctx, run>>

\* compress_completed_callback, decompress_deflate_completed_callback
DeflateCompleted(t) ==
  /\ task[t] = "ok"
  /\ task' = [task EXCEPT ![t] = "reaped"]
  /\ status' = [status EXCEPT ![t] = "success"]
  /\ num' = Decremented
  /\ run' = IF num' = 0 THEN FALSE ELSE run
  /\ UNCHANGED ctx

\* decompress_lz4_stream_completed_callback
Lz4Completed(t) ==
  /\ task[t] = "ok"
  /\ task' = [task EXCEPT ![t] = "freed"]
  /\ status' = [status EXCEPT ![t] = "success"]
  /\ num' = Decremented
  /\ IF num' = 0 THEN DocaStop ELSE UNCHANGED ctx
  /\ UNCHANGED run

\* mutant: the error callback forgets to stop the context
Failed_NoStop(t) ==
  /\ task[t] = "failed"
  /\ task' = [task EXCEPT ![t] = "freed"]
  /\ status' = [status EXCEPT ![t] = "error"]
  /\ num' = Decremented
  /\ UNCHANGED <<ctx, run>>

\* mutant: the failed task keeps its old status
Failed_NoStatus(t) ==
  /\ task[t] = "failed"
  /\ task' = [task EXCEPT ![t] = "freed"]
  /\ num' = Decremented
  /\ IF num' = 0 THEN DocaStop ELSE UNCHANGED ctx
  /\ UNCHANGED <<run, status>>

\* compress_error_callback, decompress_deflate_error_callback,
\* decompress_lz4_stream_error_callback
Failed(t) ==
  /\ task[t] = "failed"
  /\ task' = [task EXCEPT ![t] = "freed"]
  /\ status' = [status EXCEPT ![t] = "error"]
  /\ num' = Decremented
  /\ IF num' = 0 THEN DocaStop ELSE UNCHANGED ctx
  /\ UNCHANGED run

\* compress_state_changed_callback
ToIdle ==
  /\ Drained
  /\ ctx' = "IDLE"
  /\ run' = FALSE
  /\ UNCHANGED <<task, num, status>>

CallbackTypeOK ==
  /\ ctx \in CtxStates
  /\ num \in 0 .. Modulus - 1
  /\ run \in BOOLEAN
=============================================================================
