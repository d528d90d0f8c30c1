----------------------------- MODULE DecodeBatch -----------------------------
(***************************************************************************)
(* The single-threaded modes of decode_Bench(), ec_decode/doca_ec.c:       *)
(*                                                                         *)
(*   Naive         copy one source segment, submit its task, poll until it *)
(*                 is done, copy one result;                               *)
(*   Batch_Copy,   copy all the sources, submit all the tasks, poll until  *)
(*   Batch_NoCopy  all are done, copy all the results.                     *)
(*                                                                         *)
(* One thread submits and polls, so num_remaining_tasks and                *)
(* run_pe_progress are only touched between two steps of the engine: a     *)
(* submit with the two assignments that follow it is one step, and so is a *)
(* call of doca_pe_progress() with the callback it runs.                   *)
(***************************************************************************)
EXTENDS DocaContext

CONSTANTS
  BatchSize,   \* tasks of the batch
  Faults       \* TRUE: a task may fail, and doca_task_submit may refuse one

ASSUME BatchSizeAssumption == BatchSize \in Nat \ {0}
ASSUME FaultsAssumption    == Faults \in BOOLEAN

VARIABLES
  mode,       \* the enum offload_type argument
  pc,         \* where decode_Bench is
  j,          \* its loop variable
  num,        \* state->num_remaining_tasks
  run,        \* state->run_pe_progress
  appDst,     \* tasks whose segment has been copied to dst_segs
  lost        \* tasks refused and tasks failed so far        (history)

vars == <<ctx, task, mode, pc, j, num, run, appDst, lost>>

Tasks == 0 .. BatchSize - 1
Modes == {"Naive", "Batch_Copy", "Batch_NoCopy"}
Naive == mode = "Naive"
Pcs   == {"submit", "poll", "copyDst", "reset", "done", "crashed"}

Init ==
  /\ ctx = "RUNNING"
  /\ task = [t \in Tasks |-> "ready"]
  /\ mode \in Modes
  /\ pc = "submit"
  /\ j = 0
  /\ num = 0
  /\ run = FALSE
  /\ appDst = {}
  /\ lost = 0

-----------------------------------------------------------------------------
(* Submitting.  A refused task is only reported: the count and the flag are *)
(* set all the same.                                                        *)

\* mutant: the loop runs to j <= batch_size
CountSubmit_OneMore ==
  /\ run' = TRUE
  /\ num' = num + 1
  /\ IF Naive
     THEN pc' = "poll" /\ j' = j
     ELSE /\ pc' = IF j < BatchSize THEN "submit" ELSE "poll"
          /\ j' = IF j < BatchSize THEN j + 1 ELSE 0

\* What follows doca_task_submit() in the three modes.
CountSubmit ==
  /\ run' = TRUE
  /\ num' = num + 1
  /\ IF Naive
     THEN pc' = "poll" /\ j' = j
     ELSE /\ pc' = IF j + 1 < BatchSize THEN "submit" ELSE "poll"
          /\ j' = IF j + 1 < BatchSize THEN j + 1 ELSE 0

SubmitTask ==
  /\ pc = "submit"
  /\ DocaSubmit(j)
  /\ CountSubmit
  /\ UNCHANGED <<mode, ctx, appDst, lost>>

SubmitRefused ==
  /\ pc = "submit"
  /\ Faults \/ ctx # "RUNNING"
  /\ CountSubmit
  /\ lost' = lost + 1
  /\ UNCHANGED <<mode, ctx, task, appDst>>

-----------------------------------------------------------------------------
(* while (run_pe_progress) doca_pe_progress()                               *)

\* mutant: the flag is cleared by every completion
PollCompleted_ClearsAlways(t) ==
  /\ pc = "poll" /\ run
  /\ task[t] = "ok"
  /\ task' = [task EXCEPT ![t] = "reaped"]
  /\ num' = num - 1
  /\ run' = FALSE
  /\ UNCHANGED <<mode, ctx, pc, j, appDst, lost>>

\* mutant: the count is compared before it is decremented
PollCompleted_TestsFirst(t) ==
  /\ pc = "poll" /\ run
  /\ task[t] = "ok"
  /\ task' = [task EXCEPT ![t] = "reaped"]
  /\ num' = num - 1
  /\ run' = IF num = 0 THEN FALSE ELSE run
  /\ UNCHANGED <<mode, ctx, pc, j, appDst, lost>>

\* ec_recover_completed_callback
PollCompleted(t) ==
  /\ pc = "poll" /\ run
  /\ task[t] = "ok"
  /\ task' = [task EXCEPT ![t] = "reaped"]
  /\ num' = num - 1
  /\ run' = IF num - 1 = 0 THEN FALSE ELSE run
  /\ UNCHANGED <<mode, ctx, pc, j, appDst, lost>>

\* ec_recover_error_callback: see DecodePipeline!ProgressFailed.
PollFailed(t) ==
  /\ pc = "poll" /\ run
  /\ task[t] = "failed"
  /\ task' = [task EXCEPT ![t] = "freed"]
  /\ \/ pc' = "crashed" /\ UNCHANGED ctx
     \/ pc' = pc /\ (DocaStop \/ UNCHANGED ctx)
  /\ UNCHANGED <<mode, j, num, run, appDst, lost>>

\* ec_state_changed_callback
PollToIdle ==
  /\ pc = "poll" /\ run
  /\ Drained
  /\ ctx' = "IDLE"
  /\ run' = FALSE
  /\ UNCHANGED <<mode, task, pc, j, num, appDst, lost>>

EndPoll ==
  /\ pc = "poll" /\ ~run
  /\ pc' = "copyDst"
  /\ UNCHANGED <<mode, ctx, task, j, num, run, appDst, lost>>

-----------------------------------------------------------------------------
(* Copying the results.                                                     *)

CopyOneDst ==
  /\ pc = "copyDst" /\ Naive
  /\ appDst' = appDst \union {j}
  /\ pc' = IF j + 1 < BatchSize THEN "submit" ELSE "reset"
  /\ j' = IF j + 1 < BatchSize THEN j + 1 ELSE 0
  /\ UNCHANGED <<mode, ctx, task, num, run, lost>>

CopyAllDst ==
  /\ pc = "copyDst" /\ ~Naive
  /\ appDst' = Tasks
  /\ pc' = "reset"
  /\ UNCHANGED <<mode, ctx, task, j, num, run, lost>>

\* doca_buf_reset_data_len() on every destination, return DOCA_SUCCESS
Reset ==
  /\ pc = "reset"
  /\ pc' = "done"
  /\ UNCHANGED <<mode, ctx, task, j, num, run, appDst, lost>>

-----------------------------------------------------------------------------

Complete(t) ==
  /\ EngineCompletes(t)
  /\ UNCHANGED <<mode, ctx, pc, j, num, run, appDst, lost>>

Fail(t) ==
  /\ Faults
  /\ EngineFails(t)
  /\ lost' = lost + 1
  /\ UNCHANGED <<mode, ctx, pc, j, num, run, appDst>>

Bench ==
  \/ SubmitTask
  \/ SubmitRefused
  \/ \E t \in Tasks : PollCompleted(t)
  \/ \E t \in Tasks : PollFailed(t)
  \/ PollToIdle
  \/ EndPoll
  \/ CopyOneDst
  \/ CopyAllDst
  \/ Reset

\* decode_Bench has returned or died, or polls a context that will never
\* report anything again.
PollsForNothing == pc = "poll" /\ run /\ NothingToReport /\ InFlight = {}
Ended == (pc \in {"done", "crashed"} \/ PollsForNothing) /\ UNCHANGED vars

Next ==
  \/ Bench
  \/ \E t \in Tasks : Complete(t) \/ Fail(t)
  \/ Ended

Fairness == WF_vars(Bench) /\ \A t \in Tasks : WF_vars(Complete(t) \/ Fail(t))
Spec     == Init /\ [][Next]_vars
FairSpec == Spec /\ Fairness

-----------------------------------------------------------------------------
(* Properties.                                                              *)

TypeOK ==
  /\ ctx \in CtxStates
  /\ task \in [Tasks -> TaskStates]
  /\ mode \in Modes
  /\ pc \in Pcs
  /\ j \in Tasks
  /\ num \in 0 .. BatchSize
  /\ lost \in 0 .. BatchSize
  /\ run \in BOOLEAN
  /\ appDst \subseteq Tasks

\* The ledger: num_remaining_tasks is the number of tasks whose completion is
\* still to come, and of those that were refused or have failed, which nobody
\* takes off the count.  So the poller never leaves its loop while a callback
\* is still to come, and without a failure it leaves the loop with the last.
Healthy == {t \in Tasks : task[t] \in {"inflight", "ok"}}
LedgerExact ==
  /\ num = Cardinality(Healthy) + lost
  /\ pc = "poll" => (run => num > 0) /\ (~run => Busy = {})
  /\ pc \in {"copyDst", "reset", "done"} => Busy = {}

\* decode_Bench does what the caller of a batch is promised.
computed == {t \in Tasks : task[t] \in {"ok", "reaped"}}
Offload  == INSTANCE BatchOffload WITH
              Slots <- Tasks, batch <- Tasks, called <- (pc # "done"),
              delivered <- appDst, broken <- (lost > 0)
ImplementsOffload == Offload!Spec
=============================================================================
