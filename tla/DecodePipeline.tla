--------------------------- MODULE DecodePipeline ---------------------------
(***************************************************************************)
(* The Batch_Copy_Pipeline mode of decode_Bench(), ec_decode/doca_ec.c.    *)
(*                                                                         *)
(* Two submit threads (ec_decode_submit_thread) copy the sources of their  *)
(* half of the batch, submit the recover tasks and, after each submit,     *)
(* increment num_remaining_tasks atomically and set run_pe_progress.  The  *)
(* main thread polls doca_pe_progress() in a loop that ends when it reads  *)
(* run_pe_progress = false and then num_remaining_tasks <= 0.  The         *)
(* completion callback runs inside that call: it copies the result to the  *)
(* application buffer, decrements num_remaining_tasks with a plain "--"    *)
(* and clears run_pe_progress when it finds 0.                             *)
(*                                                                         *)
(* Neither field is an atomic and there is no lock, so every load and      *)
(* every store of them is a step of its own.                               *)
(***************************************************************************)
EXTENDS DocaContext

CONSTANTS
  BatchSize,   \* tasks of a batch
  Faults       \* TRUE: a task may fail, and doca_task_submit may refuse one

ASSUME BatchSizeAssumption == BatchSize \in Nat \ {0}
ASSUME FaultsAssumption    == Faults \in BOOLEAN

VARIABLES
  mainPc,       \* where the main thread is
  pc,           \* submit thread -> where it is
  idx,          \* submit thread -> the i of its for loop
  num,          \* state->num_remaining_tasks
  run,          \* state->run_pe_progress
  reg,          \* the value of num the callback has loaded or computed
  counted,      \* tasks whose fetch_and_add is done         (history)
  uncounted,    \* tasks whose "--" has been stored          (history)
  cbTask,       \* the task the running callback is about
  appDst,       \* tasks whose result is in app_dst_buffer
  submitError   \* submit thread -> submit_result is an error

vars == <<ctx, task, mainPc, pc, idx, num, run, reg, counted, uncounted,
          cbTask, appDst, submitError>>
threadVars == <<pc, idx, submitError>>
flagVars   == <<num, run>>
cbVars     == <<reg, cbTask, uncounted, appDst>>

Threads   == {0, 1}                     \* submit_thread_num = 2
Tasks     == 0 .. BatchSize - 1
PerThread == BatchSize \div 2           \* batch_size / submit_thread_num
TaskOf_NoStart(th, i) == i              \* mutant: task_start_idx forgotten
TaskOf(th, i) == th * PerThread + i     \* task_start_idx + i

MainPcs   == {"create0", "create1", "testRun", "testNum", "progress", "store",
              "testZero", "clear", "join", "report", "done", "exited", "crashed"}
ThreadPcs == {"none", "submit", "add", "setRun", "exit"}
Dead      == mainPc \in {"exited", "crashed"}

Init ==
  /\ ctx = "RUNNING"
  /\ task = [t \in Tasks |-> "ready"]
  /\ mainPc = "create0"
  /\ pc = [th \in Threads |-> "none"]
  /\ idx = [th \in Threads |-> 0]
  /\ num = 0
  /\ run = TRUE
  /\ reg = 0
  /\ counted = {}
  /\ uncounted = {}
  /\ cbTask = 0
  /\ appDst = {}
  /\ submitError = [th \in Threads |-> FALSE]

-----------------------------------------------------------------------------
(* The main thread: create the submit threads, poll, join, report.         *)

\* Where a thread is at the head of its loop, with i iterations done.
LoopHead(i) == IF i < PerThread THEN "submit" ELSE "exit"

CreateThread(th) ==
  /\ mainPc = IF th = 0 THEN "create0" ELSE "create1"
  /\ pc' = [pc EXCEPT ![th] = LoopHead(0)]
  /\ mainPc' = IF th = 0 THEN "create1" ELSE "testRun"
  /\ UNCHANGED <<ctx, task, idx, submitError, flagVars, cbVars, counted>>

CreateThreadFails ==                    \* exit(-1)
  /\ Faults
  /\ mainPc \in {"create0", "create1"}
  /\ mainPc' = "exited"
  /\ UNCHANGED <<ctx, task, threadVars, flagVars, cbVars, counted>>

\* while (run_pe_progress || num_remaining_tasks > 0): two loads.
TestRun ==
  /\ mainPc = "testRun"
  /\ mainPc' = IF run THEN "progress" ELSE "testNum"
  /\ UNCHANGED <<ctx, task, threadVars, flagVars, cbVars, counted>>

TestNum ==
  /\ mainPc = "testNum"
  /\ mainPc' = IF num > 0 THEN "progress" ELSE "join"
  /\ UNCHANGED <<ctx, task, threadVars, flagVars, cbVars, counted>>

\* doca_pe_progress() returns 0: nanosleep and test again.
ProgressIdle ==
  /\ mainPc = "progress"
  /\ NothingToReport
  /\ mainPc' = "testRun"
  /\ UNCHANGED <<ctx, task, threadVars, flagVars, cbVars, counted>>

\* mutant: the plain ec_recover_completed_callback is registered.
ProgressCompleted_NoCopy(t) ==
  /\ mainPc = "progress"
  /\ task[t] = "ok"
  /\ task' = [task EXCEPT ![t] = "reaped"]
  /\ reg' = num
  /\ cbTask' = t
  /\ mainPc' = "store"
  /\ UNCHANGED <<ctx, threadVars, flagVars, counted, uncounted, appDst>>

\* doca_pe_progress() runs ec_recover_completed_callback_memcpy: the memcpy
\* to app_dst_buffer and the load of "--num_remaining_tasks".
ProgressCompleted(t) ==
  /\ mainPc = "progress"
  /\ task[t] = "ok"
  /\ task' = [task EXCEPT ![t] = "reaped"]
  /\ appDst' = appDst \union {t}
  /\ reg' = num
  /\ cbTask' = t
  /\ mainPc' = "store"
  /\ UNCHANGED <<ctx, threadVars, flagVars, counted, uncounted>>

\* mutant: the decrement is missing, as it is in ec_recover_error_callback.
CallbackStore_NoDecrement ==
  /\ mainPc = "store"
  /\ uncounted' = uncounted \union {cbTask}
  /\ mainPc' = "testZero"
  /\ UNCHANGED <<ctx, task, threadVars, flagVars, reg, cbTask, appDst, counted>>

CallbackStore ==
  /\ mainPc = "store"
  /\ num' = reg - 1
  /\ reg' = reg - 1
  /\ uncounted' = uncounted \union {cbTask}
  /\ mainPc' = "testZero"
  /\ UNCHANGED <<ctx, task, threadVars, run, cbTask, appDst, counted>>

\* if (num_remaining_tasks == 0): a build reloads the field or tests the
\* value it has just stored.
CallbackTest ==
  /\ mainPc = "testZero"
  /\ \E v \in {reg, num} : mainPc' = IF v = 0 THEN "clear" ELSE "testRun"
  /\ UNCHANGED <<ctx, task, threadVars, flagVars, cbVars, counted>>

CallbackClear ==
  /\ mainPc = "clear"
  /\ run' = FALSE
  /\ mainPc' = "testRun"
  /\ UNCHANGED <<ctx, task, threadVars, num, cbVars, counted>>

\* mutant: the error callback keeps the failed task.
ProgressFailed_NotFreed(t) ==
  /\ mainPc = "progress"
  /\ task[t] = "failed"
  /\ mainPc' = "testRun"
  /\ DocaStop
  /\ UNCHANGED <<task, threadVars, flagVars, cbVars, counted>>

\* doca_pe_progress() runs ec_recover_error_callback.  The task's user data
\* is a recover_task_user_data, the callback reads it as the longer
\* recover_task_data: the two pointers it writes through lie past the end of
\* the block, so the write may kill the process.  If it does not, the task is
\* freed and doca_ctx_stop() is asked for the context of the freed task: it
\* may or may not reach it.  num_remaining_tasks is not decremented.
ProgressFailed(t) ==
  /\ mainPc = "progress"
  /\ task[t] = "failed"
  /\ task' = [task EXCEPT ![t] = "freed"]
  /\ \/ mainPc' = "crashed" /\ UNCHANGED ctx
     \/ mainPc' = "testRun" /\ (DocaStop \/ UNCHANGED ctx)
  /\ UNCHANGED <<threadVars, flagVars, cbVars, counted>>

\* doca_pe_progress() moves a drained context to IDLE and runs
\* ec_state_changed_callback.
ProgressToIdle ==
  /\ mainPc = "progress"
  /\ Drained
  /\ ctx' = "IDLE"
  /\ run' = FALSE
  /\ mainPc' = "testRun"
  /\ UNCHANGED <<task, threadVars, num, cbVars, counted>>

Join ==
  /\ mainPc = "join"
  /\ \A th \in Threads : pc[th] = "exit"
  /\ mainPc' = "report"
  /\ UNCHANGED <<ctx, task, threadVars, flagVars, cbVars, counted>>

\* Print the submit results, reset the lengths of the destination buffers,
\* return DOCA_SUCCESS.
Report ==
  /\ mainPc = "report"
  /\ mainPc' = "done"
  /\ UNCHANGED <<ctx, task, threadVars, flagVars, cbVars, counted>>

-----------------------------------------------------------------------------
(* A submit thread.                                                        *)

\* memcpy of the source segment, then doca_task_submit.
Submit(th) ==
  /\ ~Dead
  /\ pc[th] = "submit"
  /\ DocaSubmit(TaskOf(th, idx[th]))
  /\ pc' = [pc EXCEPT ![th] = "add"]
  /\ UNCHANGED <<ctx, mainPc, idx, submitError, flagVars, cbVars, counted>>

\* mutant: the next task is tried at once, without the test of the loop
SubmitFails_TriesNext(th) ==
  /\ ~Dead
  /\ pc[th] = "submit"
  /\ Faults \/ ctx # "RUNNING"
  /\ submitError' = [submitError EXCEPT ![th] = TRUE]
  /\ idx' = [idx EXCEPT ![th] = @ + 1]
  /\ UNCHANGED <<ctx, task, mainPc, pc, flagVars, cbVars, counted>>

SubmitFails(th) ==
  /\ ~Dead
  /\ pc[th] = "submit"
  /\ Faults \/ ctx # "RUNNING"
  /\ submitError' = [submitError EXCEPT ![th] = TRUE]
  /\ pc' = [pc EXCEPT ![th] = "exit"]
  /\ UNCHANGED <<ctx, task, mainPc, idx, flagVars, cbVars, counted>>

\* __sync_fetch_and_add(&num_remaining_tasks, 1)
AddRemaining(th) ==
  /\ ~Dead
  /\ pc[th] = "add"
  /\ num' = num + 1
  /\ counted' = counted \union {TaskOf(th, idx[th])}
  /\ pc' = [pc EXCEPT ![th] = "setRun"]
  /\ UNCHANGED <<ctx, task, mainPc, idx, submitError, run, cbVars>>

\* run_pe_progress = true, then the next iteration.
SetRun(th) ==
  /\ ~Dead
  /\ pc[th] = "setRun"
  /\ run' = TRUE
  /\ idx' = [idx EXCEPT ![th] = @ + 1]
  /\ pc' = [pc EXCEPT ![th] = LoopHead(idx[th] + 1)]
  /\ UNCHANGED <<ctx, task, mainPc, submitError, num, cbVars, counted>>

-----------------------------------------------------------------------------
(* The engine.                                                             *)

Complete(t) ==
  /\ ~Dead
  /\ EngineCompletes(t)
  /\ UNCHANGED <<ctx, mainPc, threadVars, flagVars, cbVars, counted>>

Fail(t) ==
  /\ ~Dead
  /\ Faults
  /\ EngineFails(t)
  /\ UNCHANGED <<ctx, mainPc, threadVars, flagVars, cbVars, counted>>

Progress ==
  \/ ProgressIdle
  \/ \E t \in Tasks : ProgressCompleted(t)
  \/ \E t \in Tasks : ProgressFailed(t)
  \/ ProgressToIdle

Main ==
  \/ \E th \in Threads : CreateThread(th)
  \/ TestRun
  \/ TestNum
  \/ Progress
  \/ CallbackStore
  \/ CallbackTest
  \/ CallbackClear
  \/ Join
  \/ Report

SubmitThread(th) == Submit(th) \/ SubmitFails(th) \/ AddRemaining(th) \/ SetRun(th)

Engine(t) == Complete(t) \/ Fail(t)

\* The process has ended; the last state stands for everything after it.
Ended == mainPc \in {"done", "exited", "crashed"} /\ UNCHANGED vars

Next ==
  \/ Main
  \/ CreateThreadFails
  \/ \E th \in Threads : SubmitThread(th)
  \/ \E t \in Tasks : Engine(t)
  \/ Ended

\* The scheduler runs every thread that can run and the engine finishes every
\* task it was given.
Fairness ==
  /\ WF_vars(Main)
  /\ \A th \in Threads : WF_vars(SubmitThread(th))
  /\ \A t \in Tasks : WF_vars(Engine(t))

Spec     == Init /\ [][Next]_vars
FairSpec == Spec /\ Fairness

-----------------------------------------------------------------------------
(* What holds.                                                             *)

TypeOK ==
  /\ ctx \in CtxStates
  /\ task \in [Tasks -> TaskStates]
  /\ mainPc \in MainPcs
  /\ pc \in [Threads -> ThreadPcs]
  /\ idx \in [Threads -> 0 .. PerThread]
  /\ num \in Int
  /\ run \in BOOLEAN
  /\ reg \in Int
  /\ counted \subseteq Tasks
  /\ uncounted \subseteq Tasks
  /\ cbTask \in Tasks
  /\ appDst \subseteq Tasks
  /\ submitError \in [Threads -> BOOLEAN]

\* num_remaining_tasks loses updates (the "--" of the callback races with the
\* fetch_and_add of the submit threads) but never invents one: it is at most
\* the increments made minus the decrements made, whatever the interleaving.
NeverOvercounts == num <= Cardinality(counted) - Cardinality(uncounted)

\* Hence the count alone never keeps the poller in its loop: when both submit
\* threads are gone and every task that was submitted has been reaped, the
\* test "num_remaining_tasks > 0" is false.  (With run_pe_progress it is
\* another matter: a submit thread may set it after the last callback.)
CountReleasesLoop ==
  (/\ mainPc = "testNum"
   /\ \A th \in Threads : pc[th] = "exit"
   /\ \A t \in Tasks : task[t] \in {"ready", "reaped"})
  => num <= 0

\* The two threads never submit the same task, nor one of them a task twice:
\* a source segment is not overwritten while or after the engine reads it.
SubmittedOnce ==
  [][\A t \in Tasks : task'[t] = "inflight" /\ task[t] # "inflight"
                         => task[t] = "ready"]_vars

\* No wakeup is lost inside the polling loop: the tasks the engine has
\* finished are all delivered to app_dst_buffer, unless the main thread has
\* left the loop.
LeftLoop      == mainPc \in {"join", "report", "done", "exited", "crashed"}
Undelivered   == {t \in Tasks : task[t] \in {"ok", "reaped"}} \ appDst
FinishedIsDelivered == (Undelivered # {}) ~> (Undelivered = {} \/ LeftLoop)

\* After doca_ctx_stop() "doca_pe_progress() will eventually transition the
\* context to idle state" (comment of ec_state_changed_callback), unless the
\* main thread has stopped calling it.
StopReachesIdle == (ctx = "STOPPING") ~> (ctx = "IDLE" \/ LeftLoop)

-----------------------------------------------------------------------------
(* What the comments of the code say and the code does not do.             *)

\* "Wait for recover task completion ..." (comment of the polling loop): when
\* decode_Bench returns, no submitted task is still without its callback.
WaitsForAllTasks == mainPc = "done" => Busy = {}
=============================================================================
