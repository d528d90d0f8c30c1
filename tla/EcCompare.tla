------------------------------ MODULE EcCompare ------------------------------
(***************************************************************************)
(* ec_decode/ec_compare.c: the program that validates the five 4+2 loss    *)
(* classes on the accelerator.  After an initial parity creation it goes   *)
(* through the classes; for each it runs, Iterations times, the flow of    *)
(* the class (recover, create, or recover then create) and compares the    *)
(* rebuilt chunks with the originals.  The classes share the context, one  *)
(* create task, the source and destination memory and one struct           *)
(* task_wait, in which every callback reports.                             *)
(*                                                                         *)
(* run_doca_task() gives up after 30 s.  The task it has given up on is    *)
(* still with the engine, and its callback still comes, in the polling     *)
(* loop of a later run_doca_task().                                        *)
(*                                                                         *)
(* A block of memory is the number of the codeword chunk it holds, or Bad. *)
(* The tasks of DocaContext are "create" and "recover"; "freed" means that *)
(* the recover task of the current class is not allocated.                 *)
(***************************************************************************)
EXTENDS DocaContext, Sequences, FiniteSets

CONSTANTS
  Iterations,   \* warmups + iterations
  Faults        \* TRUE: calls of DOCA and tasks may fail

ASSUME IterationsAssumption == Iterations \in Nat \ {0}
ASSUME FaultsAssumption     == Faults \in BOOLEAN

DataCount   == 4
ParityCount == 2
Chunks      == 0 .. DataCount + ParityCount - 1
DataChunks  == 0 .. DataCount - 1
Parities    == 0 .. ParityCount - 1
Bad         == -1
Blocks      == Chunks \union {Bad}
\* The missing chunks of each class; the arrays of the code are ascending.
LossCases   == <<{1}, {DataCount}, {1, 2}, {DataCount, DataCount + 1}, {1, DataCount}>>

VARIABLES
  pc,           \* where the program is
  case,         \* the index of the loss case
  iter,         \* the iteration of its loop
  stage,        \* which task run_doca_task() is called for; "initial" is a create
  wait,         \* struct task_wait
  recoverSrc,   \* the blocks of recover_src
  holes,        \* the missing indices of the recovery matrix
  createSrc,    \* the blocks of create_src
  recoverDst,   \* the blocks of recover_dst
  createDst,    \* the blocks of create_dst
  docaParity,   \* the reference parity saved after the initial creation
  docaOk,       \* what verify_doca_case has returned
  allOk,        \* all_ok
  timedOut,     \* some run has been given up                    (history)
  troubled,     \* something has failed or has been given up     (history)
  genuine       \* every run that returned DOCA_SUCCESS did so on the callback
                \* of its own task                               (history)

memory  == <<recoverSrc, holes, createSrc, recoverDst, createDst, docaParity>>
verdict == <<docaOk, allOk>>
history == <<timedOut, troubled, genuine>>
vars    == <<ctx, task, pc, case, iter, stage, wait, memory, verdict, history>>

Pcs == {"run", "wait", "deadline", "succeeded", "failed", "case", "compare",
        "cpu", "report", "stop", "end"}
NotDone == [done |-> FALSE, status |-> "in_progress", from |-> "none"]

\* The state doca_state_init() leaves, with run_create() called.
Init ==
  /\ ctx = "RUNNING"
  /\ task = [create |-> "ready", recover |-> "freed"]
  /\ pc = "run"
  /\ case = 1
  /\ iter = 0
  /\ stage = "initial"
  /\ wait = [NotDone EXCEPT !.status = "none"]
  /\ recoverSrc = [i \in 1 .. DataCount |-> Bad]
  /\ holes = {}
  /\ createSrc = [i \in DataChunks |-> i]
  /\ recoverDst = [p \in Parities |-> Bad]
  /\ createDst = [p \in Parities |-> Bad]
  /\ docaParity = [p \in Parities |-> Bad]
  /\ docaOk = FALSE
  /\ allOk = TRUE
  /\ timedOut = FALSE
  /\ troubled = FALSE
  /\ genuine = TRUE

-----------------------------------------------------------------------------
(* The loss case.                                                           *)

Missing       == LossCases[case]
Available     == Chunks \ Missing
MissingData   == Missing \intersect DataChunks
MissingParity == Missing \ DataChunks
FirstStage    == IF MissingData # {} THEN "recover" ELSE "create"

\* How many members of S come before c.
Rank(S, c) == Cardinality({d \in S : d < c})

\* prepare_recover_input() goes through the chunks until DataCount of those
\* that are left have been taken: these, in codeword order, and the holes met.
PrepareInput ==
  [i \in 1 .. DataCount |-> CHOOSE c \in Available : Rank(Available, c) = i - 1]
\* mutant: only the missing data goes into the recovery matrix
PrepareHoles_DataOnly == MissingData
PrepareHoles == {c \in Missing : Rank(Available, c) < DataCount}

-----------------------------------------------------------------------------
(* run_doca_task()                                                          *)

TaskId == IF stage = "recover" THEN "recover" ELSE "create"

\* mutant: wait.done is not reset
Submit_KeepsDone ==
  /\ pc = "run"
  /\ DocaSubmit(TaskId)
  /\ pc' = "wait"
  /\ UNCHANGED <<ctx, case, iter, stage, wait, memory, verdict, history>>

\* doca_buf_reset_data_len() on the destination, reset of the wait structure,
\* doca_task_submit().
Submit ==
  /\ pc = "run"
  /\ DocaSubmit(TaskId)
  /\ wait' = NotDone
  /\ pc' = "wait"
  /\ UNCHANGED <<ctx, case, iter, stage, memory, verdict, history>>

SubmitRefused ==
  /\ pc = "run"
  /\ Faults \/ ~Submittable(TaskId)
  /\ wait' = NotDone
  /\ pc' = "failed"
  /\ troubled' = TRUE
  /\ UNCHANGED <<ctx, task, case, iter, stage, memory, verdict, timedOut, genuine>>

\* One doca_pe_progress(): the callback of a finished task, whichever it is,
\* writes the wait structure.
Callback(t) ==
  /\ task' = [task EXCEPT ![t] = "reaped"]
  /\ wait' = [done |-> TRUE, from |-> t,
              status |-> IF task[t] = "ok" THEN "success" ELSE "error"]

\* The loop head, with the wait structure still as it was.
PollTask(t) ==
  /\ pc = "wait" /\ ~wait.done
  /\ t \in Finished
  /\ Callback(t)
  /\ pc' = "deadline"
  /\ UNCHANGED <<ctx, case, iter, stage, memory, verdict, history>>

PollNothing ==
  /\ pc = "wait" /\ ~wait.done
  /\ NothingToReport
  /\ pc' = "deadline"
  /\ UNCHANGED <<ctx, task, case, iter, stage, wait, memory, verdict, history>>

\* mutant: the deadline is looked at when the loop has ended
TimedOut_AfterLoop ==
  /\ pc = "deadline" /\ wait.done
  /\ pc' = "failed"
  /\ timedOut' = TRUE
  /\ troubled' = TRUE
  /\ UNCHANGED <<ctx, task, case, iter, stage, wait, memory, verdict, genuine>>

\* The deadline is looked at after every poll, before wait.done.
TimedOut ==
  /\ pc = "deadline"
  /\ pc' = "failed"
  /\ timedOut' = TRUE
  /\ troubled' = TRUE
  /\ UNCHANGED <<ctx, task, case, iter, stage, wait, memory, verdict, genuine>>

InTime ==
  /\ pc = "deadline"
  /\ pc' = "wait"
  /\ UNCHANGED <<ctx, task, case, iter, stage, wait, memory, verdict, history>>

\* return state->wait.status
RunReturns ==
  /\ pc = "wait" /\ wait.done
  /\ IF wait.status = "success"
     THEN pc' = "succeeded" /\ genuine' = (genuine /\ wait.from = TaskId) /\ UNCHANGED troubled
     ELSE pc' = "failed" /\ troubled' = TRUE /\ UNCHANGED genuine
  /\ UNCHANGED <<ctx, task, case, iter, stage, wait, memory, verdict, timedOut>>

-----------------------------------------------------------------------------
(* verify_doca_case() and main().                                           *)

\* The initial parity is saved as the reference.
SaveParity ==
  /\ pc = "succeeded" /\ stage = "initial"
  /\ docaParity' = createDst
  /\ pc' = "case"
  /\ UNCHANGED <<ctx, task, case, iter, stage, wait, recoverSrc, holes, createSrc,
                 recoverDst, createDst, verdict, history>>

\* The original data goes to create_src; if data is missing the input of the
\* recovery is prepared, the matrix created and the task allocated.
BeginCase ==
  /\ pc = "case"
  /\ createSrc' = [i \in DataChunks |-> i]
  /\ iter' = 0
  /\ stage' = FirstStage
  /\ pc' = "run"
  /\ IF MissingData = {}
     THEN UNCHANGED <<task, recoverSrc, holes>>
     ELSE /\ task["recover"] = "freed"
          /\ task' = [task EXCEPT !["recover"] = "ready"]
          /\ recoverSrc' = PrepareInput
          /\ holes' = PrepareHoles
  /\ UNCHANGED <<ctx, case, wait, recoverDst, createDst, docaParity, verdict, history>>

\* The matrix or the task cannot be had: the context is configured for one
\* recover task, and an abandoned one may still occupy it.
BeginCaseFails ==
  /\ pc = "case"
  /\ MissingData # {}
  /\ Faults \/ task["recover"] # "freed"
  /\ createSrc' = [i \in DataChunks |-> i]
  /\ recoverSrc' = PrepareInput
  /\ docaOk' = FALSE
  /\ troubled' = TRUE
  /\ pc' = "cpu"
  /\ UNCHANGED <<ctx, task, case, iter, stage, wait, holes, recoverDst, createDst,
                 docaParity, allOk, timedOut, genuine>>

\* The head of the iteration loop.
NextIteration_OneMore ==                                         \* mutant
  IF iter < Iterations
  THEN pc' = "run" /\ iter' = iter + 1 /\ stage' = FirstStage
  ELSE pc' = "compare" /\ UNCHANGED <<iter, stage>>
NextIteration ==
  IF iter + 1 < Iterations
  THEN pc' = "run" /\ iter' = iter + 1 /\ stage' = FirstStage
  ELSE pc' = "compare" /\ UNCHANGED <<iter, stage>>

\* The recovered data, the prefix of recover_dst, goes to create_src.
AfterRecover ==
  /\ pc = "succeeded" /\ stage = "recover"
  /\ createSrc' = [c \in DataChunks |->
                     IF c \in MissingData THEN recoverDst[Rank(MissingData, c)] ELSE createSrc[c]]
  /\ IF MissingParity # {}
     THEN pc' = "run" /\ stage' = "create" /\ UNCHANGED iter
     ELSE NextIteration
  /\ UNCHANGED <<ctx, task, case, wait, recoverSrc, holes, recoverDst, createDst,
                 docaParity, verdict, history>>

AfterCreate ==
  /\ pc = "succeeded" /\ stage = "create"
  /\ NextIteration
  /\ UNCHANGED <<ctx, task, case, wait, memory, verdict, history>>

\* doca_task_free() of the recover task, if this case has allocated one.  DOCA
\* may refuse to free a task that is with the engine, or drop it.
FreeRecover ==
  \/ MissingData # {} /\ task' = [task EXCEPT !["recover"] = "freed"]
  \/ (MissingData = {} \/ "recover" \in Busy) /\ UNCHANGED task

\* Every missing chunk is compared with the original.
Compare ==
  /\ pc = "compare"
  /\ docaOk' = /\ \A c \in MissingData : recoverDst[Rank(MissingData, c)] = c
               /\ \A c \in MissingParity : createDst[c - DataCount] = docaParity[c - DataCount]
  /\ FreeRecover
  /\ pc' = "cpu"
  /\ UNCHANGED <<ctx, case, iter, stage, wait, memory, allOk, history>>

\* mutant: ok starts as true, and only the comparison makes it false
RunFailed_KeepsOk ==
  /\ pc = "failed"
  /\ IF stage = "initial"
     THEN pc' = "report" /\ allOk' = FALSE /\ UNCHANGED <<task, docaOk>>
     ELSE pc' = "cpu" /\ docaOk' = TRUE /\ FreeRecover /\ UNCHANGED allOk
  /\ UNCHANGED <<ctx, case, iter, stage, wait, memory, history>>

\* goto out, with ok = false; main gives up when the initial creation fails
\* (it then exits with a failure and no "Overall" line).
RunFailed ==
  /\ pc = "failed"
  /\ IF stage = "initial"
     THEN pc' = "report" /\ allOk' = FALSE /\ UNCHANGED <<task, docaOk>>
     ELSE pc' = "cpu" /\ docaOk' = FALSE /\ FreeRecover /\ UNCHANGED allOk
  /\ UNCHANGED <<ctx, case, iter, stage, wait, memory, history>>

\* verify_cpu_case() may pass or fail; the next case.
VerifyCpu ==
  /\ pc = "cpu"
  /\ \E cpuOk \in BOOLEAN : allOk' = (docaOk /\ cpuOk /\ allOk)
  /\ IF case < Len(LossCases)
     THEN case' = case + 1 /\ pc' = "case"
     ELSE pc' = "report" /\ UNCHANGED case
  /\ UNCHANGED <<ctx, task, iter, stage, wait, memory, docaOk, history>>

\* "Overall correctness: ..."; doca_state_cleanup() frees the create task,
\* asks the context to stop and polls until it is idle.
Report ==
  /\ pc = "report"
  /\ \/ task' = [task EXCEPT !["create"] = "freed"]
     \/ "create" \in Busy /\ UNCHANGED task
  /\ DocaStop
  /\ pc' = "stop"
  /\ UNCHANGED <<case, iter, stage, wait, memory, verdict, history>>

StopPoll(t) ==
  /\ pc = "stop"
  /\ t \in Finished
  /\ Callback(t)
  /\ UNCHANGED <<ctx, pc, case, iter, stage, memory, verdict, history>>

StopDone ==
  /\ pc = "stop"
  /\ Drained
  /\ ctx' = "IDLE"
  /\ pc' = "end"
  /\ UNCHANGED <<task, case, iter, stage, wait, memory, verdict, history>>

-----------------------------------------------------------------------------
(* The engine: erasure coding as the program relies on it.                  *)

\* A recovery with the missing indices holes takes its source blocks for the
\* first DataCount chunks that are not among them, and writes the holes in
\* their order; a creation wants the data in order.
Present       == Chunks \ holes
ExpectedInput == [i \in 1 .. DataCount |-> CHOOSE c \in Present : Rank(Present, c) = i - 1]
Recovered == [p \in Parities |->
                IF \A c \in holes : Rank(holes, c) # p THEN recoverDst[p]
                ELSE IF recoverSrc # ExpectedInput THEN Bad
                ELSE CHOOSE c \in holes : Rank(holes, c) = p]
Created   == [p \in Parities |->
                IF \A c \in DataChunks : createSrc[c] = c THEN DataCount + p ELSE Bad]

Complete(t) ==
  /\ EngineCompletes(t)
  /\ IF t = "recover"
     THEN recoverDst' = Recovered /\ UNCHANGED createDst
     ELSE createDst' = Created /\ UNCHANGED recoverDst
  /\ UNCHANGED <<ctx, pc, case, iter, stage, wait, recoverSrc, holes, createSrc,
                 docaParity, verdict, history>>

Fail(t) ==
  /\ Faults
  /\ EngineFails(t)
  /\ UNCHANGED <<ctx, pc, case, iter, stage, wait, memory, verdict, history>>

EngineTasks == {"create", "recover"}

Program ==
  \/ Submit
  \/ SubmitRefused
  \/ \E t \in EngineTasks : PollTask(t)
  \/ PollNothing
  \/ TimedOut
  \/ InTime
  \/ RunReturns
  \/ SaveParity
  \/ BeginCase
  \/ BeginCaseFails
  \/ AfterRecover
  \/ AfterCreate
  \/ Compare
  \/ RunFailed
  \/ VerifyCpu
  \/ Report
  \/ \E t \in EngineTasks : StopPoll(t)
  \/ StopDone

\* doca_state_cleanup() has no deadline: it waits for what the engine keeps.
Ended == pc = "end" /\ UNCHANGED vars

Next ==
  \/ Program
  \/ \E t \in EngineTasks : Complete(t) \/ Fail(t)
  \/ Ended

\* The program runs and its clock advances.  Nothing is assumed of the engine.
Fairness == WF_vars(Program) /\ SF_vars(TimedOut)
Spec     == Init /\ [][Next]_vars
FairSpec == Spec /\ Fairness

-----------------------------------------------------------------------------
(* Properties.                                                              *)

TypeOK ==
  /\ ctx \in CtxStates
  /\ task \in [EngineTasks -> TaskStates]
  /\ pc \in Pcs
  /\ case \in DOMAIN LossCases
  /\ iter \in 0 .. Iterations - 1
  /\ stage \in {"initial", "create", "recover"}
  /\ wait \in [done : BOOLEAN, status : {"none", "in_progress", "success", "error"},
               from : EngineTasks \union {"none"}]
  /\ recoverSrc \in [1 .. DataCount -> Blocks]
  /\ holes \subseteq Chunks
  /\ createSrc \in [DataChunks -> Blocks]
  /\ recoverDst \in [Parities -> Blocks]
  /\ createDst \in [Parities -> Blocks]
  /\ docaParity \in [Parities -> Blocks]
  /\ docaOk \in BOOLEAN /\ allOk \in BOOLEAN
  /\ timedOut \in BOOLEAN /\ troubled \in BOOLEAN /\ genuine \in BOOLEAN

\* The wait structure is shared by all tasks and a callback does not say which
\* task it is about.  As long as no run has been given up, a run that returns
\* DOCA_SUCCESS has nevertheless seen the callback of its own task.
OwnCompletion == ~timedOut => genuine

\* After a time-out that is no longer so: the late callback of the abandoned
\* task ends the next run at once, and the stale (right) blocks of an earlier
\* case may then be compared and found right.  But "Overall correctness: PASS"
\* is never printed on the strength of such a run.
OverallPassIsReal == pc \in {"report", "stop", "end"} /\ allOk => genuine

\* The data path is right: when nothing fails and nothing is late, every loss
\* class is found right, with the recovery input, the holes given to the
\* matrix and the output blocks consumed as the flow of each class has them.
HealthyCasesPass == pc = "cpu" /\ ~troubled => docaOk

\* The verdict is reached even if the engine never finishes anything: every
\* run is given up after its deadline.  (The clean-up after it may hang.)
VerdictReached == <>(pc = "report")
=============================================================================
