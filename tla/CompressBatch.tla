---------------------------- MODULE CompressBatch ----------------------------
(***************************************************************************)
(* The batch loops of compress/compress_deflate_main.c, in which tasks     *)
(* allocated once are submitted again for every block of every file:       *)
(*                                                                         *)
(*   test3             (called by traverseDir, which ignores what it       *)
(*                     returns): read a block, submit the batch, wait,     *)
(*                     add up the output lengths;                          *)
(*   compressFileDOCA  the same, with a look at task_result after the      *)
(*                     wait.  It does this twice per block, on two         *)
(*                     contexts that do not touch each other; the module   *)
(*                     is one of the two.                                  *)
(*                                                                         *)
(* A failed task has been freed by its callback (CompressCallbacks), and a *)
(* refused one by the loop itself, but the pointers stay in task_batch.    *)
(***************************************************************************)
EXTENDS CompressCallbacks

CONSTANT BatchSize   \* tasks of a batch

ASSUME BatchAssumption == BatchSize \in Nat \ {0} /\ BatchSize < Modulus

VARIABLES
  fn,       \* the function
  j,        \* the variable of its loops
  block     \* tasks submitted for the block being processed      (history)

vars == <<ctx, task, num, run, status, fn, pc, j, block>>

Tasks == 0 .. BatchSize - 1
Pcs   == {"file", "read", "submit", "wait", "check", "collect", "misuse"}

Init ==
  /\ ctx = "RUNNING"
  /\ task = [t \in Tasks |-> "ready"]
  /\ num = 0
  /\ run = FALSE
  /\ status = [t \in Tasks |-> "unset"]
  /\ fn \in {"test3", "compressFileDOCA"}
  /\ pc = "file"
  /\ j = 0
  /\ block = {}

-----------------------------------------------------------------------------

\* The next file that traverseDir finds.
OpenFile ==
  /\ pc = "file"
  /\ pc' = "read"
  /\ UNCHANGED <<ctx, task, num, run, status, fn, j, block>>

\* read() fills the next block, or returns 0.
ReadBlock ==
  /\ pc = "read"
  /\ pc' = "submit"
  /\ j' = 0
  /\ block' = {}
  /\ UNCHANGED <<ctx, task, num, run, status, fn>>

EndOfFile ==
  /\ pc = "read"
  /\ pc' = "file"
  /\ UNCHANGED <<ctx, task, num, run, status, fn, j, block>>

\* mutant: the count is set before the last submit
NextSubmit_OneLess ==
  IF j + 1 < BatchSize
  THEN pc' = "submit" /\ j' = j + 1 /\ UNCHANGED <<num, run>>
  ELSE pc' = "wait" /\ j' = 0 /\ num' = BatchSize - 1 /\ run' = TRUE

\* mutant: the loop runs to i <= batch_size
NextSubmit_OneMore ==
  IF j < BatchSize
  THEN pc' = "submit" /\ j' = j + 1 /\ UNCHANGED <<num, run>>
  ELSE pc' = "wait" /\ j' = 0 /\ num' = BatchSize /\ run' = TRUE

\* The next iteration; after the last one the count and the flag are set.
NextSubmit ==
  IF j + 1 < BatchSize
  THEN pc' = "submit" /\ j' = j + 1 /\ UNCHANGED <<num, run>>
  ELSE pc' = "wait" /\ j' = 0 /\ num' = BatchSize /\ run' = TRUE

SubmitTask ==
  /\ pc = "submit"
  /\ DocaSubmit(j)
  /\ block' = block \union {j}
  /\ NextSubmit
  /\ UNCHANGED <<ctx, status, fn>>

\* The refused task is freed and the function returns, with the tasks before
\* it in flight.
SubmitRefused ==
  /\ pc = "submit"
  /\ task[j] \in {"ready", "reaped"}
  /\ Faults \/ ctx # "RUNNING"
  /\ task' = [task EXCEPT ![j] = "freed"]
  /\ pc' = "file"
  /\ UNCHANGED <<ctx, num, run, status, fn, j, block>>

\* A pointer to a freed task is submitted, or a task in flight is submitted
\* again and then freed: nothing is known from there on.
Misuse ==
  /\ pc = "submit"
  /\ task[j] \in {"freed", "inflight", "ok", "failed"}
  /\ pc' = "misuse"
  /\ UNCHANGED <<ctx, task, num, run, status, fn, j, block>>

PollCompleted(t) ==
  /\ Polling
  /\ DeflateCompleted(t)
  /\ UNCHANGED <<fn, pc, j, block>>

PollFailed(t) ==
  /\ Polling
  /\ Failed(t)
  /\ UNCHANGED <<fn, pc, j, block>>

PollToIdle ==
  /\ Polling
  /\ ToIdle
  /\ UNCHANGED <<fn, pc, j, block>>

EndWait ==
  /\ pc = "wait" /\ ~run
  /\ pc' = IF fn = "test3" THEN "collect" ELSE "check"
  /\ UNCHANGED <<ctx, task, num, run, status, fn, j, block>>

\* if (task_result.status != DOCA_SUCCESS): task_result is a variable no
\* callback writes, and the test is never true.
Check ==
  /\ pc = "check"
  /\ pc' = "collect"
  /\ UNCHANGED <<ctx, task, num, run, status, fn, j, block>>

\* doca_buf_get_data_len() of every output
Collect ==
  /\ pc = "collect"
  /\ pc' = "read"
  /\ UNCHANGED <<ctx, task, num, run, status, fn, j, block>>

-----------------------------------------------------------------------------

Engine(t) ==
  /\ pc # "misuse"
  /\ EngineCompletes(t) \/ (Faults /\ EngineFails(t))
  /\ UNCHANGED <<ctx, num, run, status, fn, pc, j, block>>

Batch ==
  \/ SubmitTask
  \/ SubmitRefused
  \/ Misuse
  \/ \E t \in Tasks : PollCompleted(t) \/ PollFailed(t)
  \/ PollToIdle
  \/ EndWait
  \/ Check
  \/ Collect

Next ==
  \/ OpenFile
  \/ ReadBlock
  \/ EndOfFile
  \/ Batch
  \/ \E t \in Tasks : Engine(t)
  \/ pc = "misuse" /\ UNCHANGED vars

Fairness == WF_vars(Batch) /\ \A t \in Tasks : WF_vars(Engine(t))
Spec     == Init /\ [][Next]_vars
FairSpec == Spec /\ Fairness

-----------------------------------------------------------------------------
(* Properties.                                                              *)

TypeOK ==
  /\ CallbackTypeOK
  /\ task \in [Tasks -> TaskStates]
  /\ status \in [Tasks -> Statuses]
  /\ pc \in Pcs
  /\ j \in Tasks
  /\ block \subseteq Tasks

\* While the function waits, the count is exactly the tasks whose callback is
\* still to come, failed ones included; and the lengths are added up only
\* when every task of the block has had its callback.
CountExact ==
  /\ pc = "wait" => num = Cardinality(Busy)
  /\ pc \in {"check", "collect"} => Busy = {} /\ block = Tasks

\* The wait ends whichever tasks fail and in whichever order: the last
\* callback either clears the flag or stops the context, whose transition to
\* idle clears it.
WaitEnds == (pc = "wait") ~> (pc \in {"check", "collect"})
=============================================================================
