------------------------------ MODULE DpuProxy ------------------------------
(***************************************************************************)
(* DPUProxy, ec_encode/dpuProxy.cc: the object through which a storage     *)
(* daemon hands work to the accelerator.  One instance serves one path:    *)
(*                                                                         *)
(*   ecBatch   encode_chunks(input, ..., batch_size): copy the stripes in, *)
(*             submit every task, then set the count and the flag, wait;   *)
(*   hash      submitBatchHashTask: set the count and the flag, then       *)
(*             submit the chunks of this segment; waitingHashTasks;        *)
(*   ecOne     encode_chunks(data, coding, ...): set the flag only, submit *)
(*             one task, wait.                                             *)
(*                                                                         *)
(* The caller makes one call after another, and reads the results of one   *)
(* before it makes the next.  All of it runs on one thread.                *)
(*                                                                         *)
(* dst says whose output a region of the destination memory holds.  The    *)
(* engine writes at the address the destination doca_buf was created with: *)
(* initHash gives every task a region of its own, initECBatch gives all of *)
(* them the start of ec_dst, although getECTaskResultBatch(i) reads the    *)
(* i-th region: on that path the results of tasks 1, 2, ... are never      *)
(* written where they are read, and nothing below says that they are.      *)
(***************************************************************************)
EXTENDS DocaContext

CONSTANTS
  Paths,       \* the paths the instance may be initialised for
  BatchSize,   \* tasks prepared by initECBatch, initHash
  Modulus,     \* number of values of the size_t num_remaining_tasks
  Faults       \* TRUE: a task may fail, and doca_task_submit may refuse one

ASSUME PathsAssumption   == Paths \subseteq {"ecBatch", "hash", "ecOne"}
ASSUME BatchAssumption   == BatchSize \in Nat \ {0}
ASSUME ModulusAssumption == Modulus \in Nat /\ Modulus > BatchSize
ASSUME FaultsAssumption  == Faults \in BOOLEAN

VARIABLES
  path,     \* which init function has been called
  pc,       \* where the current call is
  size,     \* the tasks of the current call
  j,        \* the variable of the submit loop
  num,      \* num_remaining_tasks
  run,      \* run_pe_progress
  dst,      \* region of the destination memory -> the task that wrote it
  failed    \* tasks of this call whose error callback has run   (history)

vars == <<ctx, task, path, pc, size, j, num, run, dst, failed>>

Tasks    == 0 .. BatchSize - 1
NoOutput == -1                     \* nothing written in this call
Pcs      == {"idle", "submit", "wait", "result", "exited"}

\* initHash sets the count and the flag; initEC and initECBatch clear the
\* whole structure and set the flag only.
Init ==
  /\ ctx = "RUNNING"
  /\ task = [t \in Tasks |-> "ready"]
  /\ path \in Paths
  /\ pc = "idle"
  /\ size = 0
  /\ j = 0
  /\ num = IF path = "hash" THEN BatchSize ELSE 0
  /\ run = TRUE
  /\ dst = [t \in Tasks |-> NoOutput]
  /\ failed = {}

\* The number of tasks a call may be for.
Sizes == CASE path = "ecBatch" -> {BatchSize}
           [] path = "hash"    -> 1 .. BatchSize
           [] path = "ecOne"   -> {1}

\* mutant: every task gets the start of the destination memory
Region_Shared(t) == 0

\* The region the output of a task goes to.
Region(t) == IF path = "hash" THEN t ELSE 0

-----------------------------------------------------------------------------
(* A call.                                                                  *)

\* Copy the input in and do what precedes the submits.  The lengths of the
\* destination buffers are reset here (ecBatch), at the end of the call before
\* (ecOne) or by the caller in between (hash).
Call ==
  /\ pc = "idle"
  /\ size' \in Sizes
  /\ pc' = "submit"
  /\ j' = 0
  /\ dst' = [t \in Tasks |-> NoOutput]
  /\ failed' = {}
  /\ num' = IF path = "hash" THEN size' ELSE num
  /\ run' = IF path \in {"hash", "ecOne"} THEN TRUE ELSE run
  /\ UNCHANGED <<ctx, task, path>>

\* mutant: one task too few
AfterSubmit_OneLess ==
  IF j + 1 < size
  THEN pc' = "submit" /\ j' = j + 1 /\ UNCHANGED <<num, run>>
  ELSE /\ pc' = "wait"
       /\ j' = 0
       /\ num' = IF path = "ecBatch" THEN size - 1 ELSE num
       /\ run' = IF path = "ecBatch" THEN TRUE ELSE run

\* mutant: j <= batch_size
AfterSubmit_OneMore ==
  IF j < size
  THEN pc' = "submit" /\ j' = j + 1 /\ UNCHANGED <<num, run>>
  ELSE /\ pc' = "wait"
       /\ j' = 0
       /\ num' = IF path = "ecBatch" THEN size ELSE num
       /\ run' = IF path = "ecBatch" THEN TRUE ELSE run

\* The next iteration, or what follows the loop.
AfterSubmit ==
  IF j + 1 < size
  THEN pc' = "submit" /\ j' = j + 1 /\ UNCHANGED <<num, run>>
  ELSE /\ pc' = "wait"
       /\ j' = 0
       /\ num' = IF path = "ecBatch" THEN size ELSE num
       /\ run' = IF path = "ecBatch" THEN TRUE ELSE run

SubmitTask ==
  /\ pc = "submit"
  /\ DocaSubmit(j)
  /\ AfterSubmit
  /\ UNCHANGED <<ctx, path, size, dst, failed>>

SubmitRefused ==                        \* exit(-1)
  /\ Faults
  /\ pc = "submit"
  /\ pc' = "exited"
  /\ UNCHANGED <<ctx, task, path, size, j, num, run, dst, failed>>

\* --num_remaining_tasks, on a size_t
Decremented == (num - 1) % Modulus

\* sha_hash_completed_callback, ec_create_completed_callback
PollCompleted(t) ==
  /\ pc = "wait" /\ run
  /\ task[t] = "ok"
  /\ task' = [task EXCEPT ![t] = "reaped"]
  /\ num' = Decremented
  /\ run' = IF num' = 0 THEN FALSE ELSE run
  /\ UNCHANGED <<ctx, path, pc, size, j, dst, failed>>

\* mutant: the error callback counts the task as done
PollFailed_Decrements(t) ==
  /\ pc = "wait" /\ run
  /\ task[t] = "failed"
  /\ task' = [task EXCEPT ![t] = "reaped"]
  /\ failed' = failed \union {t}
  /\ num' = Decremented
  /\ run' = IF num' = 0 THEN FALSE ELSE run
  /\ UNCHANGED <<ctx, path, pc, size, j, dst>>

\* sha_hash_error_callback, ec_create_error_callback: both are empty.
PollFailed(t) ==
  /\ pc = "wait" /\ run
  /\ task[t] = "failed"
  /\ task' = [task EXCEPT ![t] = "reaped"]
  /\ failed' = failed \union {t}
  /\ UNCHANGED <<ctx, path, pc, size, j, num, run, dst>>

EndWait ==
  /\ pc = "wait" /\ ~run
  /\ pc' = "result"
  /\ UNCHANGED <<ctx, task, path, size, j, num, run, dst, failed>>

\* The caller has read the results.
Return ==
  /\ pc = "result"
  /\ pc' = "idle"
  /\ UNCHANGED <<ctx, task, path, size, j, num, run, dst, failed>>

-----------------------------------------------------------------------------

Complete(t) ==
  /\ pc # "exited"
  /\ EngineCompletes(t)
  /\ dst' = [dst EXCEPT ![Region(t)] = t]
  /\ UNCHANGED <<ctx, path, pc, size, j, num, run, failed>>

Fail(t) ==
  /\ pc # "exited"
  /\ Faults
  /\ EngineFails(t)
  /\ UNCHANGED <<ctx, path, pc, size, j, num, run, dst, failed>>

Proxy ==
  \/ SubmitTask
  \/ SubmitRefused
  \/ \E t \in Tasks : PollCompleted(t)
  \/ \E t \in Tasks : PollFailed(t)
  \/ EndWait
  \/ Return

\* The process has exited, or waits for callbacks that will not come.
WaitsForNothing == pc = "wait" /\ run /\ Busy = {}
Ended == (pc = "exited" \/ WaitsForNothing) /\ UNCHANGED vars

Next ==
  \/ Call
  \/ Proxy
  \/ \E t \in Tasks : Complete(t) \/ Fail(t)
  \/ Ended

Fairness == WF_vars(Proxy) /\ \A t \in Tasks : WF_vars(Complete(t) \/ Fail(t))
Spec     == Init /\ [][Next]_vars
FairSpec == Spec /\ Fairness

-----------------------------------------------------------------------------
(* Properties.                                                              *)

TypeOK ==
  /\ ctx \in CtxStates
  /\ task \in [Tasks -> TaskStates]
  /\ path \in Paths
  /\ pc \in Pcs
  /\ size \in 0 .. BatchSize
  /\ j \in Tasks
  /\ num \in 0 .. Modulus - 1
  /\ run \in BOOLEAN
  /\ dst \in [Tasks -> Tasks \union {NoOutput}]
  /\ failed \subseteq Tasks

\* Setting the count after the submits (ecBatch) or before them (hash) makes
\* no difference: while the caller waits, the count is the tasks whose
\* callback is still to come and those that failed, and the flag says whether
\* it is 0.
LedgerExact ==
  pc = "wait" /\ path # "ecOne" =>
    /\ num = Cardinality(Busy) + Cardinality(failed)
    /\ run <=> num # 0

\* A wait ends only when no task of the call has failed (the caller waits for
\* ever instead) and none is still with the engine.  getHashTaskResult(i), which
\* reads region i, then finds the output of task i there, also when a short
\* segment follows a long one.  On ecBatch the first region, where every task
\* writes, holds the output of some task of this call; of the others nothing is
\* claimed.
ReadsOwnOutput == \A t \in 0 .. size - 1 : dst[t] = t
ResultIsReal ==
  pc = "result" =>
    /\ failed = {} /\ Busy = {}
    /\ path = "hash" => ReadsOwnOutput
    /\ path = "ecBatch" => dst[0] \in 0 .. size - 1

\* A call on the hash path does what the caller of a batch is promised: what
\* getHashTaskResult reads is, for each task of the segment, the digest the
\* engine computed in this call, and unless a task fails or is refused the call
\* returns.  The other paths do not keep the promise and are left out (they map
\* to no call at all): ecBatch writes all outputs to one region and reads
\* them from several, ecOne does not count its task and never returns.
Hashing   == path = "hash"
batch     == IF Hashing THEN 0 .. size - 1 ELSE {}
Called    == Hashing /\ pc \in {"submit", "wait", "result", "exited"}
Broken    == /\ Hashing
             /\ pc = "exited" \/ failed # {} \/ \E t \in Tasks : task[t] = "failed"
Polled    == pc \in {"wait", "result", "idle"}    \* a "reaped" task is of this call
computed  == {t \in batch : \/ task[t] = "ok"
                            \/ task[t] = "reaped" /\ Polled /\ t \notin failed}
delivered == IF pc \in {"result", "idle"} THEN {t \in batch : dst[t] = t} ELSE {}
Offload   == INSTANCE BatchOffload WITH Slots <- Tasks, called <- Called, broken <- Broken
ImplementsOffload == Offload!Spec
=============================================================================
