--------------------------- MODULE DpuProxyProofs ---------------------------
(***************************************************************************)
(* Proofs about DpuProxy, for every batch size and every width of the      *)
(* count, on all three paths, with or without faults: the count of the     *)
(* batch paths is exact, a wait ends without a failure, what the hasher    *)
(* reads as a result is one, and the hash path implements BatchOffload.    *)
(*                                                                         *)
(* The invariant says for each place in a call which tasks are busy: none  *)
(* between two calls, those before j while the call submits, only tasks of *)
(* the call while it waits.  From that the count set after the submits     *)
(* (ecBatch) is as right as the one set before them (hash).                *)
(***************************************************************************)
EXTENDS DpuProxy, FiniteSetTheorems, TLAPS

InCallback == {"inflight", "ok", "failed"}   \* a busy task
Batched    == path # "ecOne"

Types ==
  /\ ctx = "RUNNING"
  /\ task \in [Tasks -> TaskStates]
  /\ path \in {"ecBatch", "hash", "ecOne"}
  /\ pc \in Pcs
  /\ size \in 0 .. BatchSize
  /\ pc # "idle" => size # 0
  /\ j \in Tasks
  /\ num \in 0 .. Modulus - 1
  /\ run \in BOOLEAN
  /\ dst \in [Tasks -> Tasks \union {NoOutput}]
  /\ failed \subseteq Tasks

Between == pc \in {"idle", "result"} => Busy = {}

Submitting ==
  pc = "submit" =>
    /\ j < size /\ failed = {}
    /\ \A t \in Tasks : task[t] \in InCallback <=> t < j
    /\ path = "hash" => num = size /\ run

Waiting ==
  pc = "wait" =>
    /\ \A t \in Tasks : task[t] \in InCallback => t < size
    /\ \A t \in Tasks : t < size => task[t] \in InCallback \union {"reaped"}
    /\ \A t \in failed : task[t] = "reaped"

Ledger ==
  pc = "wait" /\ Batched =>
    /\ num = Cardinality(Busy) + Cardinality(failed)
    /\ run <=> num # 0
    /\ num <= size

\* The one-task path: its count is 0 until its callback, and its wait endless.
OneTask ==
  path = "ecOne" =>
    /\ pc # "result"
    /\ pc \in {"submit", "wait"} => size = 1 /\ run
    /\ pc \in {"idle", "submit"} \/ Busy # {} => num = 0

Results ==
  pc = "result" => failed = {} /\ \A t \in Tasks : t < size => task[t] = "reaped"

\* The output of a task is in its region; all others write the first one.
\* Everything written in a call is the output of a task of the call.
Outputs ==
  /\ \A t \in Tasks :
       t < size /\ (task[t] = "ok" \/ (task[t] = "reaped" /\ Polled /\ t \notin failed)) =>
         IF path = "hash" THEN dst[t] = t ELSE dst[0] # NoOutput
  /\ \A t \in Tasks : dst[t] = NoOutput \/ dst[t] < size

IInv == Types /\ Between /\ Submitting /\ Waiting /\ Ledger /\ OneTask /\ Results /\ Outputs

\* What the arithmetic of the count comes to.
LEMMA SmallMod ==
  ASSUME NEW m \in Nat \ {0}, NEW n \in 0 .. m - 1 PROVE n % m = n
  OBVIOUS

LEMMA BelowZero == ASSUME NEW m \in Nat \ {0} PROVE (0 - 1) % m = m - 1
  OBVIOUS

LEMMA SizesOfPath ==
  ASSUME Types PROVE Sizes \subseteq 1 .. BatchSize /\ (path = "ecOne" => Sizes = {1})
  BY BatchAssumption DEF Types, Sizes

\* The busy tasks and the failed ones are tasks of the batch, finitely many.
LEMMA TasksFinite ==
  /\ IsFiniteSet(Tasks)
  /\ \A S \in SUBSET Tasks :
       IsFiniteSet(S) /\ Cardinality(S) \in Nat /\ (Cardinality(S) = 0 <=> S = {})
  <1>1. IsFiniteSet(Tasks)
    BY FS_Interval, BatchAssumption DEF Tasks
  <1> QED
    BY <1>1, FS_Subset, FS_CardinalityType, FS_EmptySet

LEMMA BusyTasks == ASSUME Types PROVE Busy = {t \in Tasks : task[t] \in InCallback}
  BY DEF Types, Busy, InFlight, Finished, InCallback

LEMMA InitIInv == Init => IInv
  <1> SUFFICES ASSUME Init PROVE IInv
    OBVIOUS
  <1>1. /\ 0 \in 0 .. Modulus - 1 /\ BatchSize \in 0 .. Modulus - 1
        /\ 0 \in Tasks /\ 0 \in 0 .. BatchSize
    BY BatchAssumption, ModulusAssumption DEF Tasks
  <1>2. Types
    BY <1>1, PathsAssumption DEF Init, Types, TaskStates, Pcs, NoOutput
  <1>3. Busy = {}
    BY DEF Init, Busy, InFlight, Finished
  <1> QED
    BY <1>2, <1>3
    DEF Init, IInv, Between, Submitting, Waiting, Ledger, OneTask, Results, Outputs, Polled

LEMMA CallStep == ASSUME IInv, Call PROVE IInv'
  <1> USE DEF IInv, Types
  <1>1. size' \in 1 .. BatchSize /\ (path = "ecOne" => size' = 1)
    BY SizesOfPath DEF Call
  <1>2. \A t \in Tasks : task[t] \notin InCallback
    BY BusyTasks DEF Call, Between
  <1>3. /\ size' \in 0 .. Modulus - 1 /\ size' \in 0 .. BatchSize /\ size' # 0
        /\ 0 \in Tasks
    BY <1>1, BatchAssumption, ModulusAssumption DEF Tasks
  <1>4. num' \in 0 .. Modulus - 1 /\ run' \in BOOLEAN
    BY <1>3 DEF Call
  <1>5. Types'
    BY <1>3, <1>4 DEF Call, Pcs
  <1>6. Submitting'
    BY <1>1, <1>2, BatchAssumption DEF Call, Submitting, Tasks
  <1>7. OneTask'
    BY <1>1 DEF Call, OneTask
  <1>8. Outputs'
    BY <1>2 DEF Call, Outputs, Polled, InCallback, NoOutput
  <1> QED
    BY <1>5, <1>6, <1>7, <1>8 DEF Call, Between, Waiting, Ledger, Results

\* The submit that ends the loop finds the tasks of the call busy, and no other.
LEMMA SubmitStep == ASSUME IInv, SubmitTask PROVE IInv'
  <1> USE DEF IInv, Types
  <1>1. /\ task' = [task EXCEPT ![j] = "inflight"] /\ task' \in [Tasks -> TaskStates]
        /\ UNCHANGED <<ctx, path, size, dst, failed>> /\ failed = {}
        /\ pc = "submit" /\ j < size /\ size \in Nat /\ j \in Nat
    BY BatchAssumption DEF SubmitTask, DocaSubmit, TaskStates, Submitting, Tasks
  <1>2. \A t \in Tasks : task'[t] \in InCallback <=> t < j + 1
    BY <1>1 DEF Submitting, InCallback, Tasks
  <1>3. \/ /\ j + 1 < size
           /\ pc' = "submit" /\ j' = j + 1 /\ num' = num /\ run' = run
        \/ /\ ~(j + 1 < size)
           /\ pc' = "wait" /\ j' = 0
           /\ IF path = "ecBatch" THEN num' = size /\ run' = TRUE ELSE num' = num /\ run' = run
    BY Zenon DEF SubmitTask, AfterSubmit
  <1>4. ~(j + 1 < size) => j + 1 = size
    BY <1>1
  <1>5. Outputs'
    <2>1. \A t \in Tasks : task'[t] = "ok" => task[t] = "ok"
      BY <1>1
    <2>2. pc' # "submit" => \A t \in Tasks : t < size => task'[t] # "reaped"
      BY <1>2, <1>3, <1>4 DEF InCallback
    <2> QED
      BY <1>1, <2>1, <2>2 DEF Outputs, Polled
  <1>6. CASE j + 1 < size
    <2>1. pc' = "submit" /\ j' = j + 1 /\ num' = num /\ run' = run
      BY <1>3, <1>6, Zenon
    <2>2. j' \in Tasks /\ j' < size
      BY <1>1, <1>6, <2>1, BatchAssumption DEF Tasks
    <2>3. Types'
      BY <1>1, <2>1, <2>2 DEF Pcs
    <2>4. OneTask'
      BY <1>1, <1>6, <2>1 DEF OneTask
    <2>5. Submitting'
      BY <1>1, <1>2, <2>1, <2>2 DEF Submitting
    <2> QED
      BY <1>5, <2>1, <2>3, <2>4, <2>5 DEF Between, Waiting, Ledger, Results
  <1>7. CASE ~(j + 1 < size)
    <2>1. pc' = "wait" /\ j' = 0 /\ j + 1 = size
      BY <1>3, <1>4, <1>7, Zenon
    <2>2. IF path = "ecBatch" THEN num' = size /\ run' = TRUE ELSE num' = num /\ run' = run
      BY <1>3, <1>7, Zenon
    <2>3. path # "ecBatch" => path \in {"hash", "ecOne"}
      OBVIOUS
    <2>4. (Batched => num' = size /\ run') /\ run' \in BOOLEAN /\ (path = "ecOne" => run')
      BY <1>1, <2>2, <2>3, Zenon DEF Submitting, Batched, OneTask
    <2>5. num' \in 0 .. Modulus - 1
      <3>1. num' = size \/ num' = num
        BY <2>2, Zenon
      <3> QED
        BY <3>1, BatchAssumption, ModulusAssumption
    <2>6. Types'
      <3>1. j' \in Tasks /\ pc' \in Pcs
        BY <2>1, BatchAssumption DEF Tasks, Pcs
      <3> QED
        BY <1>1, <2>4, <2>5, <3>1, Zenon
    <2>7. Busy' = 0 .. size - 1
      <3>1. Busy' = {t \in Tasks : task'[t] \in InCallback}
        BY <1>1 DEF Busy, InFlight, Finished, InCallback
      <3> QED
        BY <1>1, <1>2, <2>1, <3>1, BatchAssumption DEF Tasks
    <2>8. Cardinality(Busy') = size /\ Cardinality(failed') = 0
      BY <1>1, <2>7, FS_Interval, FS_EmptySet
    <2>9. Ledger'
      BY <1>1, <2>1, <2>4, <2>8 DEF Ledger, Batched
    <2>10. Waiting'
      BY <1>1, <1>2, <2>1 DEF Waiting
    <2>11. OneTask'
      <3>1. path = "ecOne" => size = 1 /\ run' /\ num' = num /\ num = 0
        BY <1>1, <2>2, <2>4, Zenon DEF OneTask
      <3> QED
        BY <1>1, <2>1, <3>1 DEF OneTask
    <2> QED
      BY <1>1, <1>5, <2>1, <2>6, <2>9, <2>10, <2>11 DEF Between, Submitting, Results
  <1> QED
    BY <1>6, <1>7

\* What a callback does to the busy tasks.
LEMMA Reaped ==
  ASSUME IInv, NEW t \in Tasks, task[t] \in {"ok", "failed"}, pc = "wait",
         task' = [task EXCEPT ![t] = "reaped"]
  PROVE  /\ task' \in [Tasks -> TaskStates]
         /\ \A x \in Tasks : x # t => task'[x] = task[x]
         /\ task'[t] = "reaped"
         /\ t < size /\ t \notin failed
         /\ t \in Busy /\ Busy' = Busy \ {t}
         /\ Cardinality(Busy) \in Nat /\ Cardinality(Busy') \in Nat
         /\ Cardinality(Busy) = Cardinality(Busy') + 1
         /\ Cardinality(failed) \in Nat
  <1> USE DEF IInv, Types
  <1>1. /\ task' \in [Tasks -> TaskStates]
        /\ \A x \in Tasks : x # t => task'[x] = task[x]
        /\ task'[t] = "reaped"
    BY DEF TaskStates
  <1>2. t < size /\ t \notin failed
    BY DEF Waiting, InCallback
  <1>3. t \in Busy /\ Busy' = Busy \ {t}
    BY <1>1 DEF Busy, InFlight, Finished
  <1>4. Busy \in SUBSET Tasks
    BY BusyTasks
  <1>5. IsFiniteSet(Busy) /\ Cardinality(Busy) \in Nat /\ Cardinality(failed) \in Nat
    BY <1>4, TasksFinite
  <1>6. Cardinality(Busy') = Cardinality(Busy) - 1 /\ Cardinality(Busy') \in Nat
    <2>1. Busy' \in SUBSET Tasks
      BY <1>3, <1>4
    <2> QED
      BY <1>3, <1>5, <2>1, TasksFinite, FS_RemoveElement
  <1> QED
    BY <1>1, <1>2, <1>3, <1>5, <1>6

LEMMA CompletedStep == ASSUME IInv, NEW t \in Tasks, PollCompleted(t) PROVE IInv'
  <1> USE DEF IInv, Types
  <1>1. /\ pc = "wait" /\ pc' = "wait" /\ run /\ task[t] = "ok"
        /\ task' = [task EXCEPT ![t] = "reaped"] /\ num' = (num - 1) % Modulus
        /\ run' = (IF num' = 0 THEN FALSE ELSE run)
        /\ UNCHANGED <<ctx, path, size, j, dst, failed>>
    BY DEF PollCompleted, Decremented
  <1>2. /\ task' \in [Tasks -> TaskStates]
        /\ \A x \in Tasks : x # t => task'[x] = task[x]
        /\ task'[t] = "reaped"
        /\ t < size /\ t \notin failed
        /\ t \in Busy /\ Busy' = Busy \ {t}
        /\ Cardinality(Busy) \in Nat /\ Cardinality(Busy') \in Nat
        /\ Cardinality(Busy) = Cardinality(Busy') + 1
        /\ Cardinality(failed) \in Nat
    BY <1>1, Reaped
  <1>3. Waiting' /\ Between' /\ Submitting' /\ Results'
    BY <1>1, <1>2 DEF Waiting, Between, Submitting, Results, InCallback
  <1>4. Outputs'
    BY <1>1, <1>2 DEF Outputs, Polled
  <1>5. CASE Batched
    <2>1. num - 1 \in 0 .. Modulus - 1
      BY <1>1, <1>2, <1>5, ModulusAssumption DEF Ledger
    <2>2. num' = num - 1
      BY <1>1, <2>1, SmallMod, ModulusAssumption
    <2>3. Ledger'
      BY <1>1, <1>2, <1>5, <2>1, <2>2 DEF Ledger, Batched
    <2>4. Types'
      BY <1>1, <1>2, <2>1, <2>2
    <2> QED
      BY <1>1, <1>3, <1>4, <1>5, <2>3, <2>4 DEF OneTask, Batched
  <1>6. CASE ~Batched
    <2>1. num = 0 /\ size = 1
      BY <1>1, <1>2, <1>6 DEF OneTask, Batched
    <2>2. num' = Modulus - 1 /\ num' \in 0 .. Modulus - 1 /\ num' # 0
      <3>1. num' = (0 - 1) % Modulus
        BY <1>1, <2>1
      <3>2. (0 - 1) % Modulus = Modulus - 1
        <4>1. Modulus \in Nat \ {0}
          BY BatchAssumption, ModulusAssumption
        <4> QED
          BY <4>1, BelowZero
      <3> QED
        BY <3>1, <3>2, ModulusAssumption, BatchAssumption
    <2>3. Types'
      BY <1>1, <1>2, <2>2
    <2>4. Busy' = {}
      <3>1. \A x \in Tasks : task[x] \in InCallback => x = t
        BY <1>1, <1>2, <2>1 DEF Waiting, Tasks
      <3> QED
        BY <1>2, <3>1, BusyTasks
    <2>5. OneTask' /\ Ledger'
      BY <1>1, <1>6, <2>1, <2>2, <2>4 DEF OneTask, Ledger, Batched
    <2> QED
      BY <1>3, <1>4, <2>3, <2>5
  <1> QED
    BY <1>5, <1>6

LEMMA FailedStep == ASSUME IInv, NEW t \in Tasks, PollFailed(t) PROVE IInv'
  <1> USE DEF IInv, Types
  <1>1. /\ pc = "wait" /\ pc' = "wait" /\ run /\ task[t] = "failed"
        /\ task' = [task EXCEPT ![t] = "reaped"] /\ failed' = failed \union {t}
        /\ UNCHANGED <<ctx, path, size, j, num, run, dst>>
    BY DEF PollFailed
  <1>2. /\ task' \in [Tasks -> TaskStates]
        /\ \A x \in Tasks : x # t => task'[x] = task[x]
        /\ task'[t] = "reaped"
        /\ t < size /\ t \notin failed
        /\ t \in Busy /\ Busy' = Busy \ {t}
        /\ Cardinality(Busy) \in Nat /\ Cardinality(Busy') \in Nat
        /\ Cardinality(Busy) = Cardinality(Busy') + 1
        /\ Cardinality(failed) \in Nat
    BY <1>1, Reaped
  <1>3. Cardinality(failed') = Cardinality(failed) + 1
    BY <1>1, <1>2, TasksFinite, FS_AddElement
  <1>4. Waiting' /\ Between' /\ Submitting' /\ Results'
    BY <1>1, <1>2 DEF Waiting, Between, Submitting, Results, InCallback
  <1>5. Outputs'
    BY <1>1, <1>2 DEF Outputs, Polled
  <1>6. Ledger'
    BY <1>1, <1>2, <1>3 DEF Ledger, Batched
  <1>7. OneTask'
    BY <1>1, <1>2 DEF OneTask
  <1> QED
    BY <1>1, <1>2, <1>4, <1>5, <1>6, <1>7

\* The wait ends only on a batch path, with nothing busy and nothing failed.
LEMMA WaitOver ==
  ASSUME IInv, EndWait
  PROVE  /\ path # "ecOne" /\ Busy = {} /\ failed = {}
         /\ \A t \in Tasks : t < size => task[t] = "reaped"
  <1> USE DEF IInv, Types
  <1>1. path # "ecOne"
    BY DEF EndWait, OneTask
  <1>2. Cardinality(Busy) + Cardinality(failed) = 0
    BY <1>1 DEF EndWait, Ledger, Batched
  <1>3. Busy \in SUBSET Tasks /\ failed \in SUBSET Tasks
    BY BusyTasks
  <1>4. Busy = {} /\ failed = {}
    BY <1>2, <1>3, TasksFinite
  <1> QED
    BY <1>1, <1>4, BusyTasks DEF EndWait, Waiting

LEMMA OtherStep == ASSUME IInv, SubmitRefused \/ EndWait \/ Return PROVE IInv'
  <1> USE DEF IInv, Types, Pcs
  <1>1. Busy' = Busy
    BY DEF SubmitRefused, EndWait, Return, Busy, InFlight, Finished
  <1>2. CASE SubmitRefused
    BY <1>1, <1>2
    DEF SubmitRefused, Between, Submitting, Waiting, Ledger, OneTask, Results, Outputs, Polled
  <1>3. CASE EndWait
    BY <1>1, <1>3, WaitOver
    DEF EndWait, Between, Submitting, Waiting, Ledger, OneTask, Results, Outputs, Polled
  <1>4. CASE Return
    BY <1>1, <1>4 DEF Return, Between, Submitting, Waiting, Ledger, OneTask, Results, Outputs,
       Polled
  <1> QED
    BY <1>2, <1>3, <1>4

\* A finished task stays among the busy ones; its output is in its region.
LEMMA EngineStep == ASSUME IInv, NEW t \in Tasks, Complete(t) \/ Fail(t) PROVE IInv'
  <1> USE DEF IInv, Types
  <1>1. /\ task[t] = "inflight" /\ task'[t] \in {"ok", "failed"}
        /\ \A x \in Tasks : x # t => task'[x] = task[x]
        /\ task' \in [Tasks -> TaskStates]
        /\ UNCHANGED <<ctx, path, pc, size, j, num, run, failed>>
    BY DEF Complete, Fail, EngineCompletes, EngineFails, TaskStates
  <1>2. Busy' = Busy
    BY <1>1 DEF Busy, InFlight, Finished
  <1>3. dst' \in [Tasks -> Tasks \union {NoOutput}]
    <2>1. Region(t) \in Tasks
      BY BatchAssumption DEF Region, Tasks
    <2> QED
      BY <2>1 DEF Complete, Fail
  <1>4. Outputs'
    <2>1. CASE Complete(t)
      <3>1. t < size
        BY <1>1, <2>1, BusyTasks
        DEF Complete, Pcs, Between, Submitting, Waiting, InCallback, Tasks
      <3>2. CASE path = "hash"
        <4>1. dst' = [dst EXCEPT ![t] = t]
          BY <2>1, <3>2 DEF Complete, Region
        <4> QED
          BY <1>1, <3>1, <3>2, <4>1 DEF Outputs, Polled
      <3>3. CASE path # "hash"
        <4>1. dst' = [dst EXCEPT ![0] = t] /\ 0 \in Tasks /\ t # NoOutput
          BY <2>1, <3>3, BatchAssumption DEF Complete, Region, Tasks, NoOutput
        <4> QED
          BY <1>1, <3>1, <3>3, <4>1 DEF Outputs, Polled
      <3> QED
        BY <3>2, <3>3
    <2>2. CASE Fail(t)
      <3>1. dst' = dst /\ task'[t] = "failed"
        BY <2>2 DEF Fail, EngineFails
      <3> QED
        BY <1>1, <3>1 DEF Outputs, Polled
    <2> QED
      BY <2>1, <2>2
  <1>5. Submitting' /\ Waiting' /\ Results'
    BY <1>1 DEF Submitting, Waiting, Results, InCallback
  <1> QED
    BY <1>1, <1>2, <1>3, <1>4, <1>5 DEF Between, Ledger, Batched, OneTask

LEMMA NextIInv == IInv /\ [Next]_vars => IInv'
  <1> SUFFICES ASSUME IInv, [Next]_vars PROVE IInv'
    OBVIOUS
  <1>1. CASE UNCHANGED vars
    BY <1>1 DEF vars, IInv, Types, Between, Submitting, Waiting, Ledger, Batched, OneTask, Results,
       Outputs, Polled, Busy, InFlight, Finished
  <1>2. CASE Next
    BY <1>1, <1>2, CallStep, SubmitStep, CompletedStep, FailedStep, OtherStep, EngineStep
    DEF Next, Proxy, Ended
  <1> QED
    BY <1>1, <1>2

LEMMA Invariance == Spec => []IInv
  BY InitIInv, NextIInv, PTL DEF Spec

\* Type correctness, of the count in particular; the path is never changed.
THEOREM TypeCorrect == Spec => []TypeOK
  <1>1. Init => path \in Paths
    BY DEF Init
  <1>2. path \in Paths /\ [Next]_vars => (path \in Paths)'
    BY DEF Next, Proxy, Ended, Call, SubmitTask, SubmitRefused, PollCompleted, PollFailed, EndWait,
       Return, Complete, Fail, vars
  <1>3. IInv /\ path \in Paths => TypeOK
    <2> SUFFICES ASSUME Types, path \in Paths PROVE TypeOK
      BY DEF IInv
    <2>1. ctx \in CtxStates /\ run \in BOOLEAN
      BY Zenon DEF Types, CtxStates
    <2> QED
      BY <2>1, Zenon DEF Types, TypeOK
  <1> QED
    BY <1>1, <1>2, <1>3, Invariance, PTL DEF Spec

\* Whether the count is set before the submits or after them: while the caller
\* of a batch waits, it is the tasks to come and the failed ones.
THEOREM LedgerIsExact == Spec => []LedgerExact
  <1>1. IInv => LedgerExact
    BY DEF IInv, Ledger, Batched, LedgerExact
  <1> QED
    BY <1>1, Invariance, PTL

\* A wait ends without a failed task; the hasher finds the output of each task
\* of the call in its region, and the first region of the batch encoder holds
\* the output of some task of the call.
THEOREM ResultsAreReal == Spec => []ResultIsReal
  <1>1. IInv => ResultIsReal
    <2> SUFFICES ASSUME IInv, pc = "result" PROVE ResultIsReal
      BY DEF ResultIsReal
    <2> USE DEF IInv, Types
    <2>1. failed = {} /\ Busy = {} /\ 0 < size
      BY DEF Between, Results
    <2>2. \A t \in 0 .. size - 1 : t \in Tasks /\ task[t] = "reaped"
      BY BatchAssumption DEF Results, Tasks
    <2>3. path = "hash" => ReadsOwnOutput
      BY <2>1, <2>2 DEF Outputs, Polled, ReadsOwnOutput
    <2>4. path = "ecBatch" => dst[0] \in 0 .. size - 1
      <3>1. 0 \in Tasks /\ task[0] = "reaped"
        BY <2>1, <2>2
      <3> QED
        BY <2>1, <3>1 DEF Outputs, Polled, Tasks
    <2> QED
      BY <2>1, <2>3, <2>4 DEF ResultIsReal
  <1> QED
    BY <1>1, Invariance, PTL

-----------------------------------------------------------------------------
(* The refinement.                                                          *)


LEMMA CallTasks == ASSUME NEW n \in 1 .. BatchSize PROVE \A t \in 0 .. n - 1 : t \in Tasks
  BY BatchAssumption DEF Tasks

LEMMA BatchTasks == ASSUME Types PROVE batch \in SUBSET Tasks
  BY BatchAssumption DEF batch, Types, Tasks

\* A step inside a call that leaves what is computed and delivered alone is a
\* stutter of the abstract call, or the moment it breaks.
LEMMA StutterOrBreak ==
  ASSUME Called, Called', Broken => Broken',
         batch' = batch, computed' = computed, delivered' = delivered
  PROVE  [Offload!Next]_(Offload!vars)
  <1>1. CASE Broken'
    <2>1. Offload!Break
      BY <1>1 DEF Offload!Break
    <2> QED
      BY <2>1 DEF Offload!Next
  <1>2. CASE ~Broken'
    <2>1. Called' = Called /\ Broken' = Broken
      BY <1>2 DEF Called, Broken
    <2> QED
      BY <2>1 DEF Offload!vars
  <1> QED
    BY <1>1, <1>2

\* On the other paths there is no call to keep a promise to.
LEMMA OtherPaths ==
  ASSUME path' = path, ~Hashing PROVE [Offload!Next]_(Offload!vars)
  <1>1. Called = FALSE /\ Called' = FALSE /\ Broken = FALSE /\ Broken' = FALSE
    BY DEF Hashing, Called, Broken
  <1>2. batch = {} /\ batch' = {}
    BY DEF Hashing, batch
  <1>3. computed = {} /\ computed' = {} /\ delivered = {} /\ delivered' = {}
    BY <1>2 DEF computed, delivered
  <1> QED
    BY <1>1, <1>2, <1>3 DEF Offload!vars

\* Unless a task of the segment fails or is refused, the hash path delivers
\* through its own region what the engine has computed for each task of this
\* call, and a call returns only when everything has been delivered.
THEOREM Refinement == Spec => Offload!SafetySpec
  <1>1. Init => Offload!Init
    <2> SUFFICES ASSUME Init PROVE Offload!Init
      OBVIOUS
    <2>1. batch = {}
      BY DEF Init, batch
    <2>2. computed = {} /\ delivered = {}
      BY <2>1 DEF computed, delivered
    <2>3. Called = FALSE /\ Broken = FALSE
      BY DEF Init, Called, Broken
    <2> QED
      BY <2>1, <2>2, <2>3 DEF Offload!Init
  <1>2. ASSUME IInv, [Next]_vars PROVE [Offload!Next]_(Offload!vars)
    <2> USE <1>2 DEF IInv, Types
    <2>0. path' = path
      BY DEF Next, Proxy, Ended, Call, SubmitTask, SubmitRefused, PollCompleted, PollFailed,
         EndWait, Return, Complete, Fail, vars
    <2> SUFFICES ASSUME Hashing, Hashing' PROVE [Offload!Next]_(Offload!vars)
      BY <2>0, OtherPaths DEF Hashing
    <2>b. /\ batch = 0 .. size - 1 /\ batch' = 0 .. size' - 1
          /\ batch \in SUBSET Tasks /\ \A t \in batch : t < size
      BY BatchTasks DEF batch
    <2>1. CASE Call
      <3>1. \A t \in Tasks : task[t] \notin InCallback /\ task' = task
        BY <2>1, BusyTasks DEF Call, Between
      <3>2. size' \in 1 .. BatchSize
        BY <2>1, SizesOfPath DEF Call
      <3>3. batch' \in SUBSET Tasks
        <4>1. \A t \in 0 .. size' - 1 : t \in Tasks
          BY <3>2, CallTasks
        <4> QED
          BY <2>b, <4>1
      <3>4. computed' = {}
        <4>1. ~Polled'
          BY <2>1 DEF Call, Polled
        <4>2. \A t \in batch' : task'[t] # "ok"
          BY <3>1, <3>3 DEF InCallback
        <4> QED
          BY <4>1, <4>2 DEF computed
      <3>5. ~Called /\ Called' = TRUE /\ Broken' = FALSE
        BY <2>1, <3>1 DEF Call, Called, Broken, InCallback
      <3>6. delivered' = {}
        BY <2>1 DEF Call, delivered
      <3>7. Offload!Call
        BY <3>3, <3>4, <3>5, <3>6 DEF Offload!Call
      <3> QED
        BY <3>7 DEF Offload!Next
    <2>2. CASE SubmitTask
      <3>1. /\ task[j] \notin InCallback /\ task' = [task EXCEPT ![j] = "inflight"]
            /\ pc = "submit" /\ pc' \in {"submit", "wait"}
            /\ UNCHANGED <<size, failed>>
        BY <2>2, Zenon DEF SubmitTask, DocaSubmit, Submittable, AfterSubmit, InCallback
      <3>2. batch' = batch /\ delivered' = delivered
        BY <2>b, <3>1 DEF delivered
      <3>3. computed = {t \in batch : task[t] = "ok"}
        BY <3>1 DEF computed, Polled
      <3>4. pc' = "wait" => \A t \in batch : task'[t] # "reaped"
        <4>1. CASE j + 1 < size
          BY <2>2, <3>1, <4>1 DEF SubmitTask, AfterSubmit
        <4>2. CASE ~(j + 1 < size)
          <5>1. \A t \in batch : t \in Tasks /\ t <= j
            BY <2>b, <4>2, BatchAssumption DEF Tasks
          <5>2. \A t \in Tasks : t <= j => task'[t] \in InCallback
            BY <3>1 DEF Submitting, InCallback, Tasks
          <5> QED
            BY <5>1, <5>2 DEF InCallback
        <4> QED
          BY <4>1, <4>2
      <3>5. computed' = {t \in batch : task'[t] = "ok"}
        BY <3>1, <3>2, <3>4 DEF computed, Polled
      <3>6. \A t \in batch : task'[t] = "ok" <=> task[t] = "ok"
        BY <2>b, <3>1 DEF InCallback
      <3>7. computed' = computed
        BY <3>3, <3>5, <3>6
      <3>8. Broken => Broken'
        BY <3>1 DEF Broken, Submitting, InCallback
      <3>9. Called /\ Called'
        BY <3>1 DEF Called
      <3> QED
        BY <3>2, <3>7, <3>8, <3>9, StutterOrBreak
    <2>3. CASE SubmitRefused
      <3>1. UNCHANGED <<task, size, failed, dst>> /\ pc = "submit" /\ pc' = "exited"
        BY <2>3 DEF SubmitRefused
      <3>2. batch' = batch /\ Called /\ Called' /\ (Broken => Broken')
        BY <2>b, <3>1 DEF Called, Broken
      <3>3. computed' = computed /\ delivered' = delivered
        BY <3>1, <3>2 DEF computed, delivered, Polled
      <3> QED
        BY <3>2, <3>3, StutterOrBreak
    <2>4. ASSUME NEW t \in Tasks, PollCompleted(t) PROVE [Offload!Next]_(Offload!vars)
      <3>1. /\ pc = "wait" /\ pc' = "wait" /\ task[t] = "ok" /\ t \notin failed
            /\ task' = [task EXCEPT ![t] = "reaped"] /\ UNCHANGED <<size, failed>>
        BY <2>4 DEF PollCompleted, Waiting
      <3>2. batch' = batch /\ Called /\ Called' /\ delivered' = delivered
        BY <2>b, <3>1 DEF Called, delivered
      <3>3. computed' = computed
        BY <2>b, <3>1, <3>2 DEF computed, Polled
      <3>4. Broken => Broken'
        BY <3>1 DEF Broken
      <3> QED
        BY <3>2, <3>3, <3>4, StutterOrBreak
    <2>5. ASSUME NEW t \in Tasks, PollFailed(t) PROVE [Offload!Next]_(Offload!vars)
      <3>1. /\ pc = "wait" /\ pc' = "wait" /\ task[t] = "failed" /\ failed' = failed \union {t}
            /\ task' = [task EXCEPT ![t] = "reaped"] /\ UNCHANGED size
        BY <2>5 DEF PollFailed
      <3>2. batch' = batch /\ Called /\ Called' /\ delivered' = delivered /\ Broken'
        BY <2>b, <3>1 DEF Called, delivered, Broken
      <3>3. computed' = computed
        BY <2>b, <3>1, <3>2 DEF computed, Polled
      <3> QED
        BY <3>2, <3>3, StutterOrBreak
    <2>6. CASE EndWait
      <3>1. /\ Busy = {} /\ failed = {} /\ \A t \in Tasks : t < size => task[t] = "reaped"
        BY <2>6, WaitOver
      <3>2. pc = "wait" /\ pc' = "result" /\ UNCHANGED <<task, size, failed, dst>>
        BY <2>6 DEF EndWait
      <3>3. batch' = batch /\ computed = batch /\ computed' = batch
        BY <2>b, <3>1, <3>2 DEF computed, Polled
      <3>4. \A t \in batch : dst[t] = t
        BY <2>b, <3>1, <3>2 DEF Outputs, Polled, Hashing
      <3>5. delivered = {} /\ delivered' = batch
        BY <3>2, <3>3, <3>4 DEF delivered
      <3>6. Called /\ Called' = Called /\ Broken' = Broken
        BY <3>1, <3>2 DEF Called, Broken
      <3>7. Offload!Deliver(batch)
        BY <3>3, <3>5, <3>6 DEF Offload!Deliver
      <3> QED
        BY <2>b, <3>7 DEF Offload!Next
    <2>7. CASE Return
      <3>1. pc = "result" /\ pc' = "idle" /\ UNCHANGED <<task, size, dst, failed>>
        BY <2>7 DEF Return
      <3>2. \A t \in batch : task[t] = "reaped" /\ t \notin failed
        BY <2>b, <3>1 DEF Results
      <3>3. \A t \in batch : dst[t] = t
        BY <2>b, <3>1, <3>2 DEF Outputs, Polled, Hashing
      <3>4. batch' = batch /\ delivered = batch /\ delivered' = batch
        BY <2>b, <3>1, <3>3 DEF delivered
      <3>5. computed' = computed /\ Called /\ Called' = FALSE /\ Broken' = Broken
        BY <3>1, <3>4 DEF computed, Polled, Called, Broken
      <3>6. Offload!Return
        BY <3>4, <3>5 DEF Offload!Return
      <3> QED
        BY <3>6 DEF Offload!Next
    <2>8. ASSUME NEW t \in Tasks, Complete(t) \/ Fail(t) PROVE [Offload!Next]_(Offload!vars)
      <3>1. /\ task[t] = "inflight" /\ pc # "exited" /\ UNCHANGED <<pc, size, failed>>
            /\ \A x \in Tasks : x # t => task'[x] = task[x]
            /\ task'[t] = (IF Complete(t) THEN "ok" ELSE "failed")
        BY <2>8 DEF Complete, Fail, EngineCompletes, EngineFails
      <3>2. t \in Busy
        BY <3>1 DEF Busy, InFlight
      <3>3. pc \in {"submit", "wait"} /\ t < size
        BY <3>1, <3>2 DEF Pcs, Between, Submitting, Waiting, InCallback, Tasks
      <3>4. t \in batch /\ batch' = batch
        BY <2>b, <3>1, <3>3, BatchAssumption DEF Tasks
      <3>5. Called /\ Called' = Called /\ delivered' = delivered
        BY <3>1, <3>3, <3>4 DEF Called, delivered
      <3>6. CASE Complete(t)
        <4>1. t \notin computed /\ computed' = computed \union {t}
          BY <2>b, <3>1, <3>4, <3>6 DEF computed, Polled
        <4>2. Broken' = Broken
          BY <3>1, <3>6 DEF Broken
        <4>3. Offload!Compute(t)
          BY <3>4, <3>5, <4>1, <4>2 DEF Offload!Compute
        <4> QED
          BY <4>3 DEF Offload!Next
      <3>7. CASE ~Complete(t)
        <4>1. computed' = computed
          BY <2>b, <3>1, <3>4, <3>7 DEF computed, Polled
        <4>2. Broken'
          BY <3>1, <3>7 DEF Broken
        <4> QED
          BY <3>4, <3>5, <4>1, <4>2, StutterOrBreak
      <3> QED
        BY <3>6, <3>7
    <2>9. CASE Ended \/ UNCHANGED vars
      BY <2>9 DEF Ended, vars, Offload!vars, Hashing, batch, Called, Broken, computed, delivered,
         Polled
    <2> QED
      BY <2>1, <2>2, <2>3, <2>4, <2>5, <2>6, <2>7, <2>8, <2>9 DEF Next, Proxy
  <1> QED
    BY <1>1, <1>2, Invariance, PTL DEF Spec, Offload!SafetySpec
=============================================================================
