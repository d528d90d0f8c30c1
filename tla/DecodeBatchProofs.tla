-------------------------- MODULE DecodeBatchProofs --------------------------
(***************************************************************************)
(* Proofs about DecodeBatch, for every batch size, the three modes, and    *)
(* with or without faults: the ledger of the polling loop is exact, and    *)
(* decode_Bench() implements BatchOffload.                                 *)
(*                                                                         *)
(* LedgerExact is strengthened with which tasks have been submitted        *)
(* (Frontier) and which results have been copied (Copied), as functions of *)
(* the program counter and of j, and with what cannot have happened as     *)
(* long as nothing is lost (NoLoss).                                       *)
(***************************************************************************)
EXTENDS DecodeBatch, FiniteSetTheorems, TLAPS

\* The tasks doca_task_submit() has been called for so far.
SubmittedSoFar ==
  IF pc = "submit" THEN {t \in Tasks : t < j}
  ELSE IF Naive /\ pc \in {"poll", "copyDst"} THEN {t \in Tasks : t <= j}
  ELSE Tasks

NoLoss   == lost = 0 => pc # "crashed" /\ \A t \in Tasks : task[t] \notin {"failed", "freed"}
Frontier == \A t \in Tasks :
              /\ t \notin SubmittedSoFar => task[t] = "ready"
              /\ lost = 0 /\ t \in SubmittedSoFar => task[t] # "ready"
Copied   == appDst = IF pc \in {"reset", "done"} THEN Tasks
                     ELSE IF Naive THEN {t \in Tasks : t < j} ELSE {}

Types ==
  /\ task \in [Tasks -> TaskStates]
  /\ mode \in Modes
  /\ pc \in Pcs
  /\ j \in Tasks
  /\ num \in Nat
  /\ lost \in Nat
  /\ run \in BOOLEAN

IInv == Types /\ NoLoss /\ Frontier /\ Copied /\ LedgerExact

\* The healthy tasks are tasks of the batch, finitely many.
LEMMA HealthyFinite ==
  /\ IsFiniteSet(Healthy)
  /\ Cardinality(Healthy) \in Nat
  /\ Cardinality(Healthy) = 0 <=> Healthy = {}
<1>1. IsFiniteSet(Tasks)
  BY FS_Interval, BatchSizeAssumption DEF Tasks
<1>2. IsFiniteSet(Healthy)
  BY <1>1, FS_Subset DEF Healthy
<1>3. QED
  BY <1>2, FS_CardinalityType, FS_EmptySet

LEMMA InitIInv == Init => IInv
<1> SUFFICES ASSUME Init PROVE IInv
  OBVIOUS
<1> USE DEF Init
<1>1. 0 \in Tasks
  BY BatchSizeAssumption DEF Tasks
<1>2. Healthy = {} /\ Cardinality(Healthy) = 0
  BY FS_EmptySet DEF Healthy
<1>3. Types /\ NoLoss
  BY <1>1 DEF Types, TaskStates, Pcs, NoLoss
<1>4. Frontier /\ Copied
  BY DEF Frontier, SubmittedSoFar, Copied, Tasks
<1>5. QED
  BY <1>2, <1>3, <1>4 DEF IInv, LedgerExact

\* What follows doca_task_submit(): the frontier moves over task j.
LEMMA CountSubmitMoves ==
  ASSUME Types, Copied, pc = "submit", CountSubmit, UNCHANGED <<mode, appDst>>
  PROVE  /\ run' = TRUE /\ num' = num + 1
         /\ pc' \in {"submit", "poll"} /\ j' \in Tasks
         /\ SubmittedSoFar' = SubmittedSoFar \union {j}
         /\ Copied'
<1> USE DEF Types
<1>1. run' = TRUE /\ num' = num + 1
  BY DEF CountSubmit
<1>2. /\ pc' \in {"submit", "poll"} /\ j' \in Tasks
      /\ Naive => pc' = "poll" /\ j' = j
      /\ ~Naive /\ j + 1 < BatchSize => pc' = "submit" /\ j' = j + 1
      /\ ~Naive /\ ~(j + 1 < BatchSize) => pc' = "poll" /\ j' = 0
  BY BatchSizeAssumption DEF CountSubmit, Tasks
<1>3. Naive' <=> Naive
  BY DEF Naive
<1>4. SubmittedSoFar' = SubmittedSoFar \union {j}
  <2>1. SubmittedSoFar = {t \in Tasks : t < j}
    BY DEF SubmittedSoFar
  <2>2. CASE Naive
    BY <2>1, <2>2, <1>2, <1>3 DEF SubmittedSoFar, Tasks
  <2>3. CASE ~Naive /\ j + 1 < BatchSize
    BY <2>1, <2>3, <1>2, <1>3 DEF SubmittedSoFar, Tasks
  <2>4. CASE ~Naive /\ ~(j + 1 < BatchSize)
    BY <2>1, <2>4, <1>2, <1>3, BatchSizeAssumption DEF SubmittedSoFar, Tasks
  <2>5. QED
    BY <2>2, <2>3, <2>4
<1>5. Copied'
  BY <1>2, <1>3 DEF Copied
<1>6. QED
  BY <1>1, <1>2, <1>4, <1>5

\* A submit makes task j healthy: the count grows by one, the flag is raised.
LEMMA SubmitStep == ASSUME IInv, SubmitTask PROVE IInv'
<1> USE DEF IInv, Types, SubmitTask
<1>1. task[j] = "ready" /\ j \notin Healthy
  BY DEF Frontier, SubmittedSoFar, Healthy, Tasks
<1>2. /\ \A t \in Tasks : task'[t] = IF t = j THEN "inflight" ELSE task[t]
      /\ task' \in [Tasks -> TaskStates]
  BY DEF DocaSubmit, TaskStates
<1>3. /\ run' = TRUE /\ num' = num + 1
      /\ pc' \in {"submit", "poll"} /\ j' \in Tasks
      /\ SubmittedSoFar' = SubmittedSoFar \union {j}
      /\ Copied'
  BY CountSubmitMoves
<1>4. Healthy' = Healthy \union {j}
  BY <1>2 DEF Healthy
<1>5. Cardinality(Healthy') = Cardinality(Healthy) + 1 /\ Cardinality(Healthy) \in Nat
  BY <1>1, <1>4, HealthyFinite, FS_AddElement
<1>6. LedgerExact'
  BY <1>3, <1>5 DEF LedgerExact
<1>7. NoLoss' /\ Frontier'
  BY <1>2, <1>3 DEF NoLoss, Frontier
<1>8. QED
  BY <1>2, <1>3, <1>6, <1>7 DEF Pcs

\* A refusal is counted by num_remaining_tasks and by lost.
LEMMA RefusedStep == ASSUME IInv, SubmitRefused PROVE IInv'
<1> USE DEF IInv, Types, SubmitRefused
<1>1. /\ run' = TRUE /\ num' = num + 1
      /\ pc' \in {"submit", "poll"} /\ j' \in Tasks
      /\ SubmittedSoFar' = SubmittedSoFar \union {j}
      /\ Copied'
  BY CountSubmitMoves
<1>2. Healthy' = Healthy /\ Cardinality(Healthy) \in Nat
  BY HealthyFinite DEF Healthy
<1>3. LedgerExact'
  BY <1>1, <1>2 DEF LedgerExact
<1>4. NoLoss' /\ Frontier'
  BY <1>1 DEF NoLoss, Frontier
<1>5. QED
  BY <1>1, <1>3, <1>4 DEF Pcs

\* A completion takes one healthy task away; the flag is cleared with the
\* last one, if nothing is lost.
LEMMA CompletedStep == ASSUME IInv, NEW t \in Tasks, PollCompleted(t) PROVE IInv'
<1> USE DEF IInv, Types, PollCompleted
<1>1. t \in Healthy
  BY DEF Healthy
<1>2. /\ \A x \in Tasks : task'[x] = IF x = t THEN "reaped" ELSE task[x]
      /\ task' \in [Tasks -> TaskStates]
  BY DEF TaskStates
<1>3. Healthy' = Healthy \ {t}
  BY <1>2 DEF Healthy
<1>4. Cardinality(Healthy') = Cardinality(Healthy) - 1 /\ Cardinality(Healthy) \in Nat
  BY <1>1, <1>3, HealthyFinite, FS_RemoveElement
<1>5. Cardinality(Healthy') \in Nat /\ (Cardinality(Healthy') = 0 <=> Healthy' = {})
  <2>1. IsFiniteSet(Healthy')
    BY <1>3, HealthyFinite, FS_RemoveElement
  <2>2. QED
    BY <2>1, FS_CardinalityType, FS_EmptySet
<1>6. num' = Cardinality(Healthy') + lost' /\ num' \in Nat
  BY <1>4, <1>5 DEF LedgerExact
<1>7. NoLoss'
  BY <1>2 DEF NoLoss
<1>8. run' = FALSE => Busy' = {}
  <2> SUFFICES ASSUME run' = FALSE PROVE Busy' = {}
    OBVIOUS
  <2>1. num' = 0
    OBVIOUS
  <2>2. lost' = 0 /\ Healthy' = {}
    BY <2>1, <1>5, <1>6
  <2>3. QED
    BY <2>2, <1>2, <1>7 DEF NoLoss, Healthy, Busy, InFlight, Finished
<1>9. run' => num' > 0
  BY <1>6
<1>10. LedgerExact'
  BY <1>6, <1>8, <1>9 DEF LedgerExact
<1>11. SubmittedSoFar' = SubmittedSoFar
  BY DEF SubmittedSoFar, Naive
<1>12. Frontier'
  BY <1>2, <1>11 DEF Frontier, SubmittedSoFar, Tasks
<1>13. Copied'
  BY DEF Copied, Naive
<1>14. QED
  BY <1>2, <1>6, <1>7, <1>10, <1>12, <1>13

\* A failure that is reported moves a task from "failed" to "freed".
LEMMA FailedStep == ASSUME IInv, NEW t \in Tasks, PollFailed(t) PROVE IInv'
<1> USE DEF IInv, Types, PollFailed
<1>1. /\ \A x \in Tasks : task'[x] = IF x = t THEN "freed" ELSE task[x]
      /\ task' \in [Tasks -> TaskStates]
  BY DEF TaskStates
<1>2. lost # 0 /\ lost' = lost
  BY DEF NoLoss
<1>3. Healthy' = Healthy
  BY <1>1 DEF Healthy
<1>4. LedgerExact'
  BY <1>3 DEF LedgerExact
<1>5. pc' \in Pcs /\ NoLoss'
  BY <1>2 DEF Pcs, NoLoss
<1>6. Frontier'
  BY <1>1, <1>2 DEF Frontier, SubmittedSoFar, Naive
<1>7. Copied'
  BY DEF Copied, Naive
<1>8. QED
  BY <1>1, <1>4, <1>5, <1>6, <1>7

\* The context becomes idle: no task is busy.
LEMMA IdleStep == ASSUME IInv, PollToIdle PROVE IInv'
<1> USE DEF IInv, Types, PollToIdle, Drained
<1>1. Busy' = {} /\ Healthy' = Healthy
  BY DEF Busy, InFlight, Finished, Healthy
<1>2. LedgerExact' /\ NoLoss'
  BY <1>1 DEF LedgerExact, NoLoss
<1>3. Frontier' /\ Copied'
  BY DEF Frontier, SubmittedSoFar, Copied, Naive
<1>4. QED
  BY <1>2, <1>3

\* The engine finishes a task, well or badly, when some task is busy.
LEMMA EngineStep == ASSUME IInv, NEW t \in Tasks, Complete(t) \/ Fail(t) PROVE IInv'
<1> USE DEF IInv, Types
<1>1. /\ task[t] = "inflight" /\ task' \in [Tasks -> TaskStates]
      /\ UNCHANGED <<mode, ctx, pc, j, num, run, appDst>>
  BY DEF Complete, Fail, EngineCompletes, EngineFails, TaskStates
<1>2. t \in Healthy /\ t \in Busy
  BY <1>1 DEF Healthy, Busy, InFlight
<1>3. pc \in {"submit", "poll", "crashed"} /\ (pc = "poll" => run /\ num > 0)
  BY <1>2 DEF LedgerExact, Pcs
<1>4. SubmittedSoFar' = SubmittedSoFar /\ Copied'
  BY <1>1 DEF SubmittedSoFar, Copied, Naive
<1>5. CASE Complete(t)
  <2>1. \A x \in Tasks : task'[x] = IF x = t THEN "ok" ELSE task[x]
    BY <1>5 DEF Complete, EngineCompletes
  <2>2. Healthy' = Healthy /\ lost' = lost
    BY <1>5, <1>1, <2>1 DEF Healthy, Complete
  <2>3. LedgerExact' /\ NoLoss' /\ Frontier'
    BY <1>1, <1>3, <1>4, <2>1, <2>2 DEF LedgerExact, NoLoss, Frontier
  <2>4. QED
    BY <1>1, <1>4, <2>2, <2>3
<1>6. CASE Fail(t)
  <2>1. \A x \in Tasks : task'[x] = IF x = t THEN "failed" ELSE task[x]
    BY <1>6 DEF Fail, EngineFails
  <2>2. Healthy' = Healthy \ {t} /\ lost' = lost + 1
    BY <1>6, <1>1, <2>1 DEF Healthy, Fail
  <2>3. Cardinality(Healthy') = Cardinality(Healthy) - 1 /\ Cardinality(Healthy) \in Nat
    BY <1>2, <2>2, HealthyFinite, FS_RemoveElement
  <2>4. LedgerExact' /\ NoLoss' /\ Frontier'
    BY <1>1, <1>3, <1>4, <2>1, <2>2, <2>3 DEF LedgerExact, NoLoss, Frontier
  <2>5. QED
    BY <1>1, <1>4, <2>2, <2>4
<1>7. QED
  BY <1>5, <1>6

\* The remaining steps move the program counter with no task busy.
LEMMA CopyStep == ASSUME IInv, EndPoll \/ CopyOneDst \/ CopyAllDst \/ Reset PROVE IInv'
<1> USE DEF IInv, Types
<1>1. /\ UNCHANGED <<ctx, task, mode, num, run, lost>>
      /\ Busy' = Busy /\ Healthy' = Healthy /\ (Naive' <=> Naive)
  BY DEF EndPoll, CopyOneDst, CopyAllDst, Reset, Busy, InFlight, Finished, Healthy, Naive
<1>2. Busy = {}
  BY DEF EndPoll, CopyOneDst, CopyAllDst, Reset, LedgerExact
<1>3. pc' \in {"submit", "copyDst", "reset", "done"} /\ j' \in Tasks
  BY BatchSizeAssumption DEF EndPoll, CopyOneDst, CopyAllDst, Reset, Tasks
<1>4. NoLoss' /\ LedgerExact'
  BY <1>1, <1>2, <1>3 DEF NoLoss, LedgerExact
<1>5. Frontier' /\ Copied'
  <2>1. CASE EndPoll
    BY <2>1, <1>1 DEF EndPoll, Frontier, SubmittedSoFar, Copied
  <2>2. CASE CopyOneDst /\ j + 1 < BatchSize
    BY <2>2, <1>1 DEF CopyOneDst, Frontier, SubmittedSoFar, Copied, Tasks
  <2>3. CASE CopyOneDst /\ ~(j + 1 < BatchSize)
    BY <2>3, <1>1, BatchSizeAssumption DEF CopyOneDst, Frontier, SubmittedSoFar, Copied, Tasks
  <2>4. CASE CopyAllDst
    BY <2>4, <1>1 DEF CopyAllDst, Frontier, SubmittedSoFar, Copied
  <2>5. CASE Reset
    BY <2>5, <1>1 DEF Reset, Frontier, SubmittedSoFar, Copied
  <2>6. QED
    BY <2>1, <2>2, <2>3, <2>4, <2>5
<1>6. QED
  BY <1>1, <1>3, <1>4, <1>5 DEF Pcs

LEMMA NextIInv == IInv /\ [Next]_vars => IInv'
<1> SUFFICES ASSUME IInv, [Next]_vars PROVE IInv'
  OBVIOUS
<1>1. CASE Bench
  BY <1>1, SubmitStep, RefusedStep, CompletedStep, FailedStep, IdleStep, CopyStep DEF Bench
<1>2. CASE \E t \in Tasks : Complete(t) \/ Fail(t)
  BY <1>2, EngineStep
<1>3. CASE Ended \/ UNCHANGED vars
  <2>1. UNCHANGED vars
    BY <1>3 DEF Ended
  <2>2. Types' /\ NoLoss' /\ Copied'
    BY <2>1 DEF vars, IInv, Types, NoLoss, Copied, Naive
  <2>3. Frontier'
    BY <2>1 DEF vars, IInv, Frontier, SubmittedSoFar, Naive
  <2>4. LedgerExact'
    BY <2>1 DEF vars, IInv, LedgerExact, Busy, InFlight, Finished, Healthy
  <2>5. QED
    BY <2>2, <2>3, <2>4 DEF IInv
<1>4. QED
  BY <1>1, <1>2, <1>3 DEF Next

LEMMA Invariance == Spec => []IInv
<1>1. QED
  BY InitIInv, NextIInv, PTL DEF Spec

-----------------------------------------------------------------------------
(* TypeOK: the count stays within the batch.                               *)

\* A task that was submitted and has not failed.
Sound == {t \in Tasks : task[t] \in {"inflight", "ok", "reaped"}}

\* Every call of doca_task_submit() adds to the sound tasks or to the lost ones,
\* and a failure moves one from the former to the latter.
Budget == ctx \in CtxStates /\ Cardinality(Sound) + lost <= Cardinality(SubmittedSoFar)

LEMMA PartsOfBatch ==
  ASSUME NEW S \in SUBSET Tasks
  PROVE  IsFiniteSet(S) /\ Cardinality(S) \in Nat /\ Cardinality(S) <= BatchSize
<1>1. IsFiniteSet(Tasks) /\ Cardinality(Tasks) = BatchSize
  BY FS_Interval, BatchSizeAssumption DEF Tasks
<1>2. QED
  BY <1>1, FS_Subset, FS_CardinalityType

LEMMA PartOfPart ==
  ASSUME NEW S \in SUBSET Tasks, NEW T \in SUBSET S
  PROVE  Cardinality(T) <= Cardinality(S)
  BY PartsOfBatch, FS_Subset

LEMMA BudgetStep == ASSUME IInv, Budget, [Next]_vars PROVE Budget'
<1> USE DEF IInv, Types, Budget
<1>a. Sound \in SUBSET Tasks /\ Sound' \in SUBSET Tasks
  BY DEF Sound
<1>b. SubmittedSoFar \in SUBSET Tasks /\ SubmittedSoFar' \in SUBSET Tasks
  BY DEF SubmittedSoFar
<1>c. /\ Cardinality(Sound) \in Nat /\ Cardinality(Sound') \in Nat
      /\ Cardinality(SubmittedSoFar) \in Nat /\ Cardinality(SubmittedSoFar') \in Nat
  BY <1>a, <1>b, PartsOfBatch
\* Nothing is submitted again: the sound and the lost stay within the budget.
<1>d. ASSUME Cardinality(Sound') + lost' <= Cardinality(Sound) + lost,
             lost' \in Nat, ctx' \in CtxStates,
             SubmittedSoFar \subseteq SubmittedSoFar'
      PROVE  Budget'
  <2>1. Cardinality(SubmittedSoFar) <= Cardinality(SubmittedSoFar')
    BY <1>b, <1>d, PartOfPart
  <2>2. QED
    BY <1>c, <1>d, <2>1
<1>1. CASE SubmitTask \/ SubmitRefused
  <2>1. SubmittedSoFar' = SubmittedSoFar \union {j} /\ j \notin SubmittedSoFar /\ ctx' = ctx
    <3>1. j \notin SubmittedSoFar
      BY <1>1 DEF SubmitTask, SubmitRefused, SubmittedSoFar, Tasks
    <3>2. QED
      BY <1>1, <3>1, CountSubmitMoves DEF SubmitTask, SubmitRefused
  <2>2. Cardinality(SubmittedSoFar') = Cardinality(SubmittedSoFar) + 1
    BY <1>b, <2>1, PartsOfBatch, FS_AddElement
  <2>3. CASE SubmitTask
    <3>1. task' = [task EXCEPT ![j] = "inflight"] /\ lost' = lost /\ task[j] = "ready"
      BY <2>1, <2>3 DEF SubmitTask, DocaSubmit, Frontier
    <3>2. Sound' = Sound \union {j} /\ j \notin Sound
      BY <3>1 DEF Sound
    <3>3. Cardinality(Sound') = Cardinality(Sound) + 1
      BY <1>a, <3>2, PartsOfBatch, FS_AddElement
    <3>4. QED
      BY <1>c, <2>1, <2>2, <3>1, <3>3
  <2>4. CASE SubmitRefused
    <3>1. Sound' = Sound /\ lost' = lost + 1
      BY <2>4 DEF SubmitRefused, Sound
    <3>2. QED
      BY <1>c, <2>1, <2>2, <3>1
  <2>5. QED
    BY <1>1, <2>3, <2>4
<1>2. ASSUME NEW t \in Tasks, PollCompleted(t) \/ PollFailed(t) \/ Complete(t) PROVE Budget'
  <2>1. Sound' = Sound /\ lost' = lost /\ ctx' \in CtxStates
    BY <1>2 DEF PollCompleted, PollFailed, Complete, EngineCompletes, DocaStop, CtxStates, Sound
  <2>2. SubmittedSoFar \subseteq SubmittedSoFar'
    BY <1>2 DEF PollCompleted, PollFailed, Complete, SubmittedSoFar, Naive
  <2>3. QED
    BY <1>c, <1>d, <2>1, <2>2
<1>3. ASSUME NEW t \in Tasks, Fail(t) PROVE Budget'
  <2>1. /\ task[t] = "inflight" /\ task' = [task EXCEPT ![t] = "failed"]
        /\ lost' = lost + 1 /\ UNCHANGED <<mode, ctx, pc, j>>
    BY <1>3 DEF Fail, EngineFails
  <2>2. Sound' = Sound \ {t} /\ t \in Sound
    BY <2>1 DEF Sound
  <2>3. Cardinality(Sound') = Cardinality(Sound) - 1
    BY <1>a, <2>2, PartsOfBatch, FS_RemoveElement
  <2>4. SubmittedSoFar' = SubmittedSoFar
    BY <2>1 DEF SubmittedSoFar, Naive
  <2>5. QED
    BY <1>c, <1>d, <2>1, <2>3, <2>4
<1>4. CASE PollToIdle \/ EndPoll \/ CopyOneDst \/ CopyAllDst \/ Reset \/ Ended \/ UNCHANGED vars
  <2>1. Sound' = Sound /\ lost' = lost /\ ctx' \in CtxStates
    BY <1>4 DEF PollToIdle, EndPoll, CopyOneDst, CopyAllDst, Reset, Ended, vars, Sound, CtxStates
  <2>2. SubmittedSoFar \subseteq SubmittedSoFar'
    <3>1. CASE CopyOneDst
      BY <3>1, BatchSizeAssumption DEF CopyOneDst, SubmittedSoFar, Naive, Tasks
    <3>2. CASE ~CopyOneDst
      BY <1>4, <3>2 DEF PollToIdle, EndPoll, CopyAllDst, Reset, Ended, vars, SubmittedSoFar, Naive
    <3>3. QED
      BY <3>1, <3>2
  <2>3. QED
    BY <1>c, <1>d, <2>1, <2>2
<1>5. QED
  BY <1>1, <1>2, <1>3, <1>4 DEF Next, Bench

\* Every variable keeps its type; in particular neither the count nor the
\* number of lost tasks ever exceeds the batch, in any mode.
THEOREM TypeCorrect == Spec => []TypeOK
<1>1. Init => Budget
  <2>1. ASSUME Init PROVE Sound = {} /\ SubmittedSoFar = {} /\ lost = 0 /\ ctx \in CtxStates
    BY <2>1 DEF Init, Sound, SubmittedSoFar, Tasks, CtxStates
  <2>2. QED
    BY <2>1, FS_EmptySet DEF Budget
<1>2. IInv /\ Budget => TypeOK
  <2> SUFFICES ASSUME IInv, Budget PROVE TypeOK
    OBVIOUS
  <2>1. Healthy \in SUBSET Sound /\ Sound \in SUBSET Tasks /\ SubmittedSoFar \in SUBSET Tasks
    BY DEF Healthy, Sound, SubmittedSoFar
  <2>2. /\ Cardinality(Healthy) <= Cardinality(Sound)
        /\ Cardinality(Healthy) \in Nat /\ Cardinality(Sound) \in Nat
        /\ Cardinality(SubmittedSoFar) \in Nat /\ Cardinality(SubmittedSoFar) <= BatchSize
    BY <2>1, PartOfPart, PartsOfBatch
  <2>3. num \in 0 .. BatchSize /\ lost \in 0 .. BatchSize
    BY <2>2, BatchSizeAssumption DEF IInv, Types, LedgerExact, Budget
  <2>4. appDst \subseteq Tasks
    BY DEF IInv, Copied
  <2>5. QED
    BY <2>3, <2>4 DEF IInv, Types, Budget, TypeOK
<1>3. QED
  BY <1>1, <1>2, Invariance, InitIInv, NextIInv, BudgetStep, PTL DEF Spec

-----------------------------------------------------------------------------

\* num_remaining_tasks counts the completions still to come and the tasks
\* lost to a failure, and the polling loop is never left with a callback
\* still to come (the callbacks and the loops of decode_Bench).
THEOREM LedgerIsExact == Spec => []LedgerExact
<1>1. IInv => LedgerExact
  BY DEF IInv
<1>2. QED
  BY <1>1, Invariance, PTL

\* The three modes of decode_Bench keep the promise of a batch call: unless a
\* task fails or is refused nothing is delivered before it is computed, and
\* the function returns only when everything has been delivered.
THEOREM Refinement == Spec => Offload!SafetySpec
<1> USE DEF Offload!vars, computed
<1>1. Init => Offload!Init
  BY DEF Init, Offload!Init
<1>2. ASSUME IInv, [Next]_vars PROVE [Offload!Next]_(Offload!vars)
  <2> USE <1>2 DEF IInv, Types
  <2>1. CASE SubmitTask
    <3>1. task[j] = "ready" /\ task' = [task EXCEPT ![j] = "inflight"] /\ pc' # "done"
      BY <2>1 DEF SubmitTask, DocaSubmit, CountSubmit, Frontier, SubmittedSoFar, Tasks
    <3>2. computed' = computed
      BY <3>1
    <3>3. QED
      BY <2>1, <3>1, <3>2 DEF SubmitTask
  <2>2. CASE SubmitRefused
    <3>1. Offload!Break
      BY <2>2 DEF SubmitRefused, CountSubmit, Offload!Break
    <3>2. QED
      BY <3>1 DEF Offload!Next
  <2>3. CASE \E t \in Tasks : PollCompleted(t)
    BY <2>3 DEF PollCompleted
  <2>4. CASE \E t \in Tasks : PollFailed(t)
    BY <2>4 DEF PollFailed
  <2>5. CASE PollToIdle \/ EndPoll
    BY <2>5 DEF PollToIdle, EndPoll
  <2>6. CASE CopyOneDst
    <3>1. lost = 0 => task[j] = "reaped"
      BY <2>6 DEF CopyOneDst, Frontier, SubmittedSoFar, NoLoss, LedgerExact, Busy, InFlight,
         Finished, TaskStates, Tasks
    <3>2. Offload!Deliver({j}) /\ {j} \in SUBSET Tasks
      BY <2>6, <3>1 DEF CopyOneDst, Offload!Deliver
    <3>3. QED
      BY <3>2 DEF Offload!Next
  <2>7. CASE CopyAllDst
    <3>1. lost = 0 => \A t \in Tasks : task[t] = "reaped"
      BY <2>7 DEF CopyAllDst, Frontier, SubmittedSoFar, NoLoss, LedgerExact, Busy, InFlight,
         Finished, TaskStates
    <3>2. Offload!Deliver(Tasks)
      BY <2>7, <3>1 DEF CopyAllDst, Offload!Deliver, Copied
    <3>3. QED
      BY <3>2 DEF Offload!Next
  <2>8. CASE Reset
    <3>1. Offload!Return
      BY <2>8 DEF Reset, Offload!Return, Copied
    <3>2. QED
      BY <3>1 DEF Offload!Next
  <2>9. ASSUME NEW t \in Tasks, Complete(t) \/ Fail(t)
        PROVE  [Offload!Next]_(Offload!vars)
    <3>1. task[t] = "inflight" /\ pc # "done"
      BY <2>9 DEF Complete, Fail, EngineCompletes, EngineFails, LedgerExact, Busy, InFlight
    <3>2. CASE Complete(t)
      <4>1. t \notin computed /\ computed' = computed \union {t}
        BY <3>1, <3>2 DEF Complete, EngineCompletes
      <4>2. Offload!Compute(t)
        BY <3>1, <3>2, <4>1 DEF Complete, Offload!Compute
      <4>3. QED
        BY <4>2 DEF Offload!Next
    <3>3. CASE Fail(t)
      <4>1. computed' = computed
        BY <3>1, <3>3 DEF Fail, EngineFails
      <4>2. Offload!Break
        BY <3>1, <3>3, <4>1 DEF Fail, Offload!Break
      <4>3. QED
        BY <4>2 DEF Offload!Next
    <3>4. QED
      BY <2>9, <3>2, <3>3
  <2>10. CASE Ended \/ UNCHANGED vars
    BY <2>10 DEF Ended, vars
  <2>11. QED
    BY <2>1, <2>2, <2>3, <2>4, <2>5, <2>6, <2>7, <2>8, <2>9, <2>10 DEF Next, Bench
<1>3. QED
  BY <1>1, <1>2, Invariance, PTL DEF Spec, Offload!SafetySpec
=============================================================================
