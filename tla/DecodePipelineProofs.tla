------------------------ MODULE DecodePipelineProofs ------------------------
(***************************************************************************)
(* Proofs about DecodePipeline, for every batch size and with or without   *)
(* faults: type correctness, the bound on num_remaining_tasks, and that no *)
(* task is submitted twice.                                                *)
(*                                                                         *)
(* NeverOvercounts is not inductive by itself.  A decrement that was       *)
(* loaded before an increment and is stored after it needs the bound on    *)
(* the loaded value (RegBound); an increment adds one to the right-hand    *)
(* side only if its task was not counted before (NotCountedYet), and a     *)
(* decrement only if its task was not decremented before (Decremented),    *)
(* which holds because a reaped task is never submitted again              *)
(* (NotSubmittedYet).                                                      *)
(***************************************************************************)
EXTENDS DecodePipeline, FiniteSetTheorems, TLAPS

\* The iterations of thread th whose task has not been submitted, counted.
ToSubmit(th) ==
  {i \in 0 .. PerThread - 1 :
     \/ pc[th] \in {"none", "submit"} /\ i >= idx[th]
     \/ pc[th] \in {"add", "setRun"} /\ i > idx[th]}
ToCount(th) ==
  {i \in 0 .. PerThread - 1 :
     \/ pc[th] \in {"none", "submit", "add"} /\ i >= idx[th]
     \/ pc[th] = "setRun" /\ i > idx[th]}

InLoop ==
  \A th \in Threads : /\ pc[th] \in {"submit", "add", "setRun"} => idx[th] < PerThread
                      /\ pc[th] = "none" => idx[th] = 0
Creating ==
  /\ mainPc = "create0" => pc[0] = "none"
  /\ mainPc \in {"create0", "create1"} => pc[1] = "none"
NotSubmittedYet == \A th \in Threads : \A i \in ToSubmit(th) : task[TaskOf(th, i)] = "ready"
NotCountedYet   == \A th \in Threads : \A i \in ToCount(th) : TaskOf(th, i) \notin counted
Decremented ==
  /\ \A t \in uncounted : task[t] = "reaped"
  /\ mainPc = "store" => task[cbTask] = "reaped" /\ cbTask \notin uncounted
Accounted ==
  /\ \A t \in Tasks : task[t] = "reaped" => t \in uncounted \/ (mainPc = "store" /\ cbTask = t)
  /\ \A t \in counted : task[t] # "ready"
  /\ \A th \in Threads : pc[th] = "add" => task[TaskOf(th, idx[th])] # "ready"
RegBound ==
  mainPc = "store" => reg <= Cardinality(counted) - Cardinality(uncounted)

IInv ==
  /\ TypeOK
  /\ InLoop
  /\ Creating
  /\ NotSubmittedYet
  /\ NotCountedYet
  /\ Decremented
  /\ Accounted
  /\ RegBound
  /\ NeverOvercounts

-----------------------------------------------------------------------------

\* The halves of the batch lie inside the batch and do not overlap.
LEMMA HalvesDisjoint ==
  /\ PerThread \in Nat
  /\ \A th \in Threads, i \in 0 .. PerThread - 1 : TaskOf(th, i) \in Tasks
  /\ \A th1, th2 \in Threads, i, j \in 0 .. PerThread - 1 :
        TaskOf(th1, i) = TaskOf(th2, j) => th1 = th2 /\ i = j
<1>1. PerThread \in Nat /\ 2 * PerThread <= BatchSize
  BY BatchSizeAssumption DEF PerThread
<1>2. \A i : TaskOf(0, i) = 0 * PerThread + i /\ TaskOf(1, i) = 1 * PerThread + i
  BY DEF TaskOf
<1>3. \A i \in 0 .. PerThread - 1 : TaskOf(0, i) = i /\ TaskOf(1, i) = PerThread + i
  BY <1>1, <1>2
<1>4. QED
  BY <1>1, <1>3, BatchSizeAssumption DEF Threads, Tasks

\* Sets of tasks are finite and their cardinality grows by one with each new
\* element.
LEMMA TaskSetsFinite ==
  ASSUME NEW S, S \subseteq Tasks
  PROVE  /\ IsFiniteSet(S)
         /\ Cardinality(S) \in Nat
         /\ \A t \in Tasks \ S : Cardinality(S \union {t}) = Cardinality(S) + 1
<1>1. IsFiniteSet(Tasks)
  BY FS_Interval, BatchSizeAssumption DEF Tasks
<1>2. IsFiniteSet(S)
  BY <1>1, FS_Subset
<1>3. Cardinality(S) \in Nat
  BY <1>2, FS_CardinalityType
<1>4. \A t \in Tasks \ S : Cardinality(S \union {t}) = Cardinality(S) + 1
  BY <1>2, FS_AddElement
<1>5. QED
  BY <1>2, <1>3, <1>4

LEMMA InitIInv == Init => IInv
<1>1. Cardinality({}) = 0
  BY FS_EmptySet
<1>2. QED
  BY <1>1, HalvesDisjoint, BatchSizeAssumption
  DEF Init, IInv, TypeOK, InLoop, Creating, NotSubmittedYet, NotCountedYet, Decremented, Accounted,
      RegBound, NeverOvercounts, CtxStates, TaskStates, MainPcs, ThreadPcs, ToSubmit, Threads, Tasks

\* A step of the main thread other than reaping a task or storing the
\* decrement: threads, counts and histories stay, so does every submitted task.
LEMMA MainStep ==
  ASSUME IInv,
         \/ TestRun \/ TestNum \/ ProgressIdle \/ CallbackTest \/ CallbackClear
         \/ ProgressToIdle \/ Join \/ Report \/ CreateThreadFails \/ Ended
  PROVE  IInv'
<1> USE DEF IInv
<1>1. /\ UNCHANGED <<task, pc, idx, submitError, num, reg, cbTask, uncounted, appDst, counted>>
      /\ mainPc' = mainPc \/ (mainPc # "store" /\ mainPc' # "store")
      /\ mainPc' \in MainPcs /\ run' \in BOOLEAN /\ ctx' \in CtxStates
      /\ mainPc' = mainPc \/ mainPc' \notin {"create0", "create1"}
  BY DEF TypeOK, TestRun, TestNum, ProgressIdle, CallbackTest, CallbackClear, ProgressToIdle,
         Join, Report, CreateThreadFails, Ended, threadVars, flagVars, cbVars, vars,
         MainPcs, CtxStates
<1>2. TypeOK'
  BY <1>1 DEF TypeOK
<1>3. InLoop' /\ Creating' /\ NotSubmittedYet' /\ NotCountedYet'
  BY <1>1 DEF InLoop, Creating, NotSubmittedYet, NotCountedYet, ToSubmit, ToCount, TaskOf
<1>4. Decremented' /\ Accounted' /\ RegBound' /\ NeverOvercounts'
  BY <1>1 DEF Decremented, Accounted, RegBound, NeverOvercounts, TaskOf
<1>5. QED
  BY <1>2, <1>3, <1>4

\* CreateThread starts a thread whose tasks are all untouched.
LEMMA CreateStep == ASSUME IInv, NEW th \in Threads, CreateThread(th) PROVE IInv'
<1> USE DEF IInv, CreateThread
<1>1. UNCHANGED <<ctx, task, idx, submitError, num, run, reg, cbTask, uncounted, appDst, counted>>
  BY DEF flagVars, cbVars
<1>2. LoopHead(0) \in {"submit", "exit"} /\ (LoopHead(0) = "submit" => 0 < PerThread)
  BY DEF LoopHead
<1>3. mainPc # "store" /\ mainPc' # "store" /\ mainPc' \in MainPcs
  BY DEF MainPcs
<1>4. TypeOK'
  BY <1>1, <1>2, <1>3 DEF TypeOK, ThreadPcs
<1>5. /\ pc[th] = "none"
      /\ \A u \in Threads : pc'[u] = IF u = th THEN LoopHead(0) ELSE pc[u]
  BY DEF TypeOK, Creating, Threads
<1>6. InLoop' /\ Creating'
  BY <1>1, <1>2, <1>5 DEF InLoop, Creating, Threads
<1>7. \A u \in Threads : ToSubmit(u)' \subseteq ToSubmit(u) /\ ToCount(u)' \subseteq ToCount(u)
  BY <1>1, <1>2, <1>5 DEF ToSubmit, ToCount
<1>8. NotSubmittedYet' /\ NotCountedYet'
  BY <1>1, <1>7 DEF NotSubmittedYet, NotCountedYet, TaskOf
<1>9. Decremented' /\ Accounted' /\ RegBound' /\ NeverOvercounts'
  BY <1>1, <1>2, <1>3, <1>5 DEF Decremented, Accounted, RegBound, NeverOvercounts, TaskOf
<1>10. QED
  BY <1>4, <1>6, <1>8, <1>9

\* A thread about to increment points at a task of the batch.
LEMMA AddedTask ==
  ASSUME TypeOK, InLoop
  PROVE  \A u \in Threads : pc[u] = "add" => TaskOf(u, idx[u]) \in Tasks
<1>1. \A u \in Threads : pc[u] = "add" => idx[u] \in 0 .. PerThread - 1
  BY HalvesDisjoint DEF TypeOK, InLoop
<1>2. QED
  BY <1>1, HalvesDisjoint

\* The engine, and the error callback, move a task that was submitted and not
\* yet reaped.
LEMMA EngineStep ==
  ASSUME IInv, NEW t \in Tasks, Complete(t) \/ Fail(t) \/ ProgressFailed(t)
  PROVE  IInv'
<1> USE DEF IInv
<1>1. /\ UNCHANGED <<pc, idx, submitError, num, run, reg, cbTask, uncounted, appDst, counted>>
      /\ task[t] \in {"inflight", "failed"}
      /\ \E st \in {"ok", "failed", "freed"} : task' = [task EXCEPT ![t] = st]
      /\ mainPc' = mainPc \/ (mainPc = "progress" /\ mainPc' \in {"crashed", "testRun"})
      /\ ctx' \in CtxStates
  BY DEF TypeOK, Complete, Fail, ProgressFailed, EngineCompletes, EngineFails, DocaStop,
         threadVars, flagVars, cbVars, CtxStates
<1>2. TypeOK'
  BY <1>1 DEF TypeOK, TaskStates, MainPcs
<1>3. \A x \in Tasks : /\ task[x] \in {"ready", "reaped"} => task'[x] = task[x]
                       /\ task'[x] \in {"ready", "reaped"} => task[x] = task'[x]
  BY <1>1 DEF TypeOK
<1>4. InLoop' /\ Creating' /\ NotCountedYet'
  BY <1>1 DEF InLoop, Creating, NotCountedYet, ToCount, TaskOf
<1>5. NotSubmittedYet'
  BY <1>1, <1>3, HalvesDisjoint DEF NotSubmittedYet, ToSubmit, TaskOf
<1>6. Decremented' /\ RegBound' /\ NeverOvercounts'
  BY <1>1, <1>3 DEF TypeOK, Decremented, RegBound, NeverOvercounts
<1>7. Accounted'
  <2>1. \A x \in Tasks : task'[x] = "reaped" => x \in uncounted' \/ (mainPc' = "store" /\ cbTask' = x)
    BY <1>1, <1>3 DEF Accounted
  <2>2. \A x \in counted' : task'[x] # "ready"
    BY <1>1, <1>3 DEF TypeOK, Accounted
  <2>3. \A u \in Threads : pc'[u] = "add" => task'[TaskOf(u, idx'[u])] # "ready"
    BY <1>1, <1>3, AddedTask DEF Accounted
  <2>4. QED
    BY <2>1, <2>2, <2>3 DEF Accounted
<1>8. QED
  BY <1>2, <1>4, <1>5, <1>6, <1>7

\* Reaping a completed task loads the count: the bound on num becomes the
\* bound on reg.
LEMMA ReapStep == ASSUME IInv, NEW t \in Tasks, ProgressCompleted(t) PROVE IInv'
<1> USE DEF IInv, ProgressCompleted
<1>1. UNCHANGED <<ctx, pc, idx, submitError, num, run, counted, uncounted>>
  BY DEF threadVars, flagVars
<1>2. TypeOK'
  BY <1>1 DEF TypeOK, TaskStates, MainPcs
<1>3. \A x \in Tasks : task'[x] = IF x = t THEN "reaped" ELSE task[x]
  BY DEF TypeOK
<1>4. InLoop' /\ Creating' /\ NotCountedYet'
  BY <1>1 DEF InLoop, Creating, NotCountedYet, ToCount, TaskOf
<1>5. NotSubmittedYet'
  BY <1>1, <1>3, HalvesDisjoint DEF NotSubmittedYet, ToSubmit, TaskOf
<1>6. Decremented'
  BY <1>1, <1>3 DEF TypeOK, Decremented
<1>7. RegBound' /\ NeverOvercounts'
  BY <1>1 DEF RegBound, NeverOvercounts
<1>8. Accounted'
  BY <1>1, <1>3, AddedTask DEF TypeOK, Accounted, TaskOf
<1>9. QED
  BY <1>2, <1>4, <1>5, <1>6, <1>7, <1>8

\* Storing the decrement: the task of the callback is decremented for the
\* first time.
LEMMA StoreStep == ASSUME IInv, CallbackStore PROVE IInv'
<1> USE DEF IInv, CallbackStore
<1>1. UNCHANGED <<ctx, task, pc, idx, submitError, run, cbTask, appDst, counted>>
  BY DEF threadVars
<1>2. TypeOK'
  BY <1>1 DEF TypeOK, MainPcs
<1>3. InLoop' /\ Creating' /\ NotSubmittedYet' /\ NotCountedYet'
  BY <1>1 DEF InLoop, Creating, NotSubmittedYet, NotCountedYet, ToSubmit, ToCount, TaskOf
<1>4. Decremented' /\ Accounted' /\ RegBound'
  BY <1>1 DEF Decremented, Accounted, RegBound, TaskOf
<1>5. cbTask \in Tasks \ uncounted /\ uncounted \subseteq Tasks /\ counted \subseteq Tasks
  BY DEF TypeOK, Decremented
<1>6. Cardinality(uncounted') = Cardinality(uncounted) + 1
  BY <1>5, TaskSetsFinite
<1>7. Cardinality(uncounted) \in Nat /\ Cardinality(counted) \in Nat
  BY <1>5, TaskSetsFinite
<1>8. NeverOvercounts'
  BY <1>1, <1>6, <1>7 DEF RegBound, NeverOvercounts, TypeOK
<1>9. QED
  BY <1>2, <1>3, <1>4, <1>8

\* A submit takes the thread's next task, which is untouched.
LEMMA SubmitStep == ASSUME IInv, NEW th \in Threads, Submit(th) PROVE IInv'
<1> USE DEF IInv, Submit
<1> DEFINE x == TaskOf(th, idx[th])
<1>1. UNCHANGED <<ctx, mainPc, idx, submitError, num, run, reg, cbTask, uncounted, appDst, counted>>
  BY DEF flagVars, cbVars
<1>2. /\ idx[th] \in 0 .. PerThread - 1
      /\ idx[th] \in ToSubmit(th)
  BY HalvesDisjoint DEF TypeOK, InLoop, ToSubmit
<1>3. x \in Tasks /\ task[x] = "ready"
  BY <1>2, HalvesDisjoint DEF NotSubmittedYet
<1>4. /\ task' = [task EXCEPT ![x] = "inflight"]
      /\ \A y \in Tasks : task'[y] = IF y = x THEN "inflight" ELSE task[y]
  BY <1>3 DEF DocaSubmit, TypeOK
<1>5. \A u \in Threads : pc'[u] = IF u = th THEN "add" ELSE pc[u]
  BY DEF TypeOK
<1>6. TypeOK'
  BY <1>1, <1>3, <1>4 DEF TypeOK, TaskStates, ThreadPcs
<1>7. InLoop' /\ Creating'
  BY <1>1, <1>5 DEF InLoop, Creating, Threads
<1>8. NotSubmittedYet'
  <2> SUFFICES ASSUME NEW u \in Threads, NEW i \in ToSubmit(u)'
               PROVE  task'[TaskOf(u, i)] = "ready"
    BY <1>1 DEF NotSubmittedYet, TaskOf
  <2>1. i \in 0 .. PerThread - 1 /\ i \in ToSubmit(u) /\ (u = th => i # idx[th])
    BY <1>1, <1>2, <1>5 DEF ToSubmit
  <2>2. TaskOf(u, i) \in Tasks /\ TaskOf(u, i) # x /\ task[TaskOf(u, i)] = "ready"
    BY <1>2, <2>1, HalvesDisjoint DEF NotSubmittedYet
  <2>3. QED
    BY <1>4, <2>2
<1>9. NotCountedYet'
  BY <1>1, <1>5 DEF NotCountedYet, ToCount, TaskOf
<1>10. Decremented' /\ RegBound' /\ NeverOvercounts'
  BY <1>1, <1>3, <1>4 DEF TypeOK, Decremented, RegBound, NeverOvercounts
<1>11. Accounted'
  <2>1. \A y \in Tasks : /\ task'[y] = "reaped" => task[y] = "reaped"
                         /\ task'[y] = "ready" => task[y] = "ready"
    BY <1>4
  <2>2. \A u \in Threads : pc'[u] = "add" =>
          TaskOf(u, idx[u]) \in Tasks /\ task'[TaskOf(u, idx[u])] # "ready"
    <3> SUFFICES ASSUME NEW u \in Threads, pc'[u] = "add"
                 PROVE  TaskOf(u, idx[u]) \in Tasks /\ task'[TaskOf(u, idx[u])] # "ready"
      OBVIOUS
    <3>1. CASE u = th
      BY <1>3, <1>4, <3>1
    <3>2. CASE u # th
      <4>1. pc[u] = "add"
        BY <1>5, <3>2
      <4>2. TaskOf(u, idx[u]) \in Tasks /\ task[TaskOf(u, idx[u])] # "ready"
        BY <4>1, AddedTask DEF Accounted
      <4>3. QED
        BY <2>1, <4>2
    <3>3. QED
      BY <3>1, <3>2
  <2>3. \A y \in Tasks : task'[y] = "reaped" => y \in uncounted' \/ (mainPc' = "store" /\ cbTask' = y)
    BY <1>1, <2>1 DEF Accounted
  <2>4. \A t \in counted' : task'[t] # "ready"
    BY <1>1, <2>1 DEF TypeOK, Accounted
  <2>5. \A u \in Threads : pc'[u] = "add" => task'[TaskOf(u, idx'[u])] # "ready"
    BY <1>1, <2>2
  <2>6. QED
    BY <2>3, <2>4, <2>5 DEF Accounted
<1>12. QED
  BY <1>6, <1>7, <1>8, <1>9, <1>10, <1>11

LEMMA SubmitFailsStep == ASSUME IInv, NEW th \in Threads, SubmitFails(th) PROVE IInv'
<1> USE DEF IInv, SubmitFails
<1>1. UNCHANGED <<ctx, task, mainPc, idx, num, run, reg, cbTask, uncounted, appDst, counted>>
  BY DEF flagVars, cbVars
<1>2. \A u \in Threads : pc'[u] = IF u = th THEN "exit" ELSE pc[u]
  BY DEF TypeOK
<1>3. TypeOK'
  BY <1>1 DEF TypeOK, ThreadPcs
<1>4. InLoop' /\ Creating'
  BY <1>1, <1>2 DEF InLoop, Creating, Threads
<1>5. \A u \in Threads : ToSubmit(u)' \subseteq ToSubmit(u) /\ ToCount(u)' \subseteq ToCount(u)
  BY <1>1, <1>2 DEF ToSubmit, ToCount
<1>6. NotSubmittedYet' /\ NotCountedYet'
  BY <1>1, <1>5 DEF NotSubmittedYet, NotCountedYet, TaskOf
<1>7. Decremented' /\ Accounted' /\ RegBound' /\ NeverOvercounts'
  BY <1>1, <1>2 DEF Decremented, Accounted, RegBound, NeverOvercounts, TaskOf
<1>8. QED
  BY <1>3, <1>4, <1>6, <1>7

\* An increment counts a task that was not counted before.
LEMMA AddStep == ASSUME IInv, NEW th \in Threads, AddRemaining(th) PROVE IInv'
<1> USE DEF IInv, AddRemaining
<1> DEFINE x == TaskOf(th, idx[th])
<1>1. UNCHANGED <<ctx, task, mainPc, idx, submitError, run, reg, cbTask, uncounted, appDst>>
  BY DEF cbVars
<1>2. idx[th] \in 0 .. PerThread - 1 /\ idx[th] \in ToCount(th)
  BY HalvesDisjoint DEF TypeOK, InLoop, ToCount
<1>3. x \in Tasks \ counted /\ counted \subseteq Tasks /\ uncounted \subseteq Tasks
  BY <1>2, HalvesDisjoint DEF NotCountedYet, TypeOK
<1>4. \A u \in Threads : pc'[u] = IF u = th THEN "setRun" ELSE pc[u]
  BY DEF TypeOK
<1>5. TypeOK'
  BY <1>1, <1>3 DEF TypeOK, ThreadPcs
<1>6. InLoop' /\ Creating'
  BY <1>1, <1>4 DEF InLoop, Creating, Threads
<1>7. NotSubmittedYet'
  BY <1>1, <1>4 DEF NotSubmittedYet, ToSubmit, TaskOf
<1>8. NotCountedYet'
  <2> SUFFICES ASSUME NEW u \in Threads, NEW i \in ToCount(u)'
               PROVE  TaskOf(u, i) \notin counted'
    BY <1>1 DEF NotCountedYet, TaskOf
  <2>1. i \in 0 .. PerThread - 1 /\ i \in ToCount(u) /\ (u = th => i # idx[th])
    BY <1>1, <1>2, <1>4 DEF ToCount
  <2>2. TaskOf(u, i) # x /\ TaskOf(u, i) \notin counted
    BY <1>2, <2>1, HalvesDisjoint DEF NotCountedYet
  <2>3. QED
    BY <2>2
<1>9. Cardinality(counted') = Cardinality(counted) + 1
  BY <1>3, TaskSetsFinite
<1>10. Cardinality(uncounted) \in Nat /\ Cardinality(counted) \in Nat
  BY <1>3, TaskSetsFinite
<1>11. Decremented' /\ RegBound' /\ NeverOvercounts'
  BY <1>1, <1>9, <1>10 DEF Decremented, RegBound, NeverOvercounts, TypeOK
<1>12. Accounted'
  BY <1>1, <1>4 DEF Accounted, TaskOf
<1>13. QED
  BY <1>5, <1>6, <1>7, <1>8, <1>11, <1>12

LEMMA SetRunStep == ASSUME IInv, NEW th \in Threads, SetRun(th) PROVE IInv'
<1> USE DEF IInv, SetRun
<1>1. UNCHANGED <<ctx, task, mainPc, submitError, num, reg, cbTask, uncounted, appDst, counted>>
  BY DEF cbVars
<1>2. idx[th] \in 0 .. PerThread - 1 /\ idx[th] + 1 \in 0 .. PerThread
  BY HalvesDisjoint DEF TypeOK, InLoop
<1>3. \A u \in Threads : /\ pc'[u] = IF u = th THEN LoopHead(idx[th] + 1) ELSE pc[u]
                         /\ idx'[u] = IF u = th THEN idx[th] + 1 ELSE idx[u]
  BY DEF TypeOK
<1>4. /\ LoopHead(idx[th] + 1) \in {"submit", "exit"}
      /\ LoopHead(idx[th] + 1) = "submit" => idx[th] + 1 < PerThread
  BY DEF LoopHead
<1>5. TypeOK'
  BY <1>1, <1>2, <1>4 DEF TypeOK, ThreadPcs
<1>6. InLoop' /\ Creating'
  BY <1>1, <1>3, <1>4 DEF InLoop, Creating, Threads
<1>7. \A u \in Threads : ToSubmit(u)' \subseteq ToSubmit(u) /\ ToCount(u)' \subseteq ToCount(u)
  BY <1>2, <1>3, <1>4 DEF ToSubmit, ToCount
<1>8. NotSubmittedYet' /\ NotCountedYet'
  BY <1>1, <1>7 DEF NotSubmittedYet, NotCountedYet, TaskOf
<1>9. Decremented' /\ Accounted' /\ RegBound' /\ NeverOvercounts'
  BY <1>1, <1>3, <1>4 DEF Decremented, Accounted, RegBound, NeverOvercounts, TaskOf
<1>10. QED
  BY <1>5, <1>6, <1>8, <1>9

LEMMA NextIInv == IInv /\ [Next]_vars => IInv'
<1> SUFFICES ASSUME IInv, [Next]_vars PROVE IInv'
  OBVIOUS
<1>1. CASE Main
  BY <1>1, MainStep, CreateStep, EngineStep, ReapStep, StoreStep DEF Main, Progress
<1>2. CASE \E th \in Threads : SubmitThread(th)
  BY <1>2, SubmitStep, SubmitFailsStep, AddStep, SetRunStep DEF SubmitThread
<1>3. CASE \E t \in Tasks : Engine(t)
  BY <1>3, EngineStep DEF Engine
<1>4. CASE CreateThreadFails \/ Ended
  BY <1>4, MainStep
<1>5. CASE UNCHANGED vars
  BY <1>5, MainStep DEF Ended, IInv, TypeOK, InLoop, Creating, NotSubmittedYet, NotCountedYet,
     Decremented, Accounted, RegBound, NeverOvercounts, ToSubmit, ToCount, TaskOf, vars
<1>6. QED
  BY <1>1, <1>2, <1>3, <1>4, <1>5 DEF Next

LEMMA Invariance == Spec => []IInv
<1>1. QED
  BY InitIInv, NextIInv, PTL DEF Spec

-----------------------------------------------------------------------------

\* Every variable of the pipeline keeps its type, for every batch size.
THEOREM TypeCorrect == Spec => []TypeOK
<1>1. IInv => TypeOK
  BY DEF IInv
<1>2. QED
  BY <1>1, Invariance, PTL

\* num_remaining_tasks is never more than the increments made minus the
\* decrements made, whatever the interleaving of the non-atomic decrement.
THEOREM CountIsBounded == Spec => []NeverOvercounts
<1>1. IInv => NeverOvercounts
  BY DEF IInv
<1>2. QED
  BY <1>1, Invariance, PTL

\* When both submit threads have returned and every submitted task has been
\* reaped, num_remaining_tasks no longer keeps the poller in its loop.
THEOREM CountReleases == Spec => []CountReleasesLoop
<1>1. ASSUME IInv PROVE CountReleasesLoop
  <2> SUFFICES ASSUME mainPc = "testNum",
                      \A t \in Tasks : task[t] \in {"ready", "reaped"}
               PROVE  num <= 0
    BY DEF CountReleasesLoop
  <2>1. counted \subseteq uncounted /\ counted \subseteq Tasks /\ uncounted \subseteq Tasks
    BY <1>1 DEF IInv, TypeOK, Accounted
  <2>2. Cardinality(counted) <= Cardinality(uncounted)
    BY <2>1, TaskSetsFinite, FS_Subset
  <2>3. Cardinality(counted) \in Nat /\ Cardinality(uncounted) \in Nat
    BY <2>1, TaskSetsFinite
  <2>4. QED
    BY <1>1, <2>2, <2>3 DEF IInv, TypeOK, NeverOvercounts
<1>2. QED
  BY <1>1, Invariance, PTL

\* No task is submitted twice, by one thread or by the two of them.
THEOREM NoDoubleSubmit == Spec => SubmittedOnce
<1>1. ASSUME IInv, [Next]_vars
      PROVE  [\A t \in Tasks : task'[t] = "inflight" /\ task[t] # "inflight"
                                => task[t] = "ready"]_vars
  <2> SUFFICES ASSUME NEW t \in Tasks, task'[t] = "inflight", task[t] # "inflight"
               PROVE  task[t] = "ready"
    OBVIOUS
  <2>1. PICK th \in Threads : Submit(th)
    BY <1>1 DEF IInv, TypeOK, Next, Main, Progress, SubmitThread, Engine, CreateThread,
       CreateThreadFails, TestRun, TestNum, ProgressIdle, ProgressCompleted, CallbackStore,
       CallbackTest, CallbackClear, ProgressFailed, ProgressToIdle, Join, Report,
       SubmitFails, AddRemaining, SetRun, Complete, Fail, EngineCompletes, EngineFails,
       Ended, vars
  <2>2. idx[th] \in ToSubmit(th) /\ idx[th] \in 0 .. PerThread - 1
    BY <1>1, <2>1, HalvesDisjoint DEF IInv, TypeOK, InLoop, ToSubmit, Submit
  <2>3. task' = [task EXCEPT ![TaskOf(th, idx[th])] = "inflight"]
    BY <2>1 DEF Submit, DocaSubmit
  <2>4. task[TaskOf(th, idx[th])] = "ready"
    BY <1>1, <2>2 DEF IInv, NotSubmittedYet
  <2>5. QED
    BY <1>1, <2>3, <2>4 DEF IInv, TypeOK
<1>2. QED
  BY <1>1, Invariance, PTL DEF Spec, SubmittedOnce
=============================================================================
