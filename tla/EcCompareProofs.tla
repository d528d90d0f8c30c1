-------------------------- MODULE EcCompareProofs --------------------------
(***************************************************************************)
(* Proofs about EcCompare, for every number of iterations, with or without *)
(* faults: whose callback ends a run, that PASS is never printed on the    *)
(* callback of another task, and that the data path of every loss class is *)
(* right.                                                                  *)
(*                                                                         *)
(* As long as no run has been given up, the engine holds at most the task  *)
(* of the current run (Own), so a callback cannot be another's.  Once one  *)
(* has been given up, its failure is on its way to the verdict, through ok *)
(* and all_ok, or has reached it (Spoilt); nothing sets all_ok again.      *)
(*                                                                         *)
(* The data path: a chunk is taken or called a hole by its rank among the  *)
(* chunks that are left, and the recovery counts those not called holes;   *)
(* up to the last chunk taken the two counts agree (InputIsExpected).  The *)
(* missing data comes first among the holes, so the blocks consumed are    *)
(* the data's (DataHoles).  While nothing fails every run therefore leaves *)
(* in memory what the next one, and the comparison, need (Healthy).        *)
(***************************************************************************)
EXTENDS EcCompare, FiniteSetTheorems, TLAPS

Waits == [done : BOOLEAN, status : {"none", "in_progress", "success", "error"},
          from : EngineTasks \union {"none"}]

Types ==
  /\ task \in [EngineTasks -> TaskStates]
  /\ wait \in Waits
  /\ docaOk \in BOOLEAN /\ allOk \in BOOLEAN
  /\ timedOut \in BOOLEAN /\ genuine \in BOOLEAN

Polling    == pc \in {"wait", "deadline"}
AtWork(t)  == task[t] \in {"inflight", "ok", "failed"}

\* Without a time-out: the one task at work is that of the run being polled
\* for, and what has ended the run is its callback.
Own ==
  ~timedOut =>
    /\ genuine
    /\ \A t \in EngineTasks : AtWork(t) => Polling /\ ~wait.done /\ t = TaskId
    /\ Polling /\ wait.done => wait.from = TaskId

\* After a time-out: the run has failed, or its case has, or the verdict is
\* against it.
Spoilt == timedOut => pc = "failed" \/ (pc = "cpu" /\ ~docaOk) \/ ~allOk

IInv == Types /\ Own /\ Spoilt

LEMMA InitIInv == Init => IInv
  <1> SUFFICES ASSUME Init PROVE IInv
    OBVIOUS
  <1>1. task = [t \in EngineTasks |-> IF t = "create" THEN "ready" ELSE "freed"]
    BY DEF Init, EngineTasks
  <1>2. wait = [done |-> FALSE, status |-> "none", from |-> "none"]
    BY DEF Init, NotDone
  <1>3. pc = "run" /\ ~docaOk /\ allOk /\ ~timedOut /\ genuine
    BY DEF Init
  <1>4. docaOk \in BOOLEAN /\ allOk \in BOOLEAN /\ timedOut \in BOOLEAN /\ genuine \in BOOLEAN
    BY DEF Init
  <1> QED
    BY <1>1, <1>2, <1>3, <1>4 DEF IInv, Types, Waits, TaskStates, Own, Spoilt, Polling, AtWork

\* The callback of a task that is at work: it is at work no longer, and the
\* wait structure names it.
LEMMA CallbackEffect ==
  ASSUME Types, NEW t \in EngineTasks, Callback(t)
  PROVE  /\ task' \in [EngineTasks -> TaskStates] /\ wait' \in Waits
         /\ wait'.done /\ wait'.from = t
         /\ task'[t] = "reaped"
         /\ \A s \in EngineTasks : s # t => task'[s] = task[s]
  BY DEF Types, Callback, Waits, TaskStates

-----------------------------------------------------------------------------

\* run_doca_task().
LEMMA RunKeeps ==
  ASSUME IInv,
         \/ Submit \/ SubmitRefused \/ PollNothing \/ TimedOut \/ InTime \/ RunReturns
         \/ \E t \in EngineTasks : PollTask(t)
  PROVE  IInv'
  <1> USE DEF IInv, Types, Own, Spoilt, Polling, AtWork, TaskId
  <1>1. CASE Submit
    <2>1. TaskId \in EngineTasks
      BY DEF EngineTasks
    <2>2. wait' \in Waits /\ ~wait'.done
      BY <1>1 DEF Submit, NotDone, Waits
    <2>3. task' \in [EngineTasks -> TaskStates]
      BY <1>1, <2>1 DEF Submit, DocaSubmit, TaskStates
    <2>4. \A t \in EngineTasks : t # TaskId => task'[t] = task[t]
      BY <1>1, <2>1 DEF Submit, DocaSubmit
    <2> QED
      BY <1>1, <2>2, <2>3, <2>4 DEF Submit, verdict, history
  <1>2. CASE SubmitRefused
    <2>1. wait' \in Waits /\ ~wait'.done
      BY <1>2 DEF SubmitRefused, NotDone, Waits
    <2> QED
      BY <1>2, <2>1 DEF SubmitRefused, verdict
  <1>3. ASSUME NEW t \in EngineTasks, PollTask(t) PROVE IInv'
    <2>1. Callback(t) /\ AtWork(t)
      BY <1>3 DEF PollTask, Finished
    <2>2. /\ task' \in [EngineTasks -> TaskStates] /\ wait' \in Waits
          /\ wait'.done /\ wait'.from = t
          /\ task'[t] = "reaped"
          /\ \A s \in EngineTasks : s # t => task'[s] = task[s]
      BY <2>1, CallbackEffect
    <2> QED
      BY <1>3, <2>1, <2>2 DEF PollTask, verdict, history
  <1>4. CASE PollNothing
    BY <1>4 DEF PollNothing, verdict, history
  <1>5. CASE TimedOut
    BY <1>5 DEF TimedOut, verdict
  <1>6. CASE InTime
    BY <1>6 DEF InTime, verdict, history
  <1>7. CASE RunReturns
    BY <1>7 DEF RunReturns, verdict
  <1> QED
    BY <1>1, <1>2, <1>3, <1>4, <1>5, <1>6, <1>7

\* FreeRecover leaves no task at work that was not.
LEMMA FreeEffect ==
  ASSUME Types, FreeRecover
  PROVE  /\ task' \in [EngineTasks -> TaskStates]
         /\ \A t \in EngineTasks : task'[t] = task[t] \/ task'[t] = "freed"
  BY DEF Types, FreeRecover, TaskStates

\* verify_doca_case() and main(), up to the verdict.
LEMMA CasesKeep ==
  ASSUME IInv,
         \/ SaveParity \/ BeginCase \/ BeginCaseFails \/ AfterRecover \/ AfterCreate
         \/ Compare \/ RunFailed \/ VerifyCpu
  PROVE  IInv'
  <1> USE DEF IInv, Types, Own, Spoilt, Polling, AtWork, TaskId
  <1>1. CASE SaveParity
    BY <1>1 DEF SaveParity, verdict, history
  <1>2. CASE BeginCase
    <2>1. /\ task' \in [EngineTasks -> TaskStates]
          /\ \A t \in EngineTasks : task'[t] = task[t] \/ task'[t] = "ready"
      BY <1>2 DEF BeginCase, TaskStates
    <2> QED
      BY <1>2, <2>1 DEF BeginCase, verdict, history
  <1>3. CASE BeginCaseFails
    BY <1>3 DEF BeginCaseFails
  <1>4. CASE AfterRecover
    <2>1. pc' \in {"run", "compare"}
      BY <1>4 DEF AfterRecover, NextIteration
    <2> QED
      BY <1>4, <2>1 DEF AfterRecover, verdict, history
  <1>5. CASE AfterCreate
    <2>1. pc' \in {"run", "compare"}
      BY <1>5 DEF AfterCreate, NextIteration
    <2> QED
      BY <1>5, <2>1 DEF AfterCreate, verdict, history
  <1>6. CASE Compare
    BY <1>6, FreeEffect DEF Compare, history
  <1>7. CASE RunFailed
    <2>1. /\ task' \in [EngineTasks -> TaskStates]
          /\ \A t \in EngineTasks : task'[t] = task[t] \/ task'[t] = "freed"
      BY <1>7, FreeEffect DEF RunFailed
    <2> QED
      BY <1>7, <2>1 DEF RunFailed, history
  <1>8. CASE VerifyCpu
    BY <1>8 DEF VerifyCpu, history
  <1> QED
    BY <1>1, <1>2, <1>3, <1>4, <1>5, <1>6, <1>7, <1>8

\* The clean-up, and the engine.
LEMMA RestKeeps ==
  ASSUME IInv,
         \/ Report \/ StopDone \/ Ended
         \/ \E t \in EngineTasks : StopPoll(t) \/ Complete(t) \/ Fail(t)
  PROVE  IInv'
  <1> USE DEF IInv, Types, Own, Spoilt, Polling, AtWork, TaskId
  <1>1. CASE Report
    <2>1. /\ task' \in [EngineTasks -> TaskStates]
          /\ \A t \in EngineTasks : task'[t] = task[t] \/ task'[t] = "freed"
      BY <1>1 DEF Report, TaskStates
    <2> QED
      BY <1>1, <2>1 DEF Report, verdict, history
  <1>2. CASE StopDone
    BY <1>2 DEF StopDone, verdict, history
  <1>3. CASE Ended
    BY <1>3 DEF Ended, vars, verdict, history
  <1>4. ASSUME NEW t \in EngineTasks, StopPoll(t) PROVE IInv'
    <2>1. Callback(t) /\ AtWork(t)
      BY <1>4 DEF StopPoll, Finished
    <2>2. /\ task' \in [EngineTasks -> TaskStates] /\ wait' \in Waits
          /\ task'[t] = "reaped"
          /\ \A s \in EngineTasks : s # t => task'[s] = task[s]
      BY <2>1, CallbackEffect
    <2> QED
      BY <1>4, <2>1, <2>2 DEF StopPoll, verdict, history
  <1>5. ASSUME NEW t \in EngineTasks, Complete(t) \/ Fail(t) PROVE IInv'
    <2>1. /\ task' \in [EngineTasks -> TaskStates]
          /\ AtWork(t)
          /\ \A s \in EngineTasks : s # t => task'[s] = task[s]
      BY <1>5 DEF Complete, Fail, EngineCompletes, EngineFails, TaskStates
    <2>2. UNCHANGED <<pc, stage, wait, verdict, history>>
      BY <1>5 DEF Complete, Fail
    <2> QED
      BY <2>1, <2>2 DEF verdict, history
  <1> QED
    BY <1>1, <1>2, <1>3, <1>4, <1>5

LEMMA NextIInv == IInv /\ [Next]_vars => IInv'
  <1>1. IInv /\ UNCHANGED vars => IInv'
    BY DEF vars, verdict, history, IInv, Types, Own, Spoilt, Polling, AtWork, TaskId
  <1> QED
    BY <1>1, RunKeeps, CasesKeep, RestKeeps DEF Next, Program

LEMMA Invariance == Spec => []IInv
  BY InitIInv, NextIInv, PTL DEF Spec

-----------------------------------------------------------------------------

\* While no run has been given up, every run_doca_task() that returned success
\* did so on the callback of its own task, though the wait structure is shared.
THEOREM CompletionsAreOwn == Spec => []OwnCompletion
  <1>1. IInv => OwnCompletion
    BY DEF IInv, Own, OwnCompletion
  <1> QED
    BY <1>1, Invariance, PTL

\* "Overall correctness: PASS" is not printed on the strength of a run that
\* was ended by the late callback of another task.
THEOREM PassIsReal == Spec => []OverallPassIsReal
  <1>1. IInv => OverallPassIsReal
    BY DEF IInv, Own, Spoilt, OverallPassIsReal
  <1> QED
    BY <1>1, Invariance, PTL

-----------------------------------------------------------------------------
(* The data path while nothing fails and nothing is late.                   *)

InCase    == pc \in {"run", "wait", "deadline", "succeeded", "compare"} /\ stage # "initial"
Reference == [p \in Parities |-> DataCount + p]

\* The blocks of recover_dst that are consumed hold the missing data.
Restored  == \A c \in MissingData : recoverDst[Rank(MissingData, c)] = c

\* The task of the current run has done its work, and this is what it was for.
RunDone   == \/ pc = "succeeded"
             \/ Polling /\ (task[TaskId] = "ok" \/ (wait.done /\ wait.status = "success"))
Right     == IF stage = "recover" THEN Restored ELSE createDst = Reference

Healthy ==
  ~troubled =>
    /\ ~timedOut /\ pc # "failed"
    /\ createSrc = [c \in DataChunks |-> c]
    /\ stage # "initial" \/ pc = "case" => docaParity = Reference /\ createDst = Reference
    /\ pc \in {"compare", "cpu"} => stage # "initial"
    /\ InCase /\ MissingData # {} => recoverSrc = PrepareInput /\ holes = PrepareHoles
    /\ InCase /\ stage = "recover" => MissingData # {}
    /\ InCase /\ (stage = "create" \/ pc = "compare") => Restored
    /\ RunDone => Right
    /\ pc = "cpu" => docaOk

-----------------------------------------------------------------------------
(* Ranks.                                                                   *)

LEMMA RankType ==
  ASSUME NEW S \in SUBSET Chunks, NEW c \in Nat
  PROVE  IsFiniteSet({d \in S : d < c}) /\ Rank(S, c) \in Nat
  <1>1. IsFiniteSet(Chunks)
    <2>1. IsFiniteSet(0 .. 5)
      <3>1. 0 \in Int /\ 5 \in Int
        OBVIOUS
      <3> QED
        BY <3>1, FS_Interval
    <2>2. Chunks = 0 .. 5
      BY DEF Chunks, DataCount, ParityCount
    <2> QED
      BY <2>1, <2>2
  <1>2. {d \in S : d < c} \subseteq Chunks
    OBVIOUS
  <1>3. IsFiniteSet({d \in S : d < c})
    BY <1>1, <1>2, FS_Subset
  <1> QED
    BY <1>3, FS_CardinalityType DEF Rank

\* A larger set, or a later place, has a larger rank.
LEMMA RankGrows ==
  ASSUME NEW T \in SUBSET Chunks, NEW S \in SUBSET T,
         NEW c \in Nat, NEW e \in Nat, c <= e
  PROVE  Rank(S, c) <= Rank(T, e)
  <1>1. {d \in S : d < c} \subseteq {d \in T : d < e}
    <2> SUFFICES ASSUME NEW d \in S, d < c PROVE d < e
      OBVIOUS
    <2>1. d \in Int
      BY DEF Chunks, DataCount, ParityCount
    <2> QED
      BY <2>1
  <1> QED
    BY <1>1, RankType, FS_Subset DEF Rank

\* No two members have one rank.
LEMMA RankIsOwn ==
  ASSUME NEW S \in SUBSET Chunks, NEW c \in S, NEW e \in S, Rank(S, c) = Rank(S, e)
  PROVE  c = e
  <1>1. \A d \in S : d \in Nat
    BY DEF Chunks, DataCount, ParityCount
  <1>2. ASSUME NEW a \in S, NEW b \in S, a < b PROVE Rank(S, a) # Rank(S, b)
    <2> DEFINE A == {d \in S : d < a}
               B == {d \in S : d < b}
    <2>1. IsFiniteSet(B)
      BY <1>1, RankType
    <2>2. A \subseteq B /\ A # B
      <3>1. a \in B /\ a \notin A
        BY <1>1, <1>2
      <3>2. \A d \in A : d \in B
        BY <1>1, <1>2
      <3> QED
        BY <3>1, <3>2
    <2>3. Cardinality(A) < Cardinality(B)
      <3>1. Cardinality(A) <= Cardinality(B) /\ (Cardinality(A) = Cardinality(B) => A = B)
        BY <2>1, <2>2, FS_Subset
      <3>2. Cardinality(A) \in Nat /\ Cardinality(B) \in Nat
        BY <1>1, RankType, FS_CardinalityType
      <3> QED
        BY <2>2, <3>1, <3>2
    <2>4. Cardinality(A) \in Nat /\ Cardinality(B) \in Nat
      BY <1>1, RankType, FS_CardinalityType
    <2> QED
      BY <2>3, <2>4 DEF Rank
  <1> QED
    BY <1>1, <1>2

\* The rank of a number is at most itself.
LEMMA RankSmall ==
  ASSUME NEW S \in SUBSET Chunks, NEW c \in DataChunks
  PROVE  Rank(S, c) < DataCount
  <1>1. c \in Nat /\ c < DataCount /\ S \subseteq Nat
    BY DEF DataChunks, DataCount, ParityCount, Chunks
  <1>2. IsFiniteSet(0 .. c - 1) /\ Cardinality(0 .. c - 1) <= c
    <2>1. /\ IsFiniteSet(0 .. c - 1)
          /\ Cardinality(0 .. c - 1) = IF 0 > c - 1 THEN 0 ELSE (c - 1) - 0 + 1
      BY <1>1, FS_Interval
    <2> QED
      BY <1>1, <2>1
  <1>3. {d \in S : d < c} \subseteq 0 .. c - 1
    <2> SUFFICES ASSUME NEW d \in S, d < c PROVE d \in 0 .. c - 1
      OBVIOUS
    <2>1. d \in Nat
      BY <1>1
    <2> QED
      BY <1>1, <2>1
  <1>4. Cardinality({d \in S : d < c}) <= Cardinality(0 .. c - 1)
    BY <1>2, <1>3, FS_Subset
  <1>5. Cardinality({d \in S : d < c}) \in Nat /\ Cardinality(0 .. c - 1) \in Nat
    BY <1>1, <1>2, RankType, FS_CardinalityType
  <1> QED
    BY <1>1, <1>2, <1>4, <1>5 DEF Rank, DataCount

\* The first member has rank 0, each next one a rank that is one more.
LEMMA RankFirst ==
  ASSUME NEW S \in SUBSET Chunks, NEW c \in Nat, \A d \in S : ~(d < c)
  PROVE  Rank(S, c) = 0
  <1>1. {d \in S : d < c} = {}
    OBVIOUS
  <1> QED
    BY <1>1, FS_EmptySet DEF Rank

LEMMA RankNext ==
  ASSUME NEW S \in SUBSET Chunks, NEW a \in S, NEW c \in Nat, a < c,
         \A d \in S : d <= a \/ c <= d
  PROVE  Rank(S, c) = Rank(S, a) + 1
  <1>1. S \subseteq Nat
    BY DEF Chunks, DataCount, ParityCount
  <1>2. {d \in S : d < c} = {d \in S : d < a} \union {a}
    <2>1. \A d \in S : d < c <=> d < a \/ d = a
      BY <1>1
    <2> QED
      BY <2>1
  <1>3. IsFiniteSet({d \in S : d < a}) /\ a \notin {d \in S : d < a}
    BY <1>1, RankType
  <1> QED
    BY <1>2, <1>3, FS_AddElement DEF Rank

-----------------------------------------------------------------------------
(* The loss classes.                                                        *)

LEMMA MissingIs ==
  ASSUME case \in DOMAIN LossCases
  PROVE  /\ Missing \in {{1}, {4}, {1, 2}, {4, 5}, {1, 4}}
         /\ Missing \subseteq Chunks /\ Available \subseteq Chunks
         /\ MissingData \subseteq Chunks /\ MissingData \subseteq DataChunks
         /\ MissingParity \subseteq 4 .. 5
  <1>1. case \in {1, 2, 3, 4, 5}
    BY DEF LossCases
  <1>2. Missing \in {{1}, {4}, {1, 2}, {4, 5}, {1, 4}}
    BY <1>1 DEF Missing, LossCases, DataCount
  <1> QED
    BY <1>2 DEF Available, MissingData, MissingParity, Chunks, DataChunks, DataCount, ParityCount

\* The recovered blocks that are consumed are within recover_dst.
LEMMA OutputIsBlock ==
  ASSUME case \in DOMAIN LossCases, NEW c \in MissingData
  PROVE  Rank(MissingData, c) \in Parities
  <1>1. MissingData \subseteq {1, 2} /\ c \in {1, 2}
    BY MissingIs DEF MissingData, DataChunks, DataCount
  <1>2. {d \in MissingData : d < c} \subseteq {1}
    <2> SUFFICES ASSUME NEW d \in MissingData, d < c PROVE d = 1
      OBVIOUS
    <2>1. d \in {1, 2}
      BY <1>1
    <2> QED
      BY <1>1, <2>1
  <1>3. {d \in MissingData : d < c} = {} \/ {d \in MissingData : d < c} = {1}
    BY <1>2
  <1>4. Rank(MissingData, c) \in {0, 1}
    BY <1>3, FS_EmptySet, FS_Singleton DEF Rank
  <1> QED
    BY <1>4 DEF Parities, ParityCount

\* There are enough chunks left to recover from.
LEMMA EnoughLeft ==
  ASSUME case \in DOMAIN LossCases, MissingData # {}, NEW i \in 1 .. DataCount
  PROVE  \E c \in Available : Rank(Available, c) = i - 1
  <1>1. Missing \in {{1}, {1, 2}, {1, 4}}
    BY MissingIs DEF MissingData, DataChunks, DataCount
  <1>2. Chunks = {0, 1, 2, 3, 4, 5}
    BY DEF Chunks, DataCount, ParityCount
  <1>3. i \in {1, 2, 3, 4}
    BY DEF DataCount
  <1>4. CASE Missing = {1}
    <2>1. Available = {0, 2, 3, 4, 5}
      BY <1>2, <1>4 DEF Available
    <2>2. Rank(Available, 0) = 0
      BY <1>2, <2>1, RankFirst
    <2>3. Rank(Available, 2) = Rank(Available, 0) + 1
      BY <1>2, <2>1, RankNext
    <2>4. Rank(Available, 3) = Rank(Available, 2) + 1
      BY <1>2, <2>1, RankNext
    <2>5. Rank(Available, 4) = Rank(Available, 3) + 1
      BY <1>2, <2>1, RankNext
    <2> QED
      BY <1>3, <2>1, <2>2, <2>3, <2>4, <2>5
  <1>5. CASE Missing = {1, 2}
    <2>1. Available = {0, 3, 4, 5}
      BY <1>2, <1>5 DEF Available
    <2>2. Rank(Available, 0) = 0
      BY <1>2, <2>1, RankFirst
    <2>3. Rank(Available, 3) = Rank(Available, 0) + 1
      BY <1>2, <2>1, RankNext
    <2>4. Rank(Available, 4) = Rank(Available, 3) + 1
      BY <1>2, <2>1, RankNext
    <2>5. Rank(Available, 5) = Rank(Available, 4) + 1
      BY <1>2, <2>1, RankNext
    <2> QED
      BY <1>3, <2>1, <2>2, <2>3, <2>4, <2>5
  <1>6. CASE Missing = {1, 4}
    <2>1. Available = {0, 2, 3, 5}
      BY <1>2, <1>6 DEF Available
    <2>2. Rank(Available, 0) = 0
      BY <1>2, <2>1, RankFirst
    <2>3. Rank(Available, 2) = Rank(Available, 0) + 1
      BY <1>2, <2>1, RankNext
    <2>4. Rank(Available, 3) = Rank(Available, 2) + 1
      BY <1>2, <2>1, RankNext
    <2>5. Rank(Available, 5) = Rank(Available, 3) + 1
      BY <1>2, <2>1, RankNext
    <2> QED
      BY <1>3, <2>1, <2>2, <2>3, <2>4, <2>5
  <1> QED
    BY <1>1, <1>4, <1>5, <1>6

\* A recovery that is given what prepare_recover_input() prepares finds the
\* source blocks where it expects them: up to the last chunk that is taken,
\* the holes are exactly the missing chunks.
LEMMA InputIsExpected ==
  ASSUME case \in DOMAIN LossCases, holes = PrepareHoles
  PROVE  PrepareInput = ExpectedInput
  <1> USE MissingIs
  <1>a. /\ Missing \subseteq Chunks /\ Available \subseteq Chunks /\ Present \subseteq Chunks
        /\ Available \subseteq Present /\ Chunks \subseteq Nat
    BY DEF Available, Present, PrepareHoles, Chunks, DataCount, ParityCount
  <1>1. ASSUME NEW c \in Chunks, Rank(Available, c) < DataCount
        PROVE  Rank(Present, c) = Rank(Available, c) /\ (c \in Present => c \in Available)
    <2>1. ASSUME NEW d \in Chunks, d <= c PROVE d \in Present <=> d \in Available
      <3>1. Rank(Available, d) <= Rank(Available, c)
        BY <1>a, <2>1, RankGrows
      <3>2. Rank(Available, d) \in Nat /\ Rank(Available, c) \in Nat
        BY <1>a, RankType
      <3>3. Rank(Available, d) < DataCount
        BY <1>1, <3>1, <3>2 DEF DataCount
      <3> QED
        BY <3>3 DEF Available, Present, PrepareHoles
    <2>2. {d \in Present : d < c} = {d \in Available : d < c}
      <3>1. \A d \in Chunks : d < c => d <= c
        BY <1>a
      <3>2. \A d : (d \in Present /\ d < c) <=> (d \in Available /\ d < c)
        BY <1>a, <2>1, <3>1
      <3> QED
        BY <3>2
    <2>3. c <= c
      BY <1>a
    <2> QED
      BY <2>1, <2>2, <2>3 DEF Rank
  <1>2. ASSUME NEW i \in 1 .. DataCount, NEW c
        PROVE  (c \in Available /\ Rank(Available, c) = i - 1)
                 <=> (c \in Present /\ Rank(Present, c) = i - 1)
    <2>1. i \in Nat /\ i - 1 < DataCount
      BY DEF DataCount
    <2>2. CASE c \in Chunks /\ Rank(Available, c) < DataCount
      BY <1>a, <1>1, <2>2
    <2>3. CASE c \in Chunks /\ ~(Rank(Available, c) < DataCount)
      <3>1. Rank(Available, c) <= Rank(Present, c)
        BY <1>a, <2>3, RankGrows
      <3>2. Rank(Available, c) \in Nat /\ Rank(Present, c) \in Nat
        BY <1>a, <2>3, RankType
      <3> QED
        BY <2>1, <2>3, <3>1, <3>2 DEF DataCount
    <2>4. CASE c \notin Chunks
      BY <1>a, <2>4
    <2> QED
      BY <2>2, <2>3, <2>4
  <1>3. ASSUME NEW i \in 1 .. DataCount
        PROVE  (CHOOSE c \in Available : Rank(Available, c) = i - 1)
                 = (CHOOSE c \in Present : Rank(Present, c) = i - 1)
    BY <1>2
  <1> QED
    BY <1>3 DEF PrepareInput, ExpectedInput

\* The missing data comes first among the holes.
LEMMA DataHoles ==
  ASSUME case \in DOMAIN LossCases, holes = PrepareHoles, NEW c \in MissingData
  PROVE  c \in holes /\ holes \subseteq Chunks /\ Rank(holes, c) = Rank(MissingData, c)
  <1> USE MissingIs
  <1>1. \A d \in MissingData : d \in holes
    BY RankSmall DEF PrepareHoles, MissingData
  <1>2. holes \subseteq Chunks
    BY DEF PrepareHoles
  <1>3. {d \in holes : d < c} = {d \in MissingData : d < c}
    <2> SUFFICES ASSUME NEW d \in holes, d < c PROVE d \in MissingData
      BY <1>1
    <2>1. d \in Nat /\ c < DataCount /\ c \in Nat
      BY <1>2 DEF Chunks, MissingData, DataChunks, DataCount, ParityCount
    <2>2. d \in Missing
      BY DEF PrepareHoles
    <2> QED
      BY <2>1, <2>2 DEF MissingData, DataChunks, DataCount
  <1> QED
    BY <1>1, <1>2, <1>3 DEF Rank

\* So the recovery restores the missing data where it is looked for.
LEMMA RecoveryRestores ==
  ASSUME case \in DOMAIN LossCases, holes = PrepareHoles, recoverSrc = PrepareInput,
         NEW c \in MissingData
  PROVE  Recovered[Rank(MissingData, c)] = c
  <1> DEFINE p == Rank(MissingData, c)
  <1>1. p \in Parities /\ c \in holes /\ Rank(holes, c) = p /\ holes \subseteq Chunks
    BY OutputIsBlock, DataHoles
  <1>2. recoverSrc = ExpectedInput
    BY InputIsExpected
  <1> HIDE DEF p
  <1>3. Recovered[p] = CHOOSE e \in holes : Rank(holes, e) = p
    BY <1>1, <1>2 DEF Recovered
  <1>4. (CHOOSE e \in holes : Rank(holes, e) = p) \in holes
        /\ Rank(holes, CHOOSE e \in holes : Rank(holes, e) = p) = p
    BY <1>1
  <1>5. (CHOOSE e \in holes : Rank(holes, e) = p) = c
    BY <1>1, <1>4, RankIsOwn
  <1> QED
    BY <1>3, <1>5 DEF p

-----------------------------------------------------------------------------
(* Types.                                                                   *)

\* What Types leaves out of TypeOK.
Places ==
  /\ ctx \in CtxStates /\ pc \in Pcs
  /\ case \in DOMAIN LossCases
  /\ iter \in 0 .. Iterations - 1
  /\ stage \in {"initial", "create", "recover"}
  /\ recoverSrc \in [1 .. DataCount -> Blocks]
  /\ holes \subseteq Chunks
  /\ createSrc \in [DataChunks -> Blocks]
  /\ recoverDst \in [Parities -> Blocks]
  /\ createDst \in [Parities -> Blocks]
  /\ docaParity \in [Parities -> Blocks]
  /\ troubled \in BOOLEAN

LEMMA BlocksAre ==
  /\ Chunks \subseteq Blocks /\ DataChunks \subseteq Blocks /\ Bad \in Blocks
  /\ \A p \in Parities : DataCount + p \in Blocks
  BY DEF Blocks, Chunks, DataChunks, Parities, DataCount, ParityCount

LEMMA InputTypes ==
  ASSUME case \in DOMAIN LossCases, MissingData # {}
  PROVE  PrepareInput \in [1 .. DataCount -> Blocks] /\ PrepareHoles \subseteq Chunks
  <1>1. ASSUME NEW i \in 1 .. DataCount
        PROVE  (CHOOSE c \in Available : Rank(Available, c) = i - 1) \in Available
    BY EnoughLeft
  <1>2. Available \subseteq Blocks /\ Missing \subseteq Chunks
    BY MissingIs, BlocksAre
  <1>3. PrepareInput \in [1 .. DataCount -> Blocks]
    BY <1>1, <1>2 DEF PrepareInput
  <1> QED
    BY <1>2, <1>3 DEF PrepareHoles

LEMMA EngineTypes ==
  ASSUME Places
  PROVE  Recovered \in [Parities -> Blocks] /\ Created \in [Parities -> Blocks]
  <1>1. ASSUME NEW p \in Parities
        PROVE  Recovered[p] \in Blocks
    <2>1. CASE \A c \in holes : Rank(holes, c) # p
      BY <2>1 DEF Recovered, Places
    <2>2. CASE ~(\A c \in holes : Rank(holes, c) # p)
      <3>1. (CHOOSE c \in holes : Rank(holes, c) = p) \in holes
        BY <2>2
      <3> QED
        BY <2>2, <3>1, BlocksAre DEF Recovered, Places
    <2> QED
      BY <2>1, <2>2
  <1>2. Recovered = [p \in Parities |-> Recovered[p]]
    BY DEF Recovered
  <1>3. Created \in [Parities -> Blocks]
    BY BlocksAre DEF Created
  <1> QED
    BY <1>1, <1>2, <1>3

LEMMA PlacesInit == Init => Places
  <1> SUFFICES ASSUME Init PROVE Places
    OBVIOUS
  <1>1. /\ recoverSrc \in [1 .. DataCount -> Blocks] /\ createSrc \in [DataChunks -> Blocks]
        /\ recoverDst \in [Parities -> Blocks] /\ createDst \in [Parities -> Blocks]
        /\ docaParity \in [Parities -> Blocks] /\ holes \subseteq Chunks
    BY BlocksAre DEF Init
  <1>2. case \in DOMAIN LossCases
    BY DEF Init, LossCases
  <1>3. iter \in 0 .. Iterations - 1
    BY IterationsAssumption DEF Init
  <1> QED
    BY <1>1, <1>2, <1>3 DEF Init, Places, CtxStates, Pcs

LEMMA IterationTypes ==
  ASSUME Places, NextIteration
  PROVE  pc' \in Pcs /\ iter' \in 0 .. Iterations - 1 /\ stage' \in {"initial", "create", "recover"}
  BY IterationsAssumption DEF Places, NextIteration, FirstStage, Pcs

LEMMA PlacesStep == ASSUME Places, [Next]_vars PROVE Places'
  <1> USE DEF Places
  <1>1. CASE \/ Submit \/ SubmitRefused \/ (\E t \in EngineTasks : PollTask(t))
             \/ PollNothing \/ TimedOut \/ InTime \/ RunReturns
    BY <1>1 DEF Submit, SubmitRefused, PollTask, PollNothing, TimedOut, InTime, RunReturns,
       memory, history, Pcs
  <1>2. CASE SaveParity
    BY <1>2 DEF SaveParity, history, Pcs
  <1>3. CASE BeginCase
    <2>1. createSrc' = [i \in DataChunks |-> i] /\ iter' = 0 /\ stage' = FirstStage /\ pc' = "run"
          /\ UNCHANGED <<ctx, case, recoverDst, createDst, docaParity, troubled>>
      BY <1>3 DEF BeginCase, history
    <2>2. createSrc' \in [DataChunks -> Blocks]
      BY <2>1, BlocksAre
    <2>3. recoverSrc' \in [1 .. DataCount -> Blocks] /\ holes' \subseteq Chunks
      <3>1. CASE MissingData = {}
        BY <1>3, <3>1 DEF BeginCase
      <3>2. CASE MissingData # {}
        BY <1>3, <3>2, InputTypes DEF BeginCase
      <3> QED
        BY <3>1, <3>2
    <2>4. iter' \in 0 .. Iterations - 1 /\ stage' \in {"create", "recover"}
      BY <2>1, IterationsAssumption DEF FirstStage
    <2> QED
      BY <2>1, <2>2, <2>3, <2>4 DEF Pcs
  <1>4. CASE BeginCaseFails
    <2>1. createSrc' \in [DataChunks -> Blocks] /\ recoverSrc' \in [1 .. DataCount -> Blocks]
      BY <1>4, InputTypes, BlocksAre DEF BeginCaseFails
    <2> QED
      BY <1>4, <2>1 DEF BeginCaseFails, Pcs
  <1>5. CASE AfterRecover
    <2>1. createSrc' \in [DataChunks -> Blocks]
      <3>1. \A c \in MissingData : recoverDst[Rank(MissingData, c)] \in Blocks
        BY OutputIsBlock
      <3> QED
        BY <1>5, <3>1 DEF AfterRecover
    <2>2. pc' \in Pcs /\ iter' \in 0 .. Iterations - 1 /\ stage' \in {"initial", "create", "recover"}
      <3>1. CASE MissingParity # {}
        BY <1>5, <3>1 DEF AfterRecover, Pcs
      <3>2. CASE MissingParity = {}
        BY <1>5, <3>2, IterationTypes DEF AfterRecover
      <3> QED
        BY <3>1, <3>2
    <2> QED
      BY <1>5, <2>1, <2>2 DEF AfterRecover, history
  <1>6. CASE AfterCreate
    BY <1>6, IterationTypes DEF AfterCreate, memory, history
  <1>7. CASE Compare \/ RunFailed
    BY <1>7 DEF Compare, RunFailed, memory, history, Pcs
  <1>8. CASE VerifyCpu
    <2>1. case' \in DOMAIN LossCases /\ pc' \in Pcs
      BY <1>8 DEF VerifyCpu, LossCases, Pcs
    <2> QED
      BY <1>8, <2>1 DEF VerifyCpu, memory, history
  <1>9. CASE Report \/ StopDone \/ \E t \in EngineTasks : StopPoll(t)
    BY <1>9 DEF Report, DocaStop, StopDone, StopPoll, memory, history, CtxStates, Pcs
  <1>10. CASE \E t \in EngineTasks : Complete(t) \/ Fail(t)
    BY <1>10, EngineTypes DEF Complete, Fail, memory, history
  <1>11. CASE Ended \/ UNCHANGED vars
    BY <1>11 DEF Ended, vars, memory, history
  <1> QED
    BY <1>1, <1>2, <1>3, <1>4, <1>5, <1>6, <1>7, <1>8, <1>9, <1>10, <1>11 DEF Next, Program

-----------------------------------------------------------------------------
(* Every step keeps the data path healthy, or is trouble.                   *)

\* The operators of the data path are those of the class and of the memory.
LEMMA SameMemory ==
  ASSUME UNCHANGED <<case, memory>>
  PROVE  /\ Missing' = Missing /\ MissingData' = MissingData /\ Available' = Available
         /\ Restored' = Restored /\ PrepareInput' = PrepareInput /\ PrepareHoles' = PrepareHoles
  BY DEF memory, Missing, MissingData, Available, Restored, PrepareInput, PrepareHoles, Rank

\* What the engine writes when the data path is healthy.
LEMMA EngineRight ==
  ASSUME Places, Healthy, ~troubled
  PROVE  /\ Created = Reference
         /\ InCase /\ stage = "recover" =>
              \A c \in MissingData : Recovered[Rank(MissingData, c)] = c
  <1>1. Created = Reference
    BY DEF Healthy, Created, Reference
  <1>2. ASSUME InCase, stage = "recover", NEW c \in MissingData
        PROVE  Recovered[Rank(MissingData, c)] = c
    BY <1>2, RecoveryRestores DEF Healthy, Places
  <1> QED
    BY <1>1, <1>2

LEMMA RunHealthy ==
  ASSUME IInv, Places, Healthy,
         \/ Submit \/ SubmitRefused \/ (\E t \in EngineTasks : PollTask(t))
         \/ PollNothing \/ TimedOut \/ InTime \/ RunReturns
  PROVE  Healthy'
  <1> SUFFICES ASSUME ~troubled' PROVE Healthy'
    BY DEF Healthy
  <1>a. /\ UNCHANGED <<case, stage, memory, docaOk>>
        /\ ~troubled /\ ~timedOut'
        /\ pc \in {"run", "wait", "deadline"} /\ pc' \in {"wait", "deadline", "succeeded"}
    BY DEF Submit, SubmitRefused, PollTask, PollNothing, TimedOut, InTime, RunReturns,
       verdict, history, Healthy
  <1>b. /\ Missing' = Missing /\ MissingData' = MissingData /\ Restored' = Restored
        /\ PrepareInput' = PrepareInput /\ PrepareHoles' = PrepareHoles
        /\ TaskId' = TaskId /\ Reference' = Reference /\ Right' = Right
    BY <1>a, SameMemory DEF TaskId, Reference, Right, memory
  <1>1. ASSUME RunDone' => Right PROVE Healthy'
    BY <1>a, <1>b, <1>1 DEF Healthy, InCase, memory
  <1>2. TaskId \in EngineTasks
    BY DEF TaskId, EngineTasks
  <1>3. CASE Submit
    <2>1. task'[TaskId] = "inflight" /\ ~wait'.done /\ pc' = "wait"
      BY <1>2, <1>3 DEF Submit, DocaSubmit, NotDone, IInv, Types
    <2> QED
      BY <1>1, <1>b, <2>1 DEF RunDone
  <1>4. CASE SubmitRefused \/ TimedOut
    BY <1>4 DEF SubmitRefused, TimedOut
  <1>5. ASSUME NEW t \in EngineTasks, PollTask(t) PROVE Healthy'
    <2>1. Callback(t) /\ AtWork(t) /\ pc' = "deadline" /\ Polling
      BY <1>5 DEF PollTask, Finished, AtWork, Polling
    <2>2. t = TaskId
      BY <1>a, <2>1 DEF IInv, Own, Healthy
    <2>3. task'[t] = "reaped" /\ wait'.status = IF task[t] = "ok" THEN "success" ELSE "error"
      BY <2>1 DEF Callback, IInv, Types
    <2>4. RunDone' => RunDone
      BY <1>b, <2>1, <2>2, <2>3 DEF RunDone
    <2> QED
      BY <1>1, <1>a, <2>4 DEF Healthy
  <1>6. CASE PollNothing \/ InTime
    <2>1. RunDone' => RunDone
      BY <1>6, <1>b DEF PollNothing, InTime, RunDone, Polling
    <2> QED
      BY <1>1, <1>a, <2>1 DEF Healthy
  <1>7. CASE RunReturns
    <2>1. RunDone
      BY <1>7, <1>a DEF RunReturns, RunDone, Polling
    <2> QED
      BY <1>1, <1>a, <2>1 DEF Healthy
  <1> QED
    BY <1>3, <1>4, <1>5, <1>6, <1>7

LEMMA CaseHealthy ==
  ASSUME IInv, Places, Healthy,
         \/ SaveParity \/ BeginCase \/ BeginCaseFails \/ AfterRecover \/ AfterCreate
         \/ Compare \/ RunFailed \/ VerifyCpu
  PROVE  Healthy'
  <1> SUFFICES ASSUME ~troubled' PROVE Healthy'
    BY DEF Healthy
  <1>a. ~troubled /\ ~timedOut /\ ~timedOut' /\ pc # "failed"
    <2>1. UNCHANGED <<timedOut, troubled>>
      BY DEF SaveParity, BeginCase, BeginCaseFails, AfterRecover, AfterCreate, Compare, RunFailed,
         VerifyCpu, history
    <2> QED
      BY <2>1 DEF Healthy
  <1>b. Reference' = Reference
    BY DEF Reference
  <1>1. CASE SaveParity
    <2>1. /\ stage' = "initial" /\ pc' = "case" /\ UNCHANGED <<createSrc, createDst>>
          /\ docaParity' = createDst /\ createDst = Reference
      BY <1>1, <1>a DEF SaveParity, Healthy, RunDone, Right
    <2> QED
      BY <1>a, <1>b, <2>1 DEF Healthy, InCase, RunDone, Polling
  <1>2. CASE BeginCase
    <2>1. /\ pc = "case" /\ pc' = "run" /\ stage' = FirstStage
          /\ createSrc' = [i \in DataChunks |-> i]
          /\ UNCHANGED <<case, createDst, docaParity>>
          /\ MissingData # {} => recoverSrc' = PrepareInput /\ holes' = PrepareHoles
      BY <1>2 DEF BeginCase
    <2>2. /\ Missing' = Missing /\ MissingData' = MissingData
          /\ PrepareInput' = PrepareInput /\ PrepareHoles' = PrepareHoles
      BY <2>1 DEF Missing, MissingData, PrepareInput, PrepareHoles, Available, Rank
    <2>3. stage' = "recover" => MissingData # {}
      BY <2>1 DEF FirstStage
    <2>4. stage' = "create" => MissingData = {}
      BY <2>1 DEF FirstStage
    <2>5. stage' = "create" => Restored'
      BY <2>2, <2>4 DEF Restored
    <2>6. docaParity = Reference /\ createDst = Reference
      BY <1>a, <2>1 DEF Healthy
    <2> QED
      BY <1>a, <1>b, <2>1, <2>2, <2>3, <2>5, <2>6 DEF Healthy, RunDone, Polling
  <1>3. CASE BeginCaseFails
    BY <1>3 DEF BeginCaseFails
  <1>4. CASE AfterRecover
    <2>1. /\ pc = "succeeded" /\ stage = "recover" /\ InCase /\ RunDone
          /\ UNCHANGED <<case, recoverSrc, holes, recoverDst, createDst, docaParity>>
      BY <1>4 DEF AfterRecover, InCase, RunDone
    <2>2. Restored /\ MissingData # {} /\ recoverSrc = PrepareInput /\ holes = PrepareHoles
          /\ docaParity = Reference /\ createDst = Reference
      BY <1>a, <2>1 DEF Healthy, Right
    <2>3. /\ Missing' = Missing /\ MissingData' = MissingData /\ Restored' = Restored
          /\ PrepareInput' = PrepareInput /\ PrepareHoles' = PrepareHoles
      BY <2>1 DEF Missing, MissingData, Restored, PrepareInput, PrepareHoles, Available, Rank
    <2>4. createSrc' = [c \in DataChunks |-> c]
      <3>1. createSrc' = [c \in DataChunks |->
              IF c \in MissingData THEN recoverDst[Rank(MissingData, c)] ELSE createSrc[c]]
        BY <1>4 DEF AfterRecover
      <3>2. \A c \in DataChunks :
              (IF c \in MissingData THEN recoverDst[Rank(MissingData, c)] ELSE createSrc[c]) = c
        BY <1>a, <2>2 DEF Healthy, Restored
      <3> QED
        BY <3>1, <3>2
    <2>5. pc' \in {"run", "compare"} /\ stage' \in {"create", "recover"}
      BY <1>4 DEF AfterRecover, NextIteration, FirstStage
    <2> QED
      BY <1>a, <1>b, <2>2, <2>1, <2>3, <2>4, <2>5 DEF Healthy, RunDone, Polling
  <1>5. CASE AfterCreate
    <2>1. /\ pc = "succeeded" /\ stage = "create" /\ InCase
          /\ UNCHANGED <<case, memory>>
      BY <1>5 DEF AfterCreate, InCase
    <2>2. /\ Restored /\ docaParity = Reference /\ createDst = Reference
          /\ createSrc = [c \in DataChunks |-> c]
          /\ MissingData # {} => recoverSrc = PrepareInput /\ holes = PrepareHoles
      BY <1>a, <2>1 DEF Healthy
    <2>3. /\ Missing' = Missing /\ MissingData' = MissingData /\ Restored' = Restored
          /\ PrepareInput' = PrepareInput /\ PrepareHoles' = PrepareHoles
      BY <2>1, SameMemory
    <2>4. /\ pc' \in {"run", "compare"} /\ stage' \in {"create", "recover"}
          /\ stage' = "recover" => MissingData # {}
      BY <1>5 DEF AfterCreate, NextIteration, FirstStage
    <2> QED
      BY <1>a, <1>b, <2>1, <2>2, <2>3, <2>4 DEF Healthy, RunDone, Polling, memory
  <1>6. CASE Compare
    <2>1. pc = "compare" /\ pc' = "cpu" /\ UNCHANGED <<stage, memory>>
      BY <1>6 DEF Compare
    <2>2. docaOk' = /\ \A c \in MissingData : recoverDst[Rank(MissingData, c)] = c
                    /\ \A c \in MissingParity :
                         createDst[c - DataCount] = docaParity[c - DataCount]
      BY <1>6 DEF Compare
    <2>3. docaOk'
      <3>1. Restored /\ createDst = docaParity
        BY <1>a, <2>1 DEF Healthy, InCase
      <3> QED
        BY <2>2, <3>1 DEF Restored
    <2> QED
      BY <1>a, <1>b, <2>1, <2>3 DEF Healthy, InCase, RunDone, Polling, memory
  <1>7. CASE RunFailed
    BY <1>7, <1>a DEF RunFailed
  <1>8. CASE VerifyCpu
    <2>1. /\ pc' \in {"case", "report"} /\ UNCHANGED <<stage, memory>> /\ pc = "cpu"
      BY <1>8 DEF VerifyCpu
    <2> QED
      BY <1>a, <1>b, <2>1 DEF Healthy, InCase, RunDone, Polling, memory
  <1> QED
    BY <1>1, <1>2, <1>3, <1>4, <1>5, <1>6, <1>7, <1>8

LEMMA RestHealthy ==
  ASSUME IInv, Places, Healthy,
         \/ Report \/ StopDone \/ Ended \/ UNCHANGED vars
         \/ \E t \in EngineTasks : StopPoll(t) \/ Complete(t) \/ Fail(t)
  PROVE  Healthy'
  <1> SUFFICES ASSUME ~troubled' PROVE Healthy'
    BY DEF Healthy
  <1>a. /\ ~troubled /\ ~timedOut /\ UNCHANGED <<case, stage, docaOk, timedOut>>
    BY DEF Report, StopDone, Ended, StopPoll, Complete, Fail, vars, verdict, history, Healthy
  <1>b. /\ Missing' = Missing /\ MissingData' = MissingData /\ TaskId' = TaskId
        /\ PrepareInput' = PrepareInput /\ PrepareHoles' = PrepareHoles
        /\ Reference' = Reference
    BY <1>a DEF Missing, MissingData, TaskId, PrepareInput, PrepareHoles, Available, Rank, Reference
  <1>1. CASE Report \/ StopDone \/ \E t \in EngineTasks : StopPoll(t)
    <2>1. pc' \in {"stop", "end"} /\ UNCHANGED memory
      BY <1>1 DEF Report, StopDone, StopPoll
    <2>2. stage # "initial" => docaParity = Reference /\ createDst = Reference
      BY <1>a DEF Healthy
    <2> QED
      BY <1>a, <1>b, <2>1, <2>2 DEF Healthy, InCase, RunDone, Polling, memory
  <1>2. CASE Ended \/ UNCHANGED vars
    <2>1. UNCHANGED <<pc, task, wait, memory>>
      BY <1>2 DEF Ended, vars
    <2>2. Restored' = Restored
      BY <1>a, <2>1, SameMemory
    <2> QED
      BY <1>a, <1>b, <2>1, <2>2 DEF Healthy, InCase, RunDone, Right, Polling, memory
  <1>3. ASSUME NEW t \in EngineTasks, Complete(t) PROVE Healthy'
    <2>1. /\ AtWork(t) /\ task' = [task EXCEPT ![t] = "ok"]
          /\ UNCHANGED <<pc, wait, recoverSrc, holes, createSrc, docaParity>>
      BY <1>3 DEF Complete, EngineCompletes, AtWork
    <2>2. Polling /\ ~wait.done /\ t = TaskId
      BY <1>a, <2>1 DEF IInv, Own
    <2>3. CASE t = "recover"
      <3>1. stage = "recover" /\ InCase /\ recoverDst' = Recovered /\ UNCHANGED createDst
        BY <1>3, <2>2, <2>3 DEF Complete, TaskId, InCase, Polling
      <3>2. Restored'
        BY <1>a, <1>b, <3>1, EngineRight DEF Restored, Rank
      <3> QED
        BY <1>a, <1>b, <2>1, <2>2, <3>1, <3>2 DEF Healthy, InCase, Right, Polling
    <2>4. CASE t = "create"
      <3>1. stage # "recover" /\ createDst' = Created /\ UNCHANGED recoverDst
        BY <1>3, <2>2, <2>4 DEF Complete, TaskId
      <3>2. createDst' = Reference
        BY <1>a, <3>1, EngineRight
      <3>3. Restored' = Restored
        BY <1>b, <3>1 DEF Restored, Rank
      <3> QED
        BY <1>a, <1>b, <2>1, <2>2, <3>1, <3>2, <3>3 DEF Healthy, InCase, Right, Polling
    <2> QED
      BY <2>3, <2>4 DEF EngineTasks
  <1>4. ASSUME NEW t \in EngineTasks, Fail(t) PROVE Healthy'
    <2>1. /\ task' = [task EXCEPT ![t] = "failed"] /\ UNCHANGED <<pc, wait, memory>>
      BY <1>4 DEF Fail, EngineFails
    <2>2. RunDone' => RunDone
      BY <1>b, <2>1 DEF RunDone, Polling, IInv, Types
    <2>3. Restored' = Restored
      BY <1>a, <2>1, SameMemory
    <2> QED
      BY <1>a, <1>b, <2>1, <2>2, <2>3 DEF Healthy, InCase, Right, memory
  <1> QED
    BY <1>1, <1>2, <1>3, <1>4

LEMMA HealthyInvariance == Spec => [](IInv /\ Places /\ Healthy)
  <1>1. Init => Healthy
    BY DEF Init, Healthy, InCase, RunDone, Polling, NotDone
  <1>2. IInv /\ Places /\ Healthy /\ [Next]_vars => Healthy'
    BY RunHealthy, CaseHealthy, RestHealthy DEF Next, Program
  <1> QED
    BY <1>1, <1>2, InitIInv, NextIInv, PlacesInit, PlacesStep, PTL DEF Spec

\* Every variable of the comparison keeps its type: in every loss class enough
\* chunks are left to recover from, and the blocks that are consumed are within
\* the output.
THEOREM TypeCorrect == Spec => []TypeOK
  <1>1. IInv /\ Places => TypeOK
    BY DEF IInv, Types, Waits, Places, TypeOK
  <1> QED
    BY <1>1, HealthyInvariance, PTL

\* When nothing fails and nothing is late every loss class is found right, for
\* every number of iterations and whatever the order of the callbacks.
THEOREM HealthyClassesPass == Spec => []HealthyCasesPass
  <1>1. Healthy => HealthyCasesPass
    BY DEF Healthy, HealthyCasesPass
  <1> QED
    BY <1>1, HealthyInvariance, PTL
=============================================================================
