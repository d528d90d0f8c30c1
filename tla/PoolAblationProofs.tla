------------------------- MODULE PoolAblationProofs -------------------------
(***************************************************************************)
(* Proofs about PoolAblation, for every number of datasets and OSDs, every *)
(* number of objects, and every number of faults:                          *)
(*                                                                         *)
(*   - however the driver ends but by being killed, it restores the        *)
(*     defaults as far as the commands of restore_defaults succeed;        *)
(*   - where neighbouring datasets differ in their number of objects,      *)
(*     every row of the report was measured on its own dataset;            *)
(*   - the assertions on the counters pass over no failed task, unless an  *)
(*     OSD has lost its counters.                                          *)
(***************************************************************************)
EXTENDS PoolAblation, FiniteSetTheorems, TLAPS

(* ExitRestores.                                                            *)

\* The outcome is set only where the driver stops, and all places that set it
\* to anything but "killed" come after restore_defaults.  What the monitors hold
\* is not changed while its restart script runs, so the OSDs that have been
\* restarted run with it.
Restoring == {"trap_restart", "end_restart"}

RestoreInv ==
  /\ running = [o \in Osds |-> running[o]]
  /\ pc # "idle" => outcome = "none"
  /\ pc \in Restoring \union {"final"} => stored \subseteq missed
  /\ pc \in Restoring => \A o \in Osds \ pending : running[o] = stored
  /\ pc = "final" /\ "restart" \notin missed => \A o \in Osds : running[o] = stored
  /\ ExitRestores

LEMMA RestoreStep == RestoreInv /\ [Next]_vars => RestoreInv'
  <1> SUFFICES ASSUME RestoreInv, [Next]_vars PROVE RestoreInv'
    OBVIOUS
  <1> USE DEF RestoreInv, ExitRestores, Restoring
  <1>0. /\ pc # "idle" /\ pc' \notin {"idle", "final"} \union Restoring /\ outcome' = outcome
        /\ running' = running
        => RestoreInv'
    OBVIOUS
  <1>1. CASE Start
    BY <1>1 DEF Start
  <1>2. CASE Load \/ CheckCount
    BY <1>0, <1>2 DEF Load, CheckCount, TruncateManifest, WriteManifest, ReuseDataset, BeginLoad,
                LoadObject, EndLoad, Goto, driver, config
  <1>3. CASE Measure
    BY <1>0, <1>3 DEF Measure, SkipCase, Configure, ConfigureRest, Verify, SnapshotBefore,
                BeginRead, EndRead, AfterCase, Goto, config
  <1>4. CASE Judge \/ Checkpoint
    BY <1>0, <1>4 DEF Judge, SnapshotAfter, CreateDelta, WriteDelta, CheckCounters, CaseReport,
                Checkpoint, Report, AfterCase, NextDataset, Goto, config
  <1>5. CASE FinalReport \/ FinalFails
    BY <1>5 DEF FinalReport, FinalFails, config
  <1>6. CASE RestoreSettings \/ RestoreFails
    <2>1. PICK F : SettingsRestored(F)
      BY <1>6 DEF RestoreSettings, RestoreFails
    <2> QED
      BY <2>1 DEF SettingsRestored, Goto
  <1>7. ASSUME NEW o \in Osds, RestartOsd(o) PROVE RestoreInv'
    BY <1>7 DEF RestartOsd, Restarting, driver
  <1>8. CASE AllRestarted \/ RestartFails
    BY <1>8 DEF AllRestarted, RestartFails, RestoreEnds, Restarting, Goto, config
  <1>9. CASE CommandFails \/ LoadsFewer
    BY <1>0, <1>9 DEF CommandFails, LoadsFewer, Goto, config
  <1>10. CASE Killed
    BY <1>10 DEF Killed, config
  <1>11. CASE \E o \in Osds : TaskError(o) \/ OsdCrash(o)
    BY <1>11 DEF TaskError, OsdCrash, driver, config
  <1>12. CASE Finalize \/ UNCHANGED vars
    BY <1>12 DEF Finalize, vars, driver, config
  <1> QED
    BY <1>1, <1>2, <1>3, <1>4, <1>5, <1>6, <1>7, <1>8, <1>9, <1>10, <1>11, <1>12
    DEF Next, Driver, Restart, Finish, Faulty, Ending

\* A run of the driver that was not killed leaves each setting at its default,
\* unless the command for it in restore_defaults failed, and the OSDs running
\* with what the monitors hold, unless the restart script failed.
THEOREM DefaultsRestored == Spec => []ExitRestores
  <1>1. Init => RestoreInv
    BY DEF Init, RestoreInv, ExitRestores, Restoring
  <1>2. RestoreInv => ExitRestores
    BY DEF RestoreInv
  <1> QED
    BY <1>1, <1>2, RestoreStep, PTL DEF Spec

-----------------------------------------------------------------------------
(* RowsAreMeasured.                                                         *)

\* The commands before the pool is counted, those of run_case up to the moment
\* the case is done for, and those from which the next dataset is reached.
Describing == {"manifest", "describe", "check_load"}
Opening    == Describing \union {"loading", "count"}
Preparing  == {"configure", "restart", "verify", "before", "read", "reading"}
Judging    == {"after", "delta", "difference", "assert", "case_report"}
Counted    == {"case", "checkpoint"} \union Preparing \union Judging
Loaded     == {"loading", "count"} \union Counted

Types ==
  /\ pc \in Pcs /\ d \in Datasets /\ i \in {1, 2}
  /\ load \in [Datasets -> LogStates]
  /\ log \in [Cases -> LogStates]
  /\ delta = [c \in Cases |-> delta[c]]
  /\ pool \in [owner : 0 .. N, n : Nat]
  /\ seen \in [Cases -> [data : 0 .. N, whole : BOOLEAN, batch1 : BOOLEAN,
                         errors : Nat, crashed : BOOLEAN]]
  /\ stored \subseteq Settings /\ running \in [Osds -> SUBSET Settings]
  /\ pending \subseteq Osds /\ missed \subseteq Settings \union {"restart"}
  /\ rows \subseteq Cases /\ figure \subseteq Cases

Both(x) == Done(<<x, 1>>) /\ Done(<<x, 2>>)

\* What is done for where the driver stands: every earlier dataset, the first
\* case once the second is reached, both before the next dataset.
Progress ==
  /\ pc # "idle" => \A x \in Datasets : x < d => Both(x)
  /\ pc \in Opening => i = 1
  /\ pc \in Counted /\ i = 2 => Done(<<d, 1>>)
  /\ pc = "checkpoint" => Both(d)
  /\ pc \in Preparing => ~Done(Current)
  /\ pc = "reading" => log[Current] = "partial"
  /\ pc \in Judging => log[Current] = "complete"
  /\ pc \in {"difference", "assert", "case_report"} => delta[Current].file # "none"

\* Whose objects the pool holds: never a dataset before the driver's own, and a
\* later one only when everything before it is done.
Holds ==
  /\ \A x \in Datasets : x < pool.owner => Both(x)
  /\ \A x \in Datasets : load[x] = "complete" => pool.owner # 0
  /\ pc \in Describing /\ d > 1 => pool.n = Expected[d - 1]
  /\ pc \in Counted => pool.n = Expected[d]
  /\ pc \in Loaded => pool.owner >= d

\* What the files of a case stand for.
Honest ==
  /\ pc \in {"before", "read"} => Batch1
  /\ pc = "reading" => Measured(Current)
  /\ \A c \in Cases : log[c] = "complete" => Measured(c)
  /\ \A c \in rows \union figure : Done(c)

Sightings == [data : 0 .. N, whole : BOOLEAN, batch1 : BOOLEAN, errors : Nat, crashed : BOOLEAN]

\* What the two faults during a read record keeps the type of a sighting.
LEMMA SightingOfFault ==
  ASSUME NEW S, NEW c \in S, NEW f \in [S -> Sightings]
  PROVE  /\ [f EXCEPT ![c].errors = @ + 1] \in [S -> Sightings]
         /\ [f EXCEPT ![c].crashed = TRUE] \in [S -> Sightings]
  <1>1. [f EXCEPT ![c].errors = @ + 1] \in [S -> Sightings]
    BY DEF Sightings
  <1>2. [f EXCEPT ![c].crashed = TRUE] \in [S -> Sightings]
    BY DEF Sightings
  <1> QED
    BY <1>1, <1>2

\* Every action, with the operators the actions share.
LEMMA TypesStep == Types /\ [Next]_vars => Types'
  <1> SUFFICES ASSUME Types, [Next]_vars PROVE Types'
    OBVIOUS
  <1> USE NAssumption, ExpectedAssumption
      DEF Types, Pcs, Datasets, Cases, LogStates, Settings, Current,
          Goto, driver, files, perf, config
  <1>1. CASE Start
    BY <1>1 DEF Start
  <1>2. CASE TruncateManifest \/ WriteManifest \/ ReuseDataset
    BY <1>2 DEF TruncateManifest, WriteManifest, ReuseDataset
  <1>3. CASE BeginLoad \/ EndLoad \/ LoadsFewer \/ CheckCount
    <2>1. [owner |-> d, n |-> 0] \in [owner : 0 .. N, n : Nat]
      OBVIOUS
    <2>2. CASE BeginLoad
      BY <2>1, <2>2 DEF BeginLoad
    <2> QED
      BY <1>3, <2>2 DEF EndLoad, LoadsFewer, CheckCount
  <1>14. CASE LoadObject
    <2>1. pool.n + 1 \in Nat /\ pool' = [pool EXCEPT !.n = pool.n + 1]
      BY <1>14 DEF LoadObject
    <2>2. pool' \in [owner : 0 .. N, n : Nat]
      BY <2>1
    <2> QED
      BY <1>14, <2>2 DEF LoadObject
  <1>4. CASE SkipCase \/ Configure \/ ConfigureRest \/ Verify \/ SnapshotBefore
    BY <1>4 DEF SkipCase, AfterCase, Configure, ConfigureRest, Verify, SnapshotBefore
  <1>15. CASE Restart \/ RestartFails
    BY <1>15 DEF Restart, AllRestarted, RestartOsd, RestartFails, RestoreEnds
  <1>5. CASE BeginRead
    BY <1>5 DEF BeginRead, Batch1
  <1>6. CASE EndRead \/ SnapshotAfter \/ CheckCounters
    BY <1>6 DEF EndRead, SnapshotAfter, CheckCounters
  <1>7. CASE CreateDelta \/ WriteDelta
    BY <1>7 DEF CreateDelta, WriteDelta
  <1>8. CASE CaseReport
    BY <1>8 DEF CaseReport, Report, AfterCase, Rows
  <1>9. CASE Checkpoint
    <2>1. d < N => d + 1 \in 1 .. N
      OBVIOUS
    <2> QED
      BY <1>9, <2>1 DEF Checkpoint, Report, NextDataset, Rows
  <1>10. CASE RestoreSettings \/ RestoreFails
    <2>1. PICK F \in SUBSET Settings : SettingsRestored(F)
      BY <1>10 DEF RestoreSettings, RestoreFails
    <2> QED
      BY <2>1 DEF SettingsRestored
  <1>11. CASE FinalReport \/ FinalFails \/ Finalize \/ CommandFails \/ Killed
    BY <1>11 DEF FinalReport, FinalFails, Rows, Finalize, CommandFails, Killed
  <1>12. CASE \E o \in Osds : TaskError(o) \/ OsdCrash(o)
    <2>1. PICK o \in Osds : TaskError(o) \/ OsdCrash(o)
      BY <1>12
    <2>2. Current \in Cases /\ seen \in [Cases -> Sightings]
      BY DEF Sightings
    <2> HIDE DEF Current, Cases, Types
    <2>3. CASE TaskError(o)
      <3>1. seen' \in [Cases -> Sightings]
        BY <2>2, <2>3, SightingOfFault DEF TaskError
      <3> QED
        BY <2>3, <3>1 DEF TaskError, Sightings, Types
    <2>4. CASE OsdCrash(o)
      <3>1. seen' \in [Cases -> Sightings]
        BY <2>2, <2>4, SightingOfFault DEF OsdCrash
      <3>2. running' \in [Osds -> SUBSET Settings]
        BY <2>4 DEF OsdCrash, Types
      <3> QED
        BY <2>4, <3>1, <3>2 DEF OsdCrash, Sightings, Types
    <2> QED
      BY <2>1, <2>3, <2>4
  <1>13. CASE UNCHANGED vars
    BY <1>13 DEF vars
  <1> QED
    BY <1>1, <1>2, <1>3, <1>4, <1>5, <1>6, <1>7, <1>8, <1>9, <1>10, <1>11, <1>12, <1>13, <1>14,
       <1>15
    DEF Next, Driver, Load, Measure, Judge, Finish, Faulty, Ending

\* A case that is done for stays so: its log is only truncated when it is
\* measured, which a case that is done for is not.
LEMMA DoneStays ==
  Types /\ Progress /\ [Next]_vars => \A c \in Cases : Done(c) => Done(c)'
  <1> SUFFICES ASSUME Types, Progress, [Next]_vars, NEW c \in Cases, Done(c) PROVE Done(c)'
    OBVIOUS
  <1> USE DEF Types, Done
  <1>0. log' = log /\ delta' = delta => Done(c)'
    OBVIOUS
  <1>1. CASE BeginRead
    BY <1>1 DEF BeginRead, Progress, Preparing
  <1>2. CASE EndRead
    BY <1>2 DEF EndRead
  <1>3. CASE CreateDelta \/ WriteDelta
    BY <1>3 DEF CreateDelta, WriteDelta
  <1>4. CASE ~(BeginRead \/ EndRead \/ CreateDelta \/ WriteDelta)
    BY <1>0, <1>4 DEF Next, Driver, Load, Measure, Judge, Finish, Faulty, Start, TruncateManifest,
       WriteManifest, ReuseDataset, BeginLoad, LoadObject, EndLoad, CheckCount, SkipCase,
       Configure, ConfigureRest, Verify, SnapshotBefore, SnapshotAfter, CheckCounters, CaseReport,
       Checkpoint, FinalReport, Finalize, LoadsFewer, TaskError, OsdCrash, Restart, AllRestarted,
       RestartOsd, RestoreSettings, SettingsRestored, Ending, CommandFails, RestoreFails,
       RestartFails, FinalFails, Killed, files, vars
  <1> QED
    BY <1>1, <1>2, <1>3, <1>4

LEMMA BothStays ==
  Types /\ Progress /\ [Next]_vars => \A x \in Datasets : Both(x) => Both(x)'
  BY DoneStays DEF Both, Cases

LEMMA ProgressStep == Types /\ Progress /\ [Next]_vars => Progress'
  <1> SUFFICES ASSUME Types, Progress, [Next]_vars PROVE Progress'
    OBVIOUS
  <1>a. d \in Datasets /\ i \in {1, 2} /\ Current \in Cases
    BY DEF Types, Current, Cases
  <1>b. \A x \in Datasets : Both(x) => Both(x)'
    BY BothStays
  <1>c. d' = d /\ Done(<<d, 1>>) => Done(<<d, 1>>)'
    <2>1. <<d, 1>> \in Cases
      BY <1>a DEF Cases
    <2>2. Done(<<d, 1>>) => delta'[<<d, 1>>].file # "none" /\ log'[<<d, 1>>] = "complete"
      BY <2>1, DoneStays DEF Done
    <2> QED
      BY <2>2 DEF Done
  \* While the driver stays at a dataset, what is done for before it stays done for.
  <1>d. pc # "idle" /\ d' = d => \A x \in Datasets : x < d' => Both(x)'
    BY <1>b DEF Progress
  <1>e. pc' = "idle" => Progress'
    BY DEF Progress, Opening, Describing, Counted, Preparing, Judging
  <1>f. pc' = "trap" /\ d' = d /\ pc # "idle" => Progress'
    BY <1>d DEF Progress, Opening, Describing, Counted, Preparing, Judging
  <1> USE DEF Opening, Describing, Counted, Preparing, Judging
  <1>1. CASE Start
    BY <1>1 DEF Start, Progress, Datasets
  <1>2. CASE Load \/ LoadsFewer \/ CheckCount
    <2>1. pc # "idle" /\ d' = d /\ i' = i
      BY <1>2 DEF Load, LoadsFewer, CheckCount, TruncateManifest, WriteManifest, ReuseDataset,
         BeginLoad, LoadObject, EndLoad, Goto, driver
    <2>2. pc \in Opening /\ pc' \in Opening \union {"case", "trap"}
      BY <1>2 DEF Load, LoadsFewer, CheckCount, TruncateManifest, WriteManifest, ReuseDataset,
         BeginLoad, LoadObject, EndLoad, Goto, driver
    <2> QED
      BY <1>d, <2>1, <2>2 DEF Progress
  <1>3. CASE SkipCase \/ CaseReport
    <2>1. CASE pc' = "trap"
      BY <1>f, <1>3, <2>1 DEF SkipCase, CaseReport, Report, AfterCase
    <2>2. CASE pc' # "trap"
      <3>1. AfterCase /\ pc \in {"case", "case_report"}
        BY <1>3, <2>2 DEF SkipCase, CaseReport, Report
      <3>2. Done(Current)
        BY <1>3, <3>1 DEF SkipCase, CaseReport, Done, Progress
      <3>3. CASE i = 1
        BY <1>c, <1>d, <3>1, <3>2, <3>3 DEF AfterCase, Current, Progress
      <3>4. CASE i = 2
        <4>1. Both(d)
          BY <3>1, <3>2, <3>4 DEF Both, Current, Progress
        <4> QED
          BY <1>a, <1>b, <1>c, <1>d, <3>1, <3>4, <4>1 DEF AfterCase, Both, Progress
      <3> QED
        BY <1>a, <3>3, <3>4
    <2> QED
      BY <2>1, <2>2
  <1>4. CASE Configure \/ ConfigureRest \/ Verify \/ SnapshotBefore \/ (Restart /\ pc = "restart")
    <2>1. /\ pc \in Preparing \union {"case"} /\ ~Done(Current)
          /\ UNCHANGED <<d, i, log, delta>>
      BY <1>4 DEF Configure, ConfigureRest, Restart, AllRestarted, RestartOsd, Verify,
         SnapshotBefore, Progress, Goto, files, driver
    <2>2. pc' \in {"configure", "restart", "verify", "before", "read", "trap"}
      BY <1>4 DEF Configure, ConfigureRest, Restart, AllRestarted, RestartOsd, Verify,
         SnapshotBefore, Goto, driver
    <2>3. ~Done(Current)'
      BY <2>1 DEF Done, Current
    <2> QED
      BY <1>c, <1>d, <2>1, <2>2, <2>3 DEF Progress
  <1>5. CASE BeginRead
    <2>1. log'[Current] = "partial" /\ Current' = Current
      BY <1>a, <1>5 DEF BeginRead, Types, Goto, Current
    <2>2. ~Done(Current)'
      BY <2>1 DEF Done
    <2> QED
      BY <1>c, <1>d, <1>5, <2>1, <2>2 DEF BeginRead, Goto, Progress
  <1>6. CASE EndRead
    <2>1. log'[Current] = "complete" /\ Current' = Current
      BY <1>a, <1>6 DEF EndRead, Types, Goto, Current
    <2> QED
      BY <1>c, <1>d, <1>6, <2>1 DEF EndRead, Goto, Progress
  <1>7. CASE SnapshotAfter \/ CheckCounters
    BY <1>c, <1>d, <1>7 DEF SnapshotAfter, CheckCounters, Goto, Current, files, Progress
  <1>8. CASE CreateDelta \/ WriteDelta
    <2>1. delta'[Current].file # "none" /\ Current' = Current
      BY <1>a, <1>8 DEF CreateDelta, WriteDelta, Types, Goto, Current
    <2> QED
      BY <1>c, <1>d, <1>8, <2>1 DEF CreateDelta, WriteDelta, Goto, Progress
  <1>9. CASE Checkpoint
    <2>1. CASE pc' = "trap"
      BY <1>f, <1>9, <2>1 DEF Checkpoint, Report, NextDataset
    <2>2. CASE pc' # "trap"
      <3>1. NextDataset /\ pc = "checkpoint"
        BY <1>9, <2>2 DEF Checkpoint, Report
      <3>2. \A x \in Datasets : x <= d => Both(x)'
        BY <1>a, <1>b, <3>1 DEF Progress, Datasets
      <3> QED
        BY <1>a, <3>1, <3>2 DEF NextDataset, Progress, Datasets
    <2> QED
      BY <2>1, <2>2
  <1>10. CASE RestoreSettings \/ RestoreFails \/ RestartFails \/ (Restart /\ pc # "restart")
    <2>1. /\ pc # "idle" /\ d' = d
          /\ pc' \in {"idle", "trap_restart", "end_restart", "final"}
      BY <1>10 DEF RestoreSettings, RestoreFails, SettingsRestored, RestartFails, Restart,
         AllRestarted, RestartOsd, Restarting, RestoreEnds, Goto, driver
    <2> QED
      BY <1>d, <2>1 DEF Progress
  <1>11. CASE FinalReport \/ FinalFails \/ Killed \/ Finalize
    BY <1>e, <1>11 DEF FinalReport, FinalFails, Killed, Finalize, driver
  <1>12. CASE CommandFails
    BY <1>f, <1>12 DEF CommandFails, Goto
  <1>13. CASE (\E o \in Osds : TaskError(o) \/ OsdCrash(o)) \/ UNCHANGED vars
    <2>1. UNCHANGED <<pc, d, i, log, delta>>
      BY <1>13 DEF TaskError, OsdCrash, driver, files, vars
    <2> QED
      BY <2>1 DEF Progress, Both, Done, Current
  <1> QED
    BY <1>1, <1>2, <1>3, <1>4, <1>5, <1>6, <1>7, <1>8, <1>9, <1>10, <1>11, <1>12, <1>13
    DEF Next, Driver, Measure, Judge, Finish, Faulty, Ending

LEMMA HoldsStep ==
  DistinctCounts /\ Types /\ Progress /\ Holds /\ [Next]_vars => Holds'
  <1> SUFFICES ASSUME DistinctCounts, Types, Progress, Holds, [Next]_vars PROVE Holds'
    OBVIOUS
  <1>a. N \in Nat /\ d \in 1 .. N /\ pool.owner \in Nat
    BY NAssumption DEF Types, Datasets
  <1>b. \A x \in Datasets : Both(x) => Both(x)'
    BY BothStays
  <1> USE DEF Loaded, Opening, Describing, Counted, Preparing, Judging
  \* A step that neither loads nor leaves the dataset.
  <1>c. ASSUME pool' = pool, load' = load, d' = d,
               pc \in Counted \/ pc' \notin Counted,
               pc \in Loaded \/ pc' \notin Loaded,
               pc \in Describing \/ pc' \notin Describing
        PROVE  Holds'
    BY <1>b, <1>c DEF Holds
  <1>1. CASE Start
    BY <1>a, <1>b, <1>1 DEF Start, files, Holds
  <1>2. CASE TruncateManifest \/ WriteManifest
    BY <1>c, <1>2 DEF TruncateManifest, WriteManifest, Goto
  <1>3. CASE ReuseDataset
    \* Every dataset but the first is preceded by one with another count.
    <2>1. d = 1
      <3>1. pool.n = Expected[d] /\ (d > 1 => pool.n = Expected[d - 1])
        BY <1>3 DEF ReuseDataset, Reusable, Holds
      <3>2. d > 1 => d - 1 \in 1 .. N - 1
        BY <1>a
      <3>3. d > 1 => Expected[d - 1] # Expected[(d - 1) + 1]
        BY <3>2 DEF DistinctCounts
      <3> QED
        BY <1>a, <3>1, <3>3
    <2>2. pool.owner >= d
      BY <1>a, <1>3, <2>1 DEF ReuseDataset, Reusable, Holds, Datasets
    <2> QED
      BY <1>b, <1>3, <2>2 DEF ReuseDataset, files, Goto, Holds
  <1>4. CASE BeginLoad
    <2>1. pool' = [owner |-> d, n |-> 0] /\ pc' = "loading" /\ d' = d
      BY <1>4 DEF BeginLoad, Goto
    <2>2. \A x \in Datasets : load'[x] = "complete" => pool'.owner # 0
      BY <1>a, <2>1
    <2>3. \A x \in Datasets : x < pool'.owner => Both(x)'
      BY <1>b, <1>4, <2>1 DEF BeginLoad, Progress
    <2> QED
      BY <1>a, <2>1, <2>2, <2>3 DEF Holds
  <1>5. CASE LoadObject
    <2>1. pool'.owner = pool.owner
      BY <1>5 DEF LoadObject, Types
    <2> QED
      BY <1>b, <1>5, <2>1 DEF LoadObject, driver, files, Holds
  <1>6. CASE EndLoad \/ LoadsFewer
    <2>1. pool.owner # 0
      BY <1>a, <1>6 DEF EndLoad, LoadsFewer, Holds
    <2> QED
      BY <1>b, <1>6, <2>1 DEF EndLoad, LoadsFewer, Goto, Holds
  <1>7. CASE CheckCount
    BY <1>b, <1>7 DEF CheckCount, Goto, files, Holds
  <1>8. CASE SkipCase \/ CaseReport
    BY <1>c, <1>8 DEF SkipCase, CaseReport, Report, AfterCase, files
  <1>9. CASE Configure \/ ConfigureRest \/ Verify \/ SnapshotBefore \/ BeginRead
    BY <1>c, <1>9 DEF Configure, ConfigureRest, Verify, SnapshotBefore, BeginRead, Goto, files
  <1>15. CASE Restart \/ RestartFails
    BY <1>c, <1>15 DEF Restart, AllRestarted, RestartOsd, RestartFails, Restarting, RestoreEnds,
       Goto, files, driver
  <1>10. CASE EndRead \/ SnapshotAfter \/ CreateDelta \/ WriteDelta \/ CheckCounters
    BY <1>c, <1>10 DEF EndRead, SnapshotAfter, CreateDelta, WriteDelta, CheckCounters, Goto, files
  <1>11. CASE Checkpoint
    <2>1. CASE pc' = "manifest"
      <3>1. d' = d + 1 /\ pool.n = Expected[d] /\ pool' = pool /\ load' = load
        BY <1>11, <2>1 DEF Checkpoint, Report, NextDataset, files, Holds
      <3>2. d' - 1 = d
        BY <1>a, <3>1
      <3> QED
        BY <1>b, <2>1, <3>1, <3>2 DEF Holds
    <2>2. CASE pc' # "manifest"
      BY <1>c, <1>11, <2>2 DEF Checkpoint, Report, NextDataset, files
    <2> QED
      BY <2>1, <2>2
  <1>12. CASE RestoreSettings \/ RestoreFails \/ FinalReport \/ FinalFails \/ Finalize
    BY <1>c, <1>12 DEF RestoreSettings, RestoreFails, SettingsRestored, FinalReport, FinalFails,
       Finalize, Goto, driver, files
  <1>13. CASE CommandFails \/ Killed
    BY <1>c, <1>13 DEF CommandFails, Killed, Goto, files
  <1>14. CASE (\E o \in Osds : TaskError(o) \/ OsdCrash(o)) \/ UNCHANGED vars
    BY <1>c, <1>14 DEF TaskError, OsdCrash, driver, files, vars
  <1> QED
    BY <1>1, <1>2, <1>3, <1>4, <1>5, <1>6, <1>7, <1>8, <1>9, <1>10, <1>11, <1>12, <1>13, <1>14,
       <1>15
    DEF Next, Driver, Load, Measure, Judge, Finish, Faulty, Ending

LEMMA HonestStep ==
  Types /\ Progress /\ Holds /\ Honest /\ [Next]_vars => Honest'
  <1> SUFFICES ASSUME Types, Progress, Holds, Honest, [Next]_vars PROVE Honest'
    OBVIOUS
  <1>a. N \in Nat /\ d \in 1 .. N /\ pool.owner \in 0 .. N /\ Current \in Cases
    BY NAssumption DEF Types, Datasets, Current, Cases
  \* The rows of the report are done for, and stay so.
  <1>b. \A c \in (rows \union figure)' : Done(c)'
    <2>1. (rows \union figure)' \subseteq rows \union figure \union Rows
      BY DEF Next, Driver, Load, Measure, Judge, Finish, Faulty, Start, TruncateManifest,
         WriteManifest, ReuseDataset, BeginLoad, LoadObject, EndLoad, CheckCount, SkipCase,
         Configure, ConfigureRest, Verify, SnapshotBefore, BeginRead, EndRead, SnapshotAfter,
         CreateDelta, WriteDelta, CheckCounters, CaseReport, Checkpoint, Report, FinalReport,
         Finalize, LoadsFewer, TaskError, OsdCrash, Restart, AllRestarted, RestartOsd,
         RestoreSettings, SettingsRestored, Ending, CommandFails, RestoreFails, RestartFails,
         FinalFails, Killed, vars
    <2>2. \A c \in rows \union figure \union Rows : c \in Cases /\ Done(c)
      BY DEF Honest, Types, Rows
    <2> QED
      BY <2>1, <2>2, DoneStays
  <1>c. ASSUME log' = log, seen' = seen,
               pc' # "reading",
               pc' \notin {"before", "read"} \/ (pc \in {"before", "read"} /\ running' = running)
        PROVE  Honest'
    BY <1>b, <1>c DEF Honest, Measured, Batch1
  <1>1. CASE Start \/ TruncateManifest \/ WriteManifest \/ ReuseDataset \/ BeginLoad \/ EndLoad
    BY <1>c, <1>1 DEF Start, TruncateManifest, WriteManifest, ReuseDataset, BeginLoad, EndLoad,
       Goto, driver, files
  <1>2. CASE LoadObject \/ LoadsFewer \/ CheckCount \/ SkipCase \/ CaseReport \/ Checkpoint
    BY <1>c, <1>2 DEF LoadObject, LoadsFewer, CheckCount, SkipCase, CaseReport, Checkpoint,
       Report, AfterCase, NextDataset, Goto, driver, files
  <1>3. CASE Configure \/ ConfigureRest \/ SnapshotBefore
    BY <1>c, <1>3 DEF Configure, ConfigureRest, SnapshotBefore, Goto, files, config
  <1>11. CASE Restart \/ RestartFails
    BY <1>c, <1>11 DEF Restart, AllRestarted, RestartOsd, RestartFails, Restarting, RestoreEnds,
       Goto, files, driver
  <1>4. CASE Verify
    BY <1>b, <1>4 DEF Verify, Goto, files, config, Honest, Measured, Batch1
  <1>5. CASE BeginRead
    <2>1. pool.owner = d
      <3>1. ~Both(d) /\ pool.owner >= d
        BY <1>5 DEF BeginRead, Progress, Holds, Preparing, Counted, Loaded, Current, Both, Types
      <3>2. ~(d < pool.owner)
        BY <3>1 DEF Holds, Types
      <3> QED
        BY <1>a, <3>1, <3>2
    <2>2. pool.n = Expected[d] /\ Batch1
      BY <1>5 DEF BeginRead, Holds, Counted, Preparing, Honest
    <2>3. log' = [log EXCEPT ![Current] = "partial"] /\ Current' = Current /\ pc' = "reading"
      BY <1>5 DEF BeginRead, Goto, Current
    <2>4. Measured(Current)'
      BY <1>a, <1>5, <2>1, <2>2, <2>3 DEF BeginRead, Measured, Types, Current
    <2>5. \A c \in Cases :
            log'[c] = "complete" => c # Current /\ log[c] = "complete" /\ seen'[c] = seen[c]
      BY <1>a, <1>5, <2>3 DEF BeginRead, Types
    <2>6. \A c \in Cases : log'[c] = "complete" => Measured(c)'
      BY <2>5 DEF Honest, Measured
    <2> QED
      BY <1>b, <2>3, <2>4, <2>6 DEF Honest
  <1>6. CASE EndRead
    <2>1. Measured(Current) /\ seen' = seen /\ pc' = "after"
      BY <1>6 DEF EndRead, Honest, Goto
    <2>2. \A c \in Cases : log'[c] = "complete" => c = Current \/ log[c] = "complete"
      BY <1>6 DEF EndRead, Types
    <2>3. \A c \in Cases : log'[c] = "complete" => Measured(c)'
      BY <2>1, <2>2 DEF Honest, Measured
    <2> QED
      BY <1>b, <2>1, <2>3 DEF Honest
  <1>7. CASE SnapshotAfter \/ CreateDelta \/ WriteDelta \/ CheckCounters
    BY <1>c, <1>7 DEF SnapshotAfter, CreateDelta, WriteDelta, CheckCounters, Goto, files
  <1>8. CASE RestoreSettings \/ FinalReport \/ Ending
    BY <1>c, <1>8, <1>11 DEF RestoreSettings, RestoreFails, SettingsRestored, FinalReport, Ending,
       CommandFails, FinalFails, Killed, Goto, files
  <1>9. CASE Finalize \/ UNCHANGED vars
    BY <1>b, <1>9 DEF Finalize, vars, driver, files, config, Honest, Measured, Current, Batch1
  <1>10. CASE \E o \in Osds : TaskError(o) \/ OsdCrash(o)
    <2>1. UNCHANGED <<pc, d, i, log>> /\ pc = "reading"
      BY <1>10 DEF TaskError, OsdCrash, driver, files, config
    <2>2. \A c \in Cases : /\ seen'[c].data = seen[c].data
                          /\ seen'[c].whole = seen[c].whole
                          /\ seen'[c].batch1 = seen[c].batch1
      <3>1. seen \in [Cases -> Sightings]
        BY DEF Types, Sightings
      <3>2. \/ seen' = [seen EXCEPT ![Current].errors = @ + 1]
            \/ seen' = [seen EXCEPT ![Current].crashed = TRUE]
        BY <1>10 DEF TaskError, OsdCrash
      <3> QED
        BY <1>a, <3>1, <3>2 DEF Sightings
    <2>3. \A c \in Cases : Measured(c) => Measured(c)'
      BY <2>2 DEF Measured
    <2>4. Measured(Current) => Measured(Current)'
      BY <1>a, <2>1, <2>3 DEF Current, Measured
    <2> QED
      BY <1>b, <2>1, <2>3, <2>4 DEF Honest
  <1> QED
    BY <1>1, <1>2, <1>3, <1>4, <1>5, <1>6, <1>7, <1>8, <1>9, <1>10, <1>11
    DEF Next, Driver, Load, Measure, Judge, Finish, Faulty

\* Where neighbouring datasets differ in their number of objects, whatever ends
\* the driver and however often, a row of the report or of the figure was
\* measured on the whole of its own dataset, in the batch-1 configuration.
THEOREM RowsMeasured == Spec => []RowsAreMeasured
  <1>1. Init => Types /\ Progress /\ Holds /\ Honest
    BY NAssumption
    DEF Init, Types, Progress, Holds, Honest, Pcs, Datasets, Cases, LogStates, Settings, NotSeen,
        Opening, Describing, Counted, Preparing, Judging, Loaded
  <1>2. Types /\ Progress /\ Holds /\ Honest /\ DistinctCounts /\ [Next]_vars
          => (Types /\ Progress /\ Holds /\ Honest)'
    BY TypesStep, ProgressStep, HoldsStep, HonestStep
  <1>3. Types /\ Honest => RowsAreMeasured
    BY DEF Types, Honest, RowsAreMeasured, Done
  <1>4. CASE DistinctCounts
    BY <1>1, <1>2, <1>3, <1>4, PTL DEF Spec
  <1>5. CASE ~DistinctCounts
    <2>1. RowsAreMeasured
      BY <1>5 DEF RowsAreMeasured
    <2> QED
      BY <2>1, PTL
  <1> QED
    BY <1>4, <1>5

-----------------------------------------------------------------------------
(* TypeOK and VerdictHonest.                                                *)

\* The files and counters that the proofs above say nothing of.  No counter
\* exceeds the number of faults, since only a fault raises one.
CounterTypes ==
  /\ manifest \in [Datasets -> JsonStates]
  /\ delta \in [Cases -> [file : JsonStates, total : Int]]
  /\ faults \in 0 .. MaxFaults
  /\ errors \in [Osds -> 0 .. MaxFaults]
  /\ \A o \in Osds : errors[o] <= faults
  /\ before \in [Osds -> 0 .. MaxFaults]
  /\ after \in [Osds -> 0 .. MaxFaults]
  /\ outcome \in {"none", "complete", "exited", "killed"}

\* A task has failed while the case was read, and no OSD lost its counters.
Guilty(c) == seen[c].errors # 0 /\ ~seen[c].crashed

\* How a failed task is carried from the OSD's counter to the verdict: the
\* snapshot before shows zeros, so what the counters show after a read without
\* a crash, the snapshot after shows too, and with it the difference.  A case
\* has a delta only once its log is complete, and is then not read again.
Carried ==
  /\ pc = "restart" => \A o \in Osds \ pending : errors[o] = 0
  /\ pc \in {"verify", "before", "read"} => errors = Zero
  /\ pc \in {"read", "reading", "after", "delta", "difference"} => before = Zero
  /\ pc \in {"reading", "after"} /\ Guilty(Current) => \E o \in Osds : errors[o] > 0
  /\ pc \in {"delta", "difference"} /\ Guilty(Current) => \E o \in Osds : after[o] > 0
  /\ \A c \in Cases : delta[c].file # "none" => log[c] = "complete"
  /\ VerdictHonest

\* There are finitely many errors to count.
LEMMA RiseFinite ==
  ASSUME NEW S, IsFiniteSet(S), NEW n \in Nat, NEW x \in [S -> 0 .. n], NEW y \in [S -> 0 .. n]
  PROVE  IsFiniteSet(Rise(S, x, y))
  <1>1. IsFiniteSet(S \X (1 .. n))
    <2>1. IsFiniteSet(1 .. n)
      BY FS_Interval
    <2> QED
      BY <2>1, FS_Product
  <1>2. Rise(S, x, y) \subseteq S \X (1 .. n)
    <2> SUFFICES ASSUME NEW o \in S, NEW k \in x[o] + 1 .. y[o] PROVE k \in 1 .. n
      BY DEF Rise
    <2>1. x[o] \in 0 .. n /\ y[o] \in 0 .. n
      OBVIOUS
    <2> QED
      BY <2>1
  <1> QED
    BY <1>1, <1>2, FS_Subset

\* A total over counters that have not gone down is zero only if none has
\* gone up.
LEMMA TotalShowsErrors ==
  ASSUME CounterTypes
  PROVE  /\ Total \in Int
         /\ before = Zero /\ (\E o \in Osds : after[o] > 0) => Total # 0
  <1>a. IsFiniteSet(Rise(Osds, before, after)) /\ IsFiniteSet(Rise(Osds, after, before))
    BY RiseFinite, OsdsAssumption, FaultsAssumption DEF CounterTypes
  <1>b. /\ Cardinality(Rise(Osds, before, after)) \in Nat
        /\ Cardinality(Rise(Osds, after, before)) \in Nat
    BY <1>a, FS_CardinalityType
  <1>1. Total \in Int
    BY <1>b DEF Total
  <1>2. ASSUME before = Zero, NEW o \in Osds, after[o] > 0
        PROVE  Total # 0
    <2>1. Rise(Osds, after, before) = {}
      <3> SUFFICES ASSUME NEW q \in Osds, NEW k \in after[q] + 1 .. before[q] PROVE FALSE
        BY DEF Rise
      <3>1. before[q] = 0 /\ after[q] \in Nat
        BY <1>2, FaultsAssumption DEF Zero, CounterTypes
      <3> QED
        BY <3>1
    <2>2. <<o, 1>> \in Rise(Osds, before, after)
      <3>1. before[o] = 0 /\ after[o] \in Nat
        BY <1>2, FaultsAssumption DEF Zero, CounterTypes
      <3>2. 1 \in before[o] + 1 .. after[o]
        BY <1>2, <3>1
      <3> QED
        BY <3>2 DEF Rise
    <2> QED
      BY <1>a, <1>b, <2>1, <2>2, FS_EmptySet DEF Total
  <1> QED
    BY <1>1, <1>2

LEMMA CounterTypesStep == Types /\ CounterTypes /\ [Next]_vars => CounterTypes'
  <1> SUFFICES ASSUME Types, CounterTypes, [Next]_vars PROVE CounterTypes'
    OBVIOUS
  <1>a. Current \in Cases /\ d \in Datasets
    BY DEF Types, Current, Cases
  <1>b. Zero \in [Osds -> 0 .. MaxFaults] /\ \A o \in Osds : Zero[o] <= faults
    BY FaultsAssumption DEF Zero, CounterTypes
  <1> USE FaultsAssumption DEF CounterTypes, JsonStates
  <1>1. CASE Start \/ TruncateManifest \/ WriteManifest \/ ReuseDataset \/ BeginLoad
    BY <1>1 DEF Start, TruncateManifest, WriteManifest, ReuseDataset, BeginLoad, Goto,
       driver, files, perf
  <1>2. CASE LoadObject \/ EndLoad \/ CheckCount \/ SkipCase \/ Configure \/ Verify
    BY <1>2 DEF LoadObject, EndLoad, CheckCount, SkipCase, AfterCase, Configure, Verify, Goto,
       driver, files, perf, config
  <1>11. CASE ConfigureRest \/ AllRestarted \/ RestoreSettings
    BY <1>11 DEF ConfigureRest, AllRestarted, RestoreEnds, RestoreSettings, SettingsRestored, Goto,
       files, perf
  <1>3. ASSUME NEW o \in Osds, RestartOsd(o) PROVE CounterTypes'
    BY <1>3 DEF RestartOsd, driver, files, perf
  <1>4. CASE SnapshotBefore \/ BeginRead \/ EndRead \/ SnapshotAfter \/ CheckCounters
    BY <1>4 DEF SnapshotBefore, BeginRead, EndRead, SnapshotAfter, CheckCounters, Goto,
       files, perf
  <1>5. CASE CreateDelta
    <2>1. [file |-> "empty", total |-> 0] \in [file : JsonStates, total : Int]
      OBVIOUS
    <2>2. delta' \in [Cases -> [file : JsonStates, total : Int]]
      BY <1>5, <2>1 DEF CreateDelta
    <2> QED
      BY <1>5, <2>2 DEF CreateDelta, Goto, perf
  <1>6. CASE WriteDelta
    <2>1. [file |-> "written", total |-> Total] \in [file : JsonStates, total : Int]
      BY TotalShowsErrors
    <2>2. delta' \in [Cases -> [file : JsonStates, total : Int]]
      BY <1>6, <2>1 DEF WriteDelta
    <2> QED
      BY <1>6, <2>2 DEF WriteDelta, Goto, perf
  <1>7. CASE CaseReport \/ Checkpoint \/ FinalReport \/ Finalize
    BY <1>7 DEF CaseReport, Checkpoint, Report, AfterCase, NextDataset, FinalReport, Finalize,
       driver, files, perf
  <1>8. CASE Ending \/ LoadsFewer
    BY <1>8 DEF Ending, CommandFails, RestoreFails, SettingsRestored, RestartFails, RestoreEnds,
       FinalFails, Killed, LoadsFewer, Fault, Goto, files, perf
  <1>9. CASE \E o \in Osds : TaskError(o) \/ OsdCrash(o)
    <2>1. PICK o \in Osds : TaskError(o) \/ OsdCrash(o)
      BY <1>9
    <2>2. /\ faults' \in 0 .. MaxFaults /\ faults' = faults + 1
          /\ UNCHANGED <<manifest, delta, before, after, outcome>>
      BY <2>1 DEF TaskError, OsdCrash, Fault, driver, files, perf
    <2>3. \A q \in Osds : errors'[q] \in Nat /\ errors'[q] <= faults + 1
      BY <2>1 DEF TaskError, OsdCrash
    <2>4. errors' = [q \in Osds |-> errors'[q]]
      BY <2>1 DEF TaskError, OsdCrash
    <2> QED
      BY <2>2, <2>3, <2>4
  <1>10. CASE UNCHANGED vars
    BY <1>10 DEF vars, driver, files, perf
  <1> QED
    BY <1>1, <1>2, <1>3, <1>4, <1>5, <1>6, <1>7, <1>8, <1>9, <1>10, <1>11
    DEF Next, Driver, Load, Restart, Measure, Judge, Finish, Faulty

LEMMA CarriedStep ==
  Types /\ Progress /\ CounterTypes /\ Carried /\ [Next]_vars => Carried'
  <1> SUFFICES ASSUME Types, Progress, CounterTypes, Carried, [Next]_vars PROVE Carried'
    OBVIOUS
  <1>a. Current \in Cases
    BY DEF Types, Current, Cases
  <1> USE DEF Carried, VerdictHonest, Guilty
  \* A step that neither reads, nor measures, nor moves between the commands
  \* of a case that is being measured.
  <1>b. ASSUME UNCHANGED <<log, delta, seen>>,
               pc' \notin {"restart", "verify", "before", "read", "reading", "after", "delta",
                           "difference"}
        PROVE  Carried'
    BY <1>b
  <1>1. CASE Start \/ TruncateManifest \/ WriteManifest \/ ReuseDataset \/ BeginLoad \/ EndLoad
    BY <1>b, <1>1 DEF Start, TruncateManifest, WriteManifest, ReuseDataset, BeginLoad, EndLoad,
       Goto, driver, files
  <1>2. CASE LoadObject \/ LoadsFewer \/ CheckCount \/ SkipCase \/ CaseReport \/ Checkpoint
    BY <1>b, <1>2 DEF LoadObject, LoadsFewer, CheckCount, SkipCase, CaseReport, Checkpoint,
       Report, AfterCase, NextDataset, Goto, driver, files
  <1>3. CASE Configure \/ CheckCounters \/ RestoreSettings \/ FinalReport \/ Ending
    BY <1>b, <1>3 DEF Configure, CheckCounters, RestoreSettings, SettingsRestored, FinalReport,
       Ending, CommandFails, RestoreFails, RestartFails, RestoreEnds, FinalFails, Killed, Goto, files
  <1>4. CASE ConfigureRest
    BY <1>4 DEF ConfigureRest, Goto, files
  <1>13. ASSUME NEW o \in Osds, RestartOsd(o) PROVE Carried'
    BY <1>13 DEF RestartOsd, Restarting, CounterTypes, driver, files
  <1>14. CASE AllRestarted
    <2>1. pc = "restart" => errors = Zero
      BY <1>14 DEF AllRestarted, CounterTypes, Zero
    <2> QED
      BY <1>14, <2>1 DEF AllRestarted, RestoreEnds, Goto, files
  <1>5. CASE Verify \/ SnapshotBefore
    BY <1>5 DEF Verify, SnapshotBefore, Goto, files, config, perf
  <1>6. CASE BeginRead
    <2>1. /\ pc' = "reading" /\ Current' = Current /\ before' = Zero /\ delta' = delta
          /\ log' = [log EXCEPT ![Current] = "partial"]
      BY <1>6 DEF BeginRead, Goto, Current, perf
    <2>2. \A c \in Cases : delta[c].file # "none" => c # Current
      BY <1>6 DEF BeginRead, Progress, Preparing, Done
    <2>3. seen'[Current].errors = 0 /\ \A c \in Cases : c # Current => seen'[c] = seen[c]
      BY <1>a, <1>6 DEF BeginRead, Types
    <2>4. \A c \in Cases : delta'[c].file # "none" => log'[c] = "complete"
      BY <2>1, <2>2 DEF Types
    <2>5. VerdictHonest'
      BY <2>1, <2>3
    <2> QED
      BY <2>1, <2>3, <2>4, <2>5
  <1>7. CASE EndRead
    <2>1. /\ pc' = "after" /\ Current' = Current
          /\ log' = [log EXCEPT ![Current] = "complete"]
          /\ UNCHANGED <<before, errors, delta, seen>>
      BY <1>7 DEF EndRead, Goto, Current, perf
    <2> QED
      BY <1>7, <2>1 DEF EndRead, Types
  <1>8. CASE SnapshotAfter
    BY <1>8 DEF SnapshotAfter, Goto, Current, files
  <1>9. CASE CreateDelta
    <2>1. /\ pc = "delta" /\ pc' = "difference" /\ Current' = Current
          /\ delta' = [delta EXCEPT ![Current] = [file |-> "empty", total |-> 0]]
          /\ UNCHANGED <<before, after, log, seen>>
      BY <1>9 DEF CreateDelta, Goto, Current, perf
    <2>2. delta'[Current].file = "empty" /\ \A c \in Cases : c # Current => delta'[c] = delta[c]
      BY <1>a, <2>1 DEF CounterTypes
    <2>3. log[Current] = "complete"
      BY <2>1 DEF Progress, Judging
    <2> QED
      BY <2>1, <2>2, <2>3
  <1>10. CASE WriteDelta
    <2>1. /\ pc = "difference" /\ pc' = "assert" /\ Current' = Current
          /\ delta' = [delta EXCEPT ![Current] = [file |-> "written", total |-> Total]]
          /\ UNCHANGED <<log, seen>>
      BY <1>10 DEF WriteDelta, Goto, Current
    <2>2. delta'[Current].total = Total /\ \A c \in Cases : c # Current => delta'[c] = delta[c]
      BY <1>a, <2>1 DEF CounterTypes
    <2>3. log[Current] = "complete"
      BY <2>1 DEF Progress, Judging
    <2>4. Guilty(Current) => Total # 0
      BY <2>1, TotalShowsErrors
    <2> QED
      BY <2>1, <2>2, <2>3, <2>4
  <1>11. CASE Finalize \/ UNCHANGED vars
    BY <1>11 DEF Finalize, Current, driver, files, perf, config, vars
  <1>12. ASSUME NEW o \in Osds, TaskError(o) \/ OsdCrash(o) PROVE Carried'
    <2>1. pc = "reading" /\ Current' = Current /\ UNCHANGED <<pc, log, delta, before>>
      BY <1>12 DEF TaskError, OsdCrash, driver, files, perf, Current
    <2>2. \A c \in Cases : c # Current => seen'[c] = seen[c]
      BY <1>12 DEF TaskError, OsdCrash, Types
    <2>3. delta[Current].file = "none"
      BY <1>a, <2>1 DEF Progress
    <2>4. VerdictHonest'
      BY <2>1, <2>2, <2>3
    <2>5. Guilty(Current)' => \E q \in Osds : errors'[q] > 0
      <3>1. CASE TaskError(o)
        <4>1. errors'[o] > 0
          BY <3>1 DEF TaskError, CounterTypes
        <4> QED
          BY <4>1
      <3>2. CASE OsdCrash(o)
        <4>1. seen'[Current].crashed
          BY <1>a, <3>2 DEF OsdCrash, Types
        <4> QED
          BY <2>1, <4>1
      <3> QED
        BY <1>12, <3>1, <3>2
    <2> QED
      BY <2>1, <2>4, <2>5
  <1> QED
    BY <1>1, <1>2, <1>3, <1>4, <1>5, <1>6, <1>7, <1>8, <1>9, <1>10, <1>11, <1>12, <1>13, <1>14
    DEF Next, Driver, Load, Restart, Measure, Judge, Finish, Faulty

LEMMA Tallied ==
  Spec => [](Types /\ Progress /\ CounterTypes /\ Carried)
  <1>1. Init => Types /\ Progress
    BY NAssumption
    DEF Init, Types, Progress, Pcs, Datasets, Cases, LogStates, Settings, NotSeen,
        Opening, Counted, Preparing, Judging
  <1>2. Init => CounterTypes
    BY FaultsAssumption DEF Init, CounterTypes, JsonStates, Zero
  <1>3. Init => Carried
    BY DEF Init, Carried, VerdictHonest, Guilty
  <1> QED
    BY <1>1, <1>2, <1>3, TypesStep, ProgressStep, CounterTypesStep, CarriedStep, PTL DEF Spec

\* The driver's files, counters and bookkeeping have the types TypeOK gives
\* them; in particular the main loop never goes past the last dataset.
THEOREM TypeCorrect == Spec => []TypeOK
  <1>1. Types /\ CounterTypes => TypeOK
    BY FaultsAssumption DEF Types, CounterTypes, TypeOK
  <1> QED
    BY <1>1, Tallied, PTL

\* A case passes the assertions on its counters only if no task failed while it
\* was read, or an OSD crashed meanwhile and lost its counters; whatever was
\* killed, failed or started again before.
THEOREM VerdictsAreHonest == Spec => []VerdictHonest
  <1>1. Carried => VerdictHonest
    BY DEF Carried
  <1> QED
    BY <1>1, Tallied, PTL
=============================================================================
