------------------------ MODULE RecoveryBenchProofs ------------------------
(***************************************************************************)
(* Proofs about RecoveryBench, for every number of configurations and of   *)
(* faults: its types, and the three properties the run checks.             *)
(***************************************************************************)
EXTENDS RecoveryBench, TLAPS

LEMMA TypeInit == Init => TypeOK
  <1> SUFFICES ASSUME Init PROVE TypeOK
    OBVIOUS
  <1>1. RowsOK
    BY DEF Init, RowsOK
  <1>2. /\ cfg \in 1 .. Configs /\ result \in 0 .. cfg
        /\ faults \in 0 .. MaxFaults /\ due \in 0 .. Backlog
    BY ConfigsAssumption, FaultsAssumption DEF Init, Backlog
  <1> QED
    BY <1>1, <1>2 DEF Init, TypeOK, Phases

\* The Boolean variables, and the others.
Bits == isOut \in BOOLEAN /\ honest \in BOOLEAN /\ covered \in BOOLEAN /\ stays \in BOOLEAN
Others ==
  /\ phase \in Phases /\ due \in 0 .. Backlog
  /\ episodes \in Nat /\ reports \in Nat
  /\ pc \in {"check", "pool", "write", "settle", "out", "wait_start", "wait_clean",
             "in", "cleanup", "row", "done", "stopped"}
  /\ cfg \in 1 .. Configs /\ result \in 0 .. cfg
  /\ RowsOK
  /\ last \in {"none", "recovering", "active+clean"}
  /\ faults \in 0 .. MaxFaults

LEMMA TypeSplit == TypeOK <=> Bits /\ Others
  BY DEF TypeOK, Bits, Others

LEMMA BitsStep == Bits /\ [Next]_vars => Bits'
  <1> SUFFICES ASSUME Bits, [Next]_vars PROVE Bits'
    OBVIOUS
  <1>0. UNCHANGED <<isOut, honest, covered, stays>> => Bits'
    BY DEF Bits
  <1> USE DEF Bits
  <1>1. CASE Cluster \/ Poll
    BY <1>0, <1>1 DEF Cluster, MapTakesEffect, Peered, Recovered, Poll, bench, ceph
  <1>2. CASE Disturbed
    BY <1>2, Zenon DEF Disturbed
  <1>3. CASE Prepare \/ Cleanup \/ Killed
    BY <1>0, <1>3, Zenon DEF Prepare, StartConfig, CheckUnanswered, CreatePool, WriteObjects,
       PrepareFails, Settled, OsdsUnlisted, Cleanup, Killed, Goto, ceph
  <1>4. CASE OsdOut \/ OsdOutFails
    BY <1>4, Zenon DEF OsdOut, OsdOutFails, Start, ceph
  <1>5. CASE SeesStart \/ StartTimesOut \/ SeesClean \/ CleanTimesOut
    BY <1>5, Zenon DEF SeesStart, StartTimesOut, SeesClean, CleanTimesOut, Goto, ceph
  <1>6. CASE OsdIn \/ OsdInFails \/ AddRow
    BY <1>6, Zenon DEF OsdIn, OsdInFails, AddRow, ceph
  <1>7. CASE Ended \/ UNCHANGED vars
    BY <1>7 DEF Ended, vars, ceph, bench
  <1> QED
    BY <1>1, <1>2, <1>3, <1>4, <1>5, <1>6, <1>7 DEF Next, Measure, Conclude

LEMMA OthersStep == Others /\ [Next]_vars => Others'
  <1> SUFFICES ASSUME Others, [Next]_vars PROVE Others'
    OBVIOUS
  <1> USE ConfigsAssumption, FaultsAssumption DEF Others, Phases, Backlog
  <1>r. UNCHANGED <<rows, cfg>> /\ pc # "done" /\ pc' # "done" => RowsOK'
    BY DEF RowsOK
  <1>s. UNCHANGED <<rows, cfg, pc>> => RowsOK'
    BY DEF RowsOK
  <1>1. CASE Cluster
    BY <1>1, <1>s DEF Cluster, MapTakesEffect, Peered, Recovered, Becomes, InRecovery, Moving,
       bench, monitor
  <1>2. CASE Disturbed
    BY <1>2, <1>s DEF Disturbed, Fault, monitor
  <1>3. CASE Prepare
    BY <1>3, <1>r DEF Prepare, StartConfig, CheckUnanswered, CreatePool, WriteObjects, PrepareFails,
                Settled, OsdsUnlisted, Goto, LooksClean, Fault, NoFault, ceph, monitor
  <1>4. CASE Measure
    BY <1>4, <1>r DEF Measure, OsdOut, OsdOutFails, Start, SeesStart, StartTimesOut, SeesClean,
                CleanTimesOut, Goto, LooksClean, Fault, NoFault, ceph, monitor
  <1>5. CASE OsdIn \/ OsdInFails \/ Cleanup
    BY <1>5, <1>r DEF OsdIn, OsdInFails, Cleanup, Goto, Fault, NoFault, ceph, monitor
  <1>6. CASE AddRow
    <2>1. result \in 0 .. Configs /\ Len(rows) = cfg - 1 /\ rows \in Seq(0 .. Configs)
      BY <1>6 DEF AddRow, RowsOK
    <2>2. Append(rows, result) \in Seq(0 .. Configs) /\ Len(Append(rows, result)) = cfg
      BY <2>1
    <2>3. RowsOK'
      BY <1>6, <2>2 DEF AddRow, RowsOK
    <2> QED
      BY <1>6, <2>3 DEF AddRow, NoFault, ceph, monitor
  <1>7. CASE Killed
    BY <1>7, <1>r DEF Killed, Goto, Fault, ceph, monitor
  <1>8. CASE Poll
    BY <1>8, <1>s DEF Poll, InRecovery, ceph, bench
  <1>9. CASE Ended \/ UNCHANGED vars
    BY <1>9, <1>s DEF Ended, vars, ceph, bench, monitor
  <1> QED
    BY <1>1, <1>2, <1>3, <1>4, <1>5, <1>6, <1>7, <1>8, <1>9 DEF Next, Conclude

LEMMA TypeStep == TypeOK /\ [Next]_vars => TypeOK'
  <1>1. (Bits /\ Others)' => TypeOK'
    BY DEF TypeOK, Bits, Others
  <1> QED
    BY <1>1, TypeSplit, BitsStep, OthersStep

\* Every variable of the recovery benchmark keeps its type: no row is missing
\* or added twice, whatever run_single_config returns.
THEOREM TypeCorrect == Spec => []TypeOK
  BY TypeInit, TypeStep, PTL DEF Spec

-----------------------------------------------------------------------------
(* OsdsBackIn.                                                              *)

\* Between the configurations the OSD is out only if an "osd in" has failed;
\* from the "osd out" to the "osd in", only in the steps in between.
OutInv ==
  /\ pc \in {"pool", "write", "settle", "out", "cleanup"} => ~isOut \/ stays
  /\ OsdsBackIn

LEMMA OutStep == TypeOK /\ OutInv /\ [Next]_vars => OutInv'
  <1> SUFFICES ASSUME TypeOK, OutInv, [Next]_vars PROVE OutInv'
    OBVIOUS
  <1> USE DEF OutInv, OsdsBackIn
  <1>1. CASE Cluster \/ Disturbed \/ Poll
    BY <1>1 DEF Cluster, MapTakesEffect, Peered, Recovered, Disturbed, Poll, bench, ceph
  <1>2. CASE Prepare
    BY <1>2 DEF Prepare, StartConfig, CheckUnanswered, CreatePool, WriteObjects, PrepareFails,
                Settled, OsdsUnlisted, Goto, ceph
  <1>3. CASE Measure
    BY <1>3 DEF Measure, OsdOut, OsdOutFails, Start, SeesStart, StartTimesOut, SeesClean,
                CleanTimesOut, Goto, ceph
  <1>4. CASE Conclude
    BY <1>4 DEF Conclude, OsdIn, OsdInFails, Cleanup, AddRow, Goto, ceph
  <1>5. CASE Killed
    BY <1>5 DEF Killed, Goto, ceph
  <1>6. CASE Ended \/ UNCHANGED vars
    BY <1>6 DEF Ended, vars, ceph, bench
  <1> QED
    BY <1>1, <1>2, <1>3, <1>4, <1>5, <1>6 DEF Next

\* However a configuration ends, the OSD is in again before the next one,
\* unless "osd in" has failed.
THEOREM BackIn == Spec => []OsdsBackIn
  <1>1. Init => OutInv
    BY DEF Init, OutInv, OsdsBackIn
  <1>2. OutInv => OsdsBackIn
    BY DEF OutInv
  <1> QED
    BY <1>1, <1>2, OutStep, TypeCorrect, PTL DEF Spec

-----------------------------------------------------------------------------
(* DurationCovers.                                                          *)

\* While nothing has gone wrong since a measurement began: the one change of
\* the map that is not in effect is the loss of the OSD, the cluster is clean
\* until it is, and by the end of the first wait it is.
HonestInv ==
  honest =>
    /\ pc = "wait_start" => LooksClean \/ (due = 0 /\ isOut)
    /\ pc = "wait_start" => due = 0 \/ (due = 1 /\ isOut)
    /\ pc = "wait_clean" => due = 0 /\ isOut
    /\ DurationCovers

LEMMA HonestStep == TypeOK /\ HonestInv /\ [Next]_vars => HonestInv'
  <1> SUFFICES ASSUME TypeOK, HonestInv, [Next]_vars PROVE HonestInv'
    OBVIOUS
  <1>t. /\ phase \in Phases /\ due \in Nat
        /\ isOut \in BOOLEAN /\ honest \in BOOLEAN /\ covered \in BOOLEAN
    BY DEF TypeOK, Backlog
  <1> USE DEF HonestInv, DurationCovers, LooksClean
  <1>1. CASE \E to \in {"peering", "remapped"} : MapTakesEffect(to)
    <2>1. due > 0 /\ due' = due - 1 /\ UNCHANGED <<isOut, pc, honest, covered>>
      BY <1>1 DEF MapTakesEffect, bench
    <2>2. CASE honest /\ pc = "wait_start"
      <3>1. due = 1 /\ isOut
        BY <2>1, <2>2
      <3>2. due' = 0
        BY <2>1, <3>1
      <3> QED
        BY <2>1, <2>2, <3>1, <3>2, Zenon
    <2>3. CASE ~(honest /\ pc = "wait_start")
      <3>1. honest => pc \notin {"wait_start", "wait_clean"}
        BY <2>1, <2>3
      <3> QED
        BY <2>1, <3>1, Zenon
    <2> QED
      BY <2>2, <2>3
  <1>2. CASE (\E to \in {"clean", "recovering"} : Peered(to)) \/ Recovered
    <2>1. UNCHANGED <<isOut, due, pc, honest, covered>> /\ phase # "clean"
      BY <1>2 DEF Peered, Recovered, Becomes, bench
    <2> QED
      BY <2>1
  <1>3. CASE Disturbed
    BY <1>3 DEF Disturbed
  <1>4. CASE Prepare
    <2>1. pc' \in {"pool", "write", "settle", "out", "row", "stopped"} /\ honest' = honest
      BY <1>4, Zenon DEF Prepare, StartConfig, CheckUnanswered, CreatePool, WriteObjects,
         PrepareFails, Settled, OsdsUnlisted, Goto
    <2> QED
      BY <2>1
  <1>5. CASE OsdOut \/ OsdOutFails
    <2>1. /\ pc' = "wait_start" /\ honest' = (due = 0 /\ phase = "clean") /\ phase' = phase
          /\ due' = due \/ (due' = due + 1 /\ isOut')
      BY <1>5, Zenon DEF OsdOut, OsdOutFails, Start, ceph
    <2>2. honest' => phase' = "clean" /\ (due' = 0 \/ (due' = 1 /\ isOut'))
      <3> SUFFICES ASSUME due = 0, phase = "clean"
                   PROVE  phase' = "clean" /\ (due' = 0 \/ (due' = 1 /\ isOut'))
        BY <2>1, Zenon
      <3> QED
        BY <2>1
    <2> QED
      BY <2>1, <2>2, Zenon
  <1>6. CASE SeesStart \/ StartTimesOut
    BY <1>6 DEF SeesStart, StartTimesOut, Goto, ceph
  <1>7. CASE SeesClean
    <2>1. honest => due = 0 /\ isOut
      BY <1>7 DEF SeesClean
    <2>2. honest' = honest /\ pc' = "in" /\ covered' = (due = 0 /\ isOut)
      BY <1>7 DEF SeesClean
    <2> QED
      BY <2>1, <2>2, Zenon
  <1>8. CASE CleanTimesOut
    BY <1>8 DEF CleanTimesOut
  <1>9. CASE Conclude
    BY <1>9 DEF Conclude, OsdIn, OsdInFails, Cleanup, AddRow, Goto, ceph
  <1>10. CASE Killed
    BY <1>10 DEF Killed, Goto, ceph
  <1>11. CASE Poll \/ Ended \/ UNCHANGED vars
    BY <1>11 DEF Poll, Ended, vars, ceph, bench
  <1> QED
    BY <1>1, <1>2, <1>3, <1>4, <1>5, <1>6, <1>7, <1>8, <1>9, <1>10, <1>11 DEF Next, Cluster, Measure

\* A duration whose measurement began on up-to-date reports of a clean cluster,
\* and no wait of which timed out or went unanswered, covers the recovery from
\* the loss of the OSD, however late that loss is reported.
THEOREM Covers == Spec => []DurationCovers
  <1>1. Init => HonestInv
    BY DEF Init, HonestInv, DurationCovers
  <1>2. HonestInv => DurationCovers
    BY DEF HonestInv, DurationCovers
  <1> QED
    BY <1>1, <1>2, HonestStep, TypeCorrect, PTL DEF Spec

-----------------------------------------------------------------------------
(* ReportsAreRecoveries.                                                    *)

\* The monitor is one recovery behind while it believes one is going on; what
\* it has not seen the end of may be over long since.
ReportInv == IF last = "recovering" THEN reports + 1 <= episodes ELSE reports <= episodes

\* The recovery the monitor sees begin is one it has not counted: it has
\* reported the ones before, and missed at least the end of this one.
Unseen == InRecovery /\ last # "recovering" => reports + 1 <= episodes

LEMMA ReportStep == TypeOK /\ ReportInv /\ Unseen /\ [Next]_vars => ReportInv' /\ Unseen'
  <1> SUFFICES ASSUME TypeOK, ReportInv, Unseen, [Next]_vars PROVE ReportInv' /\ Unseen'
    OBVIOUS
  <1> USE DEF ReportInv, Unseen, InRecovery, Moving, TypeOK
  <1>1. CASE Cluster
    BY <1>1 DEF Cluster, MapTakesEffect, Peered, Recovered, Becomes, monitor
  <1>2. CASE Poll
    BY <1>2 DEF Poll, ceph
  <1>3. UNCHANGED <<phase, episodes, last, reports>> => ReportInv' /\ Unseen'
    OBVIOUS
  <1>4. CASE Disturbed \/ Killed \/ Ended \/ UNCHANGED vars
    BY <1>3, <1>4 DEF Disturbed, Killed, Ended, vars, ceph, monitor
  <1>5. CASE Prepare
    BY <1>3, <1>5 DEF Prepare, StartConfig, CheckUnanswered, CreatePool, WriteObjects, PrepareFails,
                Settled, OsdsUnlisted, ceph, monitor
  <1>6. CASE Measure
    BY <1>3, <1>6 DEF Measure, OsdOut, OsdOutFails, Start, SeesStart, StartTimesOut, SeesClean,
                CleanTimesOut, ceph, monitor
  <1>7. CASE Conclude
    BY <1>3, <1>7 DEF Conclude, OsdIn, OsdInFails, Cleanup, AddRow, ceph, monitor
  <1> QED
    BY <1>1, <1>2, <1>4, <1>5, <1>6, <1>7 DEF Next

\* The monitor never reports a recovery the cluster has not gone through.
THEOREM NoFalseReport == Spec => []ReportsAreRecoveries
  <1>1. Init => ReportInv /\ Unseen
    BY DEF Init, ReportInv, Unseen, InRecovery, Moving
  <1>2. TypeOK /\ ReportInv => ReportsAreRecoveries
    BY DEF ReportInv, ReportsAreRecoveries, TypeOK
  <1> QED
    BY <1>1, <1>2, ReportStep, TypeCorrect, PTL DEF Spec
=============================================================================
