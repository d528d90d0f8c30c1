--------------------------- MODULE RecoveryBench ---------------------------
(***************************************************************************)
(* A cluster recovers from the loss of an OSD while two programs look on:  *)
(*                                                                         *)
(*   attach/cephBuild/recoverBenchEC.sh takes an OSD out for one EC        *)
(*   configuration after the other, and takes the time from "osd out" to   *)
(*   the moment no PG is reported as anything but clean;                   *)
(*   ceph_compress_test/recover_time.py polls the cluster's status and     *)
(*   reports each recovery it sees begin and end.                          *)
(*                                                                         *)
(* Both read what the manager reports, some time after the change that     *)
(* causes it.  Of a command that fails the script makes a clean cluster, a *)
(* configuration without a result or, where it divides by the number of    *)
(* OSDs, its own end; the monitor polls again.                             *)
(***************************************************************************)
EXTENDS Integers, Sequences

CONSTANTS
  Configs,     \* number of (k, m) configurations, run in this order
  MaxFaults    \* bound: commands that fail, disturbances of the cluster

ASSUME ConfigsAssumption == Configs \in Nat \ {0}
ASSUME FaultsAssumption  == MaxFaults \in Nat

VARIABLES
  phase,      \* what the PGs are reported as
  due,        \* changes of the OSD map the PG reports do not show yet, in order
  isOut,      \* the OSD is out
  episodes,   \* recoveries the cluster has gone through (history)
  pc,         \* where recoverBenchEC.sh is
  cfg,        \* the configuration it runs
  result,     \* configuration RESULT_DURATION is from, 0 if it is empty
  rows,       \* the comparison table: whose result each row shows
  honest,     \* when the OSD was taken out the reports were up to date and the
              \* PGs clean; since then no wait has timed out or gone unanswered,
              \* and nothing else has disturbed the cluster (history)
  covered,    \* the measurement has ended on a cluster that recovered from
              \* the loss of the OSD (history)
  stays,      \* an "osd in" has failed (history)
  last,       \* recover_time.py: last_status
  reports,    \* recover_time.py: recoveries reported as finished
  faults

ceph    == <<phase, due, isOut, episodes>>
bench   == <<pc, cfg, result, rows, honest, covered, stays>>
monitor == <<last, reports>>
vars    == <<ceph, bench, monitor, faults>>

Phases  == {"clean", "peering", "remapped", "recovering"}
Backlog == 4    \* bound: changes of the map waiting at a time

\* check_non_clean_pgs and is_in_recovery_state know different states: PGs that
\* peer are not clean to the script, and in recovery to the monitor only if
\* they are remapped as well.
LooksClean == phase = "clean"
Moving     == {"remapped", "recovering"}
InRecovery == phase \in Moving

\* A recovery begins where PGs enter a state the monitor takes for one.
Becomes(to) ==
  /\ phase' = to
  /\ episodes' = IF to \in Moving /\ ~InRecovery THEN episodes + 1 ELSE episodes

Init ==
  /\ phase = "clean" /\ due = 0 /\ isOut = FALSE /\ episodes = 0
  /\ pc = "check" /\ cfg = 1 /\ result = 0 /\ rows = <<>>
  /\ honest = TRUE /\ covered = TRUE /\ stays = FALSE
  /\ last = "none" /\ reports = 0
  /\ faults = 0

Fault == faults < MaxFaults /\ faults' = faults + 1
NoFault == faults' = faults

Goto(to) == pc' = to /\ UNCHANGED <<cfg, result, rows, honest, covered, stays>>

-----------------------------------------------------------------------------
(* The cluster.                                                             *)

MapTakesEffect(to) ==
  /\ due > 0
  /\ due' = due - 1
  /\ Becomes(to)
  /\ UNCHANGED <<isOut, bench, monitor, faults>>

\* Peering ends with data to move, or without.
Peered(to) ==
  /\ phase \in {"peering", "remapped"}
  /\ Becomes(to)
  /\ UNCHANGED <<due, isOut, bench, monitor, faults>>

Recovered ==
  /\ phase = "recovering"
  /\ Becomes("clean")
  /\ UNCHANGED <<due, isOut, bench, monitor, faults>>

\* An OSD goes away and comes back: not the script's doing.
Disturbed ==
  /\ Fault
  /\ due < Backlog
  /\ due' = due + 1
  /\ honest' = FALSE
  /\ UNCHANGED <<phase, isOut, episodes, pc, cfg, result, rows, covered, stays, monitor>>

-----------------------------------------------------------------------------
(* recoverBenchEC.sh: run_single_config, step by step.                      *)

\* Step 1, and its "return 1".
StartConfig ==
  /\ pc = "check"
  /\ Goto(IF LooksClean THEN "pool" ELSE "row")
  /\ NoFault
  /\ UNCHANGED <<ceph, monitor>>

\* "ceph pg ls" fails, lists no PG, and none is dirty.
CheckUnanswered ==
  /\ pc = "check"
  /\ Fault
  /\ Goto("pool")
  /\ UNCHANGED <<ceph, monitor>>

\* Steps 2 and 3: the profile, and a new pool whose PGs have to peer.
CreatePool ==
  /\ pc = "pool"
  /\ due < Backlog
  /\ due' = due + 1
  /\ Goto("write")
  /\ NoFault
  /\ UNCHANGED <<phase, isOut, episodes, monitor>>

\* Step 6: "rados put" waits until the PGs are active, not until the manager
\* has heard of it; nor does the wait at the end of step 3, whose result is not
\* looked at.
WriteObjects ==
  /\ pc = "write"
  /\ Goto("settle")
  /\ NoFault
  /\ UNCHANGED <<ceph, monitor>>

\* create_ec_profile, "osd pool create" or "rados put": "return 1".
PrepareFails ==
  /\ pc \in {"pool", "write"}
  /\ Fault
  /\ Goto("row")
  /\ UNCHANGED <<ceph, monitor>>

\* wait_active_clean 300: whether it saw a clean cluster is not looked at.
Settled ==
  /\ pc = "settle"
  /\ Goto("out")
  /\ NoFault
  /\ UNCHANGED <<ceph, monitor>>

\* "ceph osd ls" gets no answer: the division by num_osds ends the script.
OsdsUnlisted ==
  /\ pc = "out"
  /\ Fault
  /\ Goto("stopped")
  /\ UNCHANGED <<ceph, monitor>>

\* A measurement begins.
Start ==
  /\ pc = "out"
  /\ pc' = "wait_start"
  /\ honest' = (due = 0 /\ LooksClean)
  /\ covered' = FALSE
  /\ UNCHANGED <<cfg, result, rows, stays, monitor>>

\* start_ts, then "ceph osd out"; the map changes if the OSD was in.
OsdOut ==
  /\ Start
  /\ due < Backlog
  /\ isOut' = TRUE
  /\ due' = IF isOut THEN due ELSE due + 1
  /\ NoFault
  /\ UNCHANGED <<phase, episodes>>

OsdOutFails ==
  /\ Start
  /\ Fault
  /\ UNCHANGED ceph

\* mutant: the wait for the recovery to start is gone
SeesStart_AtOnce ==
  /\ pc = "wait_start"
  /\ Goto("wait_clean")
  /\ NoFault
  /\ UNCHANGED <<ceph, monitor>>

\* wait_recovery_start 30
SeesStart ==
  /\ pc = "wait_start"
  /\ ~LooksClean
  /\ Goto("wait_clean")
  /\ NoFault
  /\ UNCHANGED <<ceph, monitor>>

\* ... times out, and the script goes on.
StartTimesOut ==
  /\ pc = "wait_start"
  /\ LooksClean
  /\ pc' = "wait_clean"
  /\ honest' = FALSE
  /\ NoFault
  /\ UNCHANGED <<cfg, result, rows, covered, stays, ceph, monitor>>

\* wait_active_clean 600, then end_ts.
SeesClean ==
  /\ pc = "wait_clean"
  /\ LooksClean
  /\ pc' = "in"
  /\ covered' = (due = 0 /\ isOut)
  /\ NoFault
  /\ UNCHANGED <<cfg, result, rows, honest, stays, ceph, monitor>>

\* mutant: a time-out ends the configuration, as it does in step 1
CleanTimesOut_Returns ==
  /\ pc = "wait_clean"
  /\ ~LooksClean
  /\ pc' = "row"
  /\ honest' = FALSE
  /\ NoFault
  /\ UNCHANGED <<cfg, result, rows, covered, stays, ceph, monitor>>

\* It times out, or "ceph pg ls" fails; the script goes on all the same.
CleanTimesOut ==
  /\ pc = "wait_clean"
  /\ ~LooksClean
  /\ pc' = "in"
  /\ honest' = FALSE
  /\ NoFault
  /\ UNCHANGED <<cfg, result, rows, covered, stays, ceph, monitor>>

\* Step 9 and the results: "ceph osd in", and the globals are set.
OsdIn ==
  /\ pc = "in"
  /\ due < Backlog
  /\ isOut' = FALSE
  /\ due' = IF isOut THEN due + 1 ELSE due
  /\ stays' = FALSE
  /\ result' = cfg
  /\ pc' = "cleanup"
  /\ NoFault
  /\ UNCHANGED <<cfg, rows, honest, covered, phase, episodes, monitor>>

OsdInFails ==
  /\ pc = "in"
  /\ Fault
  /\ stays' = TRUE
  /\ result' = cfg
  /\ pc' = "cleanup"
  /\ UNCHANGED <<cfg, rows, honest, covered, ceph, monitor>>

\* wait_active_clean 600 (its result is not looked at), delete_pool.
Cleanup ==
  /\ pc = "cleanup"
  /\ Goto("row")
  /\ NoFault
  /\ UNCHANGED <<ceph, monitor>>

\* mutant: off by one at the last configuration
AddRow_OneMore ==
  /\ pc = "row"
  /\ rows' = Append(rows, result)
  /\ IF cfg <= Configs THEN pc' = "check" /\ cfg' = cfg + 1 ELSE pc' = "done" /\ cfg' = cfg
  /\ NoFault
  /\ UNCHANGED <<result, honest, covered, stays, ceph, monitor>>

\* main: a row for every configuration, whatever run_single_config returned.
AddRow ==
  /\ pc = "row"
  /\ rows' = Append(rows, result)
  /\ IF cfg < Configs THEN pc' = "check" /\ cfg' = cfg + 1 ELSE pc' = "done" /\ cfg' = cfg
  /\ NoFault
  /\ UNCHANGED <<result, honest, covered, stays, ceph, monitor>>

\* The script has no trap: interrupted, it leaves the cluster as it is.
Killed ==
  /\ pc \notin {"done", "stopped"}
  /\ Fault
  /\ Goto("stopped")
  /\ UNCHANGED <<ceph, monitor>>

-----------------------------------------------------------------------------
(* recover_time.py.                                                         *)

\* mutant: a poll without an answer is not skipped, and finds no PG in recovery
Poll_NoAnswer ==
  /\ \/ InRecovery /\ last # "recovering" /\ last' = "recovering" /\ reports' = reports
     \/ last = "recovering" /\ last' = "active+clean" /\ reports' = reports + 1
  /\ UNCHANGED <<ceph, bench, faults>>

\* A poll that changes something: one that gets no answer is skipped.
Poll ==
  /\ \/ InRecovery /\ last # "recovering" /\ last' = "recovering" /\ reports' = reports
     \/ ~InRecovery /\ last = "recovering" /\ last' = "active+clean" /\ reports' = reports + 1
  /\ UNCHANGED <<ceph, bench, faults>>

-----------------------------------------------------------------------------

Cluster ==
  \/ \E to \in {"peering", "remapped"} : MapTakesEffect(to)
  \/ \E to \in {"clean", "recovering"} : Peered(to)
  \/ Recovered

Prepare == \/ StartConfig \/ CheckUnanswered \/ CreatePool \/ WriteObjects \/ PrepareFails
           \/ Settled \/ OsdsUnlisted
Measure == OsdOut \/ OsdOutFails \/ SeesStart \/ StartTimesOut \/ SeesClean \/ CleanTimesOut
Conclude == OsdIn \/ OsdInFails \/ Cleanup \/ AddRow
Ended   == pc \in {"done", "stopped"} /\ UNCHANGED vars

Next == Cluster \/ Disturbed \/ Prepare \/ Measure \/ Conclude \/ Killed \/ Poll \/ Ended

Spec == Init /\ [][Next]_vars

-----------------------------------------------------------------------------
(* Properties.                                                              *)

\* A row for every configuration that has been run.
RowsOK ==
  /\ rows \in Seq(0 .. Configs)
  /\ Len(rows) = IF pc = "done" THEN cfg ELSE cfg - 1

TypeOK ==
  /\ phase \in Phases /\ due \in 0 .. Backlog /\ isOut \in BOOLEAN
  /\ episodes \in Nat /\ reports \in Nat
  /\ pc \in {"check", "pool", "write", "settle", "out", "wait_start", "wait_clean",
             "in", "cleanup", "row", "done", "stopped"}
  /\ cfg \in 1 .. Configs /\ result \in 0 .. cfg
  /\ RowsOK
  /\ honest \in BOOLEAN /\ covered \in BOOLEAN /\ stays \in BOOLEAN
  /\ last \in {"none", "recovering", "active+clean"}
  /\ faults \in 0 .. MaxFaults

\* A duration whose measurement began with the reports up to date and every PG
\* clean, and in which no wait timed out or went unanswered and nothing else
\* happened to the cluster, ends when the loss of the OSD has reached the PG
\* reports and the PGs are clean again: a cluster that is clean because it has
\* not noticed the loss yet is not taken for its end, however late its report
\* is.  (Where the pool creation, or the "osd in" of the configuration before,
\* is itself reported late, its report is taken for the start: no wait of the
\* script rules that out.)
DurationCovers == pc \in {"in", "cleanup"} /\ honest => covered

\* Between two configurations, and at the end, the OSD is in again, on every
\* path through run_single_config that took it out, time-outs included; except
\* where the script was interrupted or "osd in" itself has failed.
OsdsBackIn == pc \in {"check", "row", "done"} => ~isOut \/ stays

\* The monitor reports no more recoveries than the cluster has gone through,
\* whatever it misses between two polls and whichever polls get no answer.
ReportsAreRecoveries == reports <= episodes
=============================================================================
