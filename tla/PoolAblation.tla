---------------------------- MODULE PoolAblation ----------------------------
(***************************************************************************)
(* The batch-1 pool ablation of ceph_custom_deploy: the resumable driver   *)
(* run_batch1_pool_ablation.sh with the three Python programs it and its   *)
(* operator run: snapshot_dpu_perf_current.py (counters of the OSDs),      *)
(* build_batch1_pool_report.py (rows of the complete cases) and            *)
(* finalize_batch1_pool_ablation.py (the figure).                          *)
(*                                                                         *)
(* The driver keeps its progress in files only.  It runs with "set -e", so *)
(* any command that fails ends it through the EXIT trap; it may also be    *)
(* killed without one.  The operator starts it again until it completes.   *)
(* Every command of the trap, restore_defaults, ends in "|| true": it goes *)
(* on whatever fails, with some settings or some OSDs not put back.        *)
(***************************************************************************)
EXTENDS Integers, FiniteSets

CONSTANTS
  N,          \* number of datasets, loaded into the pool in this order
  Expected,   \* dataset -> number of its 4 MiB objects
  Osds,       \* OSDs of the snapshot program
  MaxFaults   \* bound: how often something goes wrong

ASSUME NAssumption == N \in Nat \ {0}
ASSUME ExpectedAssumption == Expected \in [1 .. N -> Nat \ {0}]
ASSUME FaultsAssumption == MaxFaults \in Nat
ASSUME OsdsAssumption == IsFiniteSet(Osds)

Datasets == 1 .. N
Cases    == Datasets \X (1 .. 2)    \* on_1, on_2 of each dataset

VARIABLES
  pc,        \* command the driver is at; "idle" when it does not run
  d,         \* dataset of the main loop
  i,         \* sample of the current run_case
  load,      \* dataset -> its load.log
  manifest,  \* dataset -> its manifest.json
  log,       \* case -> its read.log
  delta,     \* case -> its perf_delta.json
  before,    \* OSD -> errors in perf_before.json
  after,     \* OSD -> errors in perf_after.json
  pool,      \* whose objects po1 holds, and how many
  stored,    \* settings that have their batch-1 value in the monitors
  running,   \* OSD -> the settings it was last started with
  pending,   \* OSDs the restart script has still to restart
  missed,    \* what the last restore_defaults failed to do  (history)
  errors,    \* OSD -> its error counters, since its process started
  rows,      \* cases of the last CSV the report has written
  figure,    \* cases in the figure of the finalize program
  faults,    \* number of things that have gone wrong
  outcome,   \* how the last run of the driver has ended
  seen       \* case -> what was really so while it was measured (history)

driver == <<pc, d, i, outcome>>
files  == <<load, manifest, log, delta>>
perf   == <<before, after>>
config == <<stored, running, pending, missed>>
vars   == <<driver, files, perf, pool, config, errors, rows, figure, faults, seen>>

Current == <<d, i>>

\* A log is complete once it holds the program's last line.  A JSON file that
\* was created by a redirection and not yet written is "empty".
LogStates  == {"none", "partial", "complete"}
JsonStates == {"none", "empty", "written"}

\* The two settings whose batch-1 value is not their default.
Settings == {"batch_size", "zero_copy"}
Batch1   == \A o \in Osds : running[o] = Settings

Zero == [o \in Osds |-> 0]
NotSeen == [data |-> 0, whole |-> FALSE, batch1 |-> FALSE, errors |-> 0, crashed |-> FALSE]

Init ==
  /\ pc = "idle" /\ d = 1 /\ i = 1
  /\ load = [x \in Datasets |-> "none"]
  /\ manifest = [x \in Datasets |-> "none"]
  /\ log = [c \in Cases |-> "none"]
  /\ delta = [c \in Cases |-> [file |-> "none", total |-> 0]]
  /\ before = Zero /\ after = Zero
  /\ pool = [owner |-> 0, n |-> 0]
  /\ stored = {} /\ running = [o \in Osds |-> {}]
  /\ pending = {} /\ missed = {}
  /\ errors = Zero
  /\ rows = {} /\ figure = {}
  /\ faults = 0
  /\ outcome = "none"
  /\ seen = [c \in Cases |-> NotSeen]

\* The driver goes on to its next command and does nothing else to itself.
Goto(to) == pc' = to /\ UNCHANGED <<d, i, outcome>>

-----------------------------------------------------------------------------
(* The main loop: the dataset is described, loaded unless it is there,     *)
(* counted, and measured twice.                                            *)

\* The operator starts the driver, for the first time or again.
Start ==
  /\ pc = "idle"
  /\ pc' = "manifest" /\ d' = 1 /\ i' = 1 /\ outcome' = "none"
  /\ pending' = {} /\ missed' = {}
  /\ UNCHANGED <<files, perf, pool, stored, running, errors, rows, figure, faults, seen>>

\* write_text: the file is truncated, then written.
TruncateManifest ==
  /\ pc = "manifest"
  /\ manifest' = [manifest EXCEPT ![d] = "empty"]
  /\ Goto("describe")
  /\ UNCHANGED <<load, log, delta, perf, pool, config, errors, rows, figure, faults, seen>>

WriteManifest ==
  /\ pc = "describe"
  /\ manifest' = [manifest EXCEPT ![d] = "written"]
  /\ Goto("check_load")
  /\ UNCHANGED <<load, log, delta, perf, pool, config, errors, rows, figure, faults, seen>>

\* mutant: the objects in the pool are not counted
Reusable_LogOnly == load[d] = "complete"

Reusable == load[d] = "complete" /\ pool.n = Expected[d]

ReuseDataset ==
  /\ pc = "check_load"
  /\ Reusable
  /\ Goto("count")
  /\ UNCHANGED <<files, perf, pool, config, errors, rows, figure, faults, seen>>

\* tee truncates load.log; the write program starts with an empty pool.
BeginLoad ==
  /\ pc = "check_load"
  /\ ~Reusable
  /\ load' = [load EXCEPT ![d] = "partial"]
  /\ pool' = [owner |-> d, n |-> 0]
  /\ Goto("loading")
  /\ UNCHANGED <<manifest, log, delta, perf, config, errors, rows, figure, faults, seen>>

LoadObject ==
  /\ pc = "loading"
  /\ pool.n < Expected[d]
  /\ pool' = [pool EXCEPT !.n = @ + 1]
  /\ UNCHANGED <<driver, files, perf, config, errors, rows, figure, faults, seen>>

EndLoad ==
  /\ pc = "loading"
  /\ pool.n = Expected[d]
  /\ load' = [load EXCEPT ![d] = "complete"]
  /\ Goto("count")
  /\ UNCHANGED <<manifest, log, delta, perf, pool, config, errors, rows, figure, faults, seen>>

\* mutant: the mismatch is printed and the driver goes on
CheckCount_GoesOn ==
  /\ pc = "count"
  /\ Goto("case")
  /\ UNCHANGED <<files, perf, pool, config, errors, rows, figure, faults, seen>>

\* The pool's settings, then "object count mismatch" ends the driver.
CheckCount ==
  /\ pc = "count"
  /\ Goto(IF pool.n = Expected[d] THEN "case" ELSE "trap")
  /\ UNCHANGED <<files, perf, pool, config, errors, rows, figure, faults, seen>>

-----------------------------------------------------------------------------
(* run_case.                                                                *)

\* [[ -f perf_delta.json ]] && grep -q in read.log: an empty file is a file.
Done(c) == delta[c].file # "none" /\ log[c] = "complete"

\* i = 1, 2: the two calls of run_case; then the report and the next dataset.
AfterCase ==
  /\ outcome' = outcome
  /\ IF i = 1 THEN pc' = "case" /\ i' = 2 /\ d' = d
     ELSE pc' = "checkpoint" /\ UNCHANGED <<i, d>>

SkipCase ==
  /\ pc = "case"
  /\ Done(Current)
  /\ AfterCase
  /\ UNCHANGED <<files, perf, pool, config, errors, rows, figure, faults, seen>>

\* "config set", one setting after the other.
Configure ==
  /\ pc = "case"
  /\ ~Done(Current)
  /\ stored' = stored \union {"batch_size"}
  /\ Goto("configure")
  /\ UNCHANGED <<files, perf, pool, running, pending, missed, errors, rows, figure, faults, seen>>

ConfigureRest ==
  /\ pc = "configure"
  /\ stored' = Settings
  /\ pending' = Osds
  /\ Goto("restart")
  /\ UNCHANGED <<files, perf, pool, running, missed, errors, rows, figure, faults, seen>>

\* restart_custom_osds_current.sh restarts one OSD and waits until the cluster
\* is clean: a new process, with the stored settings and its counters at zero.
Restarting == {"restart", "trap_restart", "end_restart"}

RestartOsd(o) ==
  /\ pc \in Restarting
  /\ o \in pending
  /\ pending' = pending \ {o}
  /\ running' = [running EXCEPT ![o] = stored]
  /\ errors' = [errors EXCEPT ![o] = 0]
  /\ UNCHANGED <<driver, files, perf, pool, stored, missed, rows, figure, faults, seen>>

\* The trap ends the driver; at the end of the main loop the report follows.
RestoreEnds ==
  /\ UNCHANGED <<d, i>>
  /\ IF pc = "trap_restart" THEN pc' = "idle" /\ outcome' = "exited"
     ELSE pc' = "final" /\ outcome' = outcome

AllRestarted ==
  /\ pc \in Restarting
  /\ pending = {}
  /\ IF pc = "restart" THEN Goto("verify") ELSE RestoreEnds
  /\ UNCHANGED <<files, perf, pool, config, errors, rows, figure, faults, seen>>

\* verify_effective_config asks each OSD: a mismatch ends the driver.
Verify ==
  /\ pc = "verify"
  /\ Goto(IF Batch1 THEN "before" ELSE "trap")
  /\ UNCHANGED <<files, perf, pool, config, errors, rows, figure, faults, seen>>

SnapshotBefore ==
  /\ pc = "before"
  /\ before' = errors
  /\ Goto("read")
  /\ UNCHANGED <<files, after, pool, config, errors, rows, figure, faults, seen>>

\* tee truncates read.log, and the eight clients start.
BeginRead ==
  /\ pc = "read"
  /\ log' = [log EXCEPT ![Current] = "partial"]
  /\ seen' = [seen EXCEPT ![Current] =
       [data |-> pool.owner, whole |-> pool.n = Expected[d], batch1 |-> Batch1,
        errors |-> 0, crashed |-> FALSE]]
  /\ Goto("reading")
  /\ UNCHANGED <<load, manifest, delta, perf, pool, config, errors, rows, figure, faults>>

EndRead ==
  /\ pc = "reading"
  /\ log' = [log EXCEPT ![Current] = "complete"]
  /\ Goto("after")
  /\ UNCHANGED <<load, manifest, delta, perf, pool, config, errors, rows, figure, faults, seen>>

SnapshotAfter ==
  /\ pc = "after"
  /\ after' = errors
  /\ Goto("delta")
  /\ UNCHANGED <<files, before, pool, config, errors, rows, figure, faults, seen>>

\* What the counters of the OSDs os show more in a later snapshot than in an
\* earlier one, error by error.
Rise(os, earlier, later) == UNION {{o} \X (earlier[o] + 1 .. later[o]) : o \in os}

\* mutant: range(11)
Total_LastMissing ==
  LET os == Osds \ {CHOOSE o \in Osds : TRUE}
  IN  Cardinality(Rise(os, before, after)) - Cardinality(Rise(os, after, before))

\* delta(): "totals" is the sum of the differences of all OSDs; the counters of
\* an OSD that has crashed may have gone down.
Total == Cardinality(Rise(Osds, before, after)) - Cardinality(Rise(Osds, after, before))

\* The shell opens perf_delta.json before the program runs.
CreateDelta ==
  /\ pc = "delta"
  /\ delta' = [delta EXCEPT ![Current] = [file |-> "empty", total |-> 0]]
  /\ Goto("difference")
  /\ UNCHANGED <<load, manifest, log, perf, pool, config, errors, rows, figure, faults, seen>>

WriteDelta ==
  /\ pc = "difference"
  /\ delta' = [delta EXCEPT ![Current] = [file |-> "written", total |-> Total]]
  /\ Goto("assert")
  /\ UNCHANGED <<load, manifest, log, perf, pool, config, errors, rows, figure, faults, seen>>

\* assert d["dpu_submit_errors"] == 0, ...: a failed assertion ends the driver.
CheckCounters ==
  /\ pc = "assert"
  /\ Goto(IF delta[Current].total = 0 THEN "case_report" ELSE "trap")
  /\ UNCHANGED <<files, perf, pool, config, errors, rows, figure, faults, seen>>

-----------------------------------------------------------------------------
(* build_batch1_pool_report.py.                                             *)

\* json.loads of an empty file raises.  The manifests of all datasets are read,
\* and the delta of every case that is complete.
Unreadable ==
  \/ \E x \in Datasets : manifest[x] = "empty"
  \/ \E c \in Cases :
       manifest[c[1]] # "none" /\ log[c] = "complete" /\ delta[c].file = "empty"

Rows == {c \in Cases : manifest[c[1]] # "none" /\ Done(c)}

\* The CSV is written if there is a row; the driver ends if the report does.
Report(to) ==
  IF Unreadable
  THEN pc' = "trap" /\ UNCHANGED <<d, i, outcome, rows>>
  ELSE to /\ rows' = IF Rows = {} THEN rows ELSE Rows

CaseReport ==
  /\ pc = "case_report"
  /\ Report(AfterCase)
  /\ UNCHANGED <<files, perf, pool, config, errors, figure, faults, seen>>

\* mutant: one dataset too many
NextDataset_OneMore ==
  /\ i' = 1 /\ outcome' = outcome
  /\ IF d <= N THEN d' = d + 1 /\ pc' = "manifest" ELSE d' = d /\ pc' = "restore"

NextDataset ==
  /\ i' = 1 /\ outcome' = outcome
  /\ IF d < N THEN d' = d + 1 /\ pc' = "manifest" ELSE d' = d /\ pc' = "restore"

Checkpoint ==
  /\ pc = "checkpoint"
  /\ Report(NextDataset)
  /\ UNCHANGED <<files, perf, pool, config, errors, figure, faults, seen>>

\* mutant: the OSDs are not restarted
SettingsRestored_NoRestart(F) ==
  /\ pc \in {"trap", "restore"}
  /\ stored' = stored \intersect F
  /\ missed' = F
  /\ pending' = {}
  /\ Goto(IF pc = "trap" THEN "trap_restart" ELSE "end_restart")
  /\ UNCHANGED <<files, perf, pool, running, errors, rows, figure, seen>>

\* restore_defaults, in the EXIT trap or, the trap being removed, after the main
\* loop: "config set ... || true" for each setting, of which those of the
\* settings F fail; then the restart script.
SettingsRestored(F) ==
  /\ pc \in {"trap", "restore"}
  /\ stored' = stored \intersect F
  /\ missed' = F
  /\ pending' = Osds
  /\ Goto(IF pc = "trap" THEN "trap_restart" ELSE "end_restart")
  /\ UNCHANGED <<files, perf, pool, running, errors, rows, figure, seen>>

RestoreSettings == SettingsRestored({}) /\ UNCHANGED faults

FinalReport ==
  /\ pc = "final"
  /\ pc' = "idle"
  /\ outcome' = IF Unreadable THEN "exited" ELSE "complete"
  /\ rows' = IF Unreadable \/ Rows = {} THEN rows ELSE Rows
  /\ UNCHANGED <<d, i, files, perf, pool, config, errors, figure, faults, seen>>

\* finalize_batch1_pool_ablation.py: two samples for each dataset, or it raises.
Finalize ==
  /\ pc = "idle"
  /\ rows = Cases
  /\ figure' = rows
  /\ UNCHANGED <<driver, files, perf, pool, config, errors, rows, faults, seen>>

-----------------------------------------------------------------------------
(* What may go wrong, MaxFaults times.                                      *)

Fault == faults < MaxFaults /\ faults' = faults + 1

\* A command fails, or the operator interrupts: "set -e" and the trap.
CommandFails ==
  /\ Fault
  /\ pc \notin {"idle", "trap", "trap_restart", "restore", "end_restart", "final"}
  /\ Goto("trap")
  /\ UNCHANGED <<files, perf, pool, config, errors, rows, figure, seen>>

\* Commands of restore_defaults fail: "|| true".
RestoreFails ==
  /\ Fault
  /\ \E F \in SUBSET Settings \ {{}} : SettingsRestored(F)

\* The restart script ends early, at an OSD that does not start or after 240 s
\* in which the cluster has not become clean; within run_case that is a command
\* that fails.
RestartFails ==
  /\ Fault
  /\ pc \in {"trap_restart", "end_restart"}
  /\ missed' = missed \union {"restart"}
  /\ pending' = {}
  /\ RestoreEnds
  /\ UNCHANGED <<files, perf, pool, stored, running, errors, rows, figure, seen>>

\* The last report fails when the trap has been removed.
FinalFails ==
  /\ Fault
  /\ pc = "final"
  /\ pc' = "idle" /\ outcome' = "exited"
  /\ UNCHANGED <<d, i, files, perf, pool, config, errors, rows, figure, seen>>

\* The driver is killed, or its host goes down: no trap runs.
Killed ==
  /\ Fault
  /\ pc # "idle"
  /\ pc' = "idle" /\ outcome' = "killed"
  /\ UNCHANGED <<d, i, files, perf, pool, config, errors, rows, figure, seen>>

\* Files of the dataset have gone since it was described: the load is complete
\* and has fewer objects.
LoadsFewer ==
  /\ Fault
  /\ pc = "loading"
  /\ pool.n < Expected[d]
  /\ load' = [load EXCEPT ![d] = "complete"]
  /\ Goto("count")
  /\ UNCHANGED <<manifest, log, delta, perf, pool, config, errors, rows, figure, seen>>

\* A task of the DPU fails while the clients read.
TaskError(o) ==
  /\ Fault
  /\ pc = "reading"
  /\ errors' = [errors EXCEPT ![o] = @ + 1]
  /\ seen' = [seen EXCEPT ![Current].errors = @ + 1]
  /\ UNCHANGED <<driver, files, perf, pool, config, rows, figure>>

\* An OSD crashes and comes back, its counters at zero.
OsdCrash(o) ==
  /\ Fault
  /\ pc = "reading"
  /\ errors' = [errors EXCEPT ![o] = 0]
  /\ running' = [running EXCEPT ![o] = stored]
  /\ seen' = [seen EXCEPT ![Current].crashed = TRUE]
  /\ UNCHANGED <<driver, files, perf, pool, stored, pending, missed, rows, figure>>

-----------------------------------------------------------------------------

Load    == TruncateManifest \/ WriteManifest \/ ReuseDataset \/ BeginLoad \/ LoadObject \/ EndLoad
Restart == AllRestarted \/ \E o \in Osds : RestartOsd(o)
Measure == SkipCase \/ Configure \/ ConfigureRest \/ Verify \/ SnapshotBefore \/ BeginRead \/ EndRead
Judge   == SnapshotAfter \/ CreateDelta \/ WriteDelta \/ CheckCounters \/ CaseReport
Finish  == Checkpoint \/ RestoreSettings \/ FinalReport
Driver  == Load \/ CheckCount \/ Restart \/ Measure \/ Judge \/ Finish

Ending == CommandFails \/ RestoreFails \/ RestartFails \/ FinalFails \/ Killed
Faulty == Ending \/ LoadsFewer \/ \E o \in Osds : TaskError(o) \/ OsdCrash(o)

Next == Start \/ Driver \/ Finalize \/ Faulty

\* The operator runs the driver again until it completes.
Spec     == Init /\ [][Next]_vars
FairSpec == Spec /\ WF_vars(Driver) /\ WF_vars(Start /\ outcome # "complete")

-----------------------------------------------------------------------------
(* Properties.                                                              *)

Pcs == {"idle", "manifest", "describe", "check_load", "loading", "count", "case",
        "configure", "restart", "verify", "before", "read", "reading", "after", "delta",
        "difference", "assert", "case_report", "checkpoint", "restore", "end_restart",
        "final", "trap", "trap_restart"}

TypeOK ==
  /\ pc \in Pcs
  /\ d \in Datasets /\ i \in {1, 2}
  /\ load \in [Datasets -> LogStates]
  /\ manifest \in [Datasets -> JsonStates]
  /\ log \in [Cases -> LogStates]
  /\ delta \in [Cases -> [file : JsonStates, total : Int]]
  /\ before \in [Osds -> Nat] /\ after \in [Osds -> Nat] /\ errors \in [Osds -> Nat]
  /\ pool \in [owner : 0 .. N, n : Nat]
  /\ stored \subseteq Settings /\ running \in [Osds -> SUBSET Settings]
  /\ pending \subseteq Osds /\ missed \subseteq Settings \union {"restart"}
  /\ rows \in SUBSET Cases /\ figure \in SUBSET Cases
  /\ faults \in 0 .. MaxFaults
  /\ outcome \in {"none", "complete", "exited", "killed"}
  /\ seen \in [Cases -> [data : 0 .. N, whole : BOOLEAN, batch1 : BOOLEAN,
                         errors : Nat, crashed : BOOLEAN]]

\* Where neighbouring datasets differ in their number of objects, every row of
\* the report, and so of the figure, was measured on the whole of its own
\* dataset with the batch-1 configuration in effect, however often the driver
\* was ended and started again.  (The pool holds one dataset at a time.  A
\* later run finds the objects of a later dataset, or of half of one, and may
\* take them for the first one, but not before the first one's cases are
\* complete; every other dataset is loaded again, because the one before it
\* has been loaded in between or has left another number of objects.)
DistinctCounts == \A x \in 1 .. N - 1 : Expected[x] # Expected[x + 1]

Measured(c) == seen[c].data = c[1] /\ seen[c].whole /\ seen[c].batch1

RowsAreMeasured == DistinctCounts => \A c \in rows \union figure : Measured(c)

\* "reusing complete $name dataset": what the clients read is the dataset the
\* driver is at, whatever the numbers of objects.
ReadsItsDataset == pc = "reading" => pool.owner = d

\* A case passes the assertions on its counters only if no task failed while
\* it was read, unless an OSD has lost its counters in a crash: the snapshot
\* before is taken after the restart that sets them to zero.
VerdictHonest ==
  \A c \in Cases :
    delta[c].file = "written" /\ delta[c].total = 0 /\ ~seen[c].crashed =>
      seen[c].errors = 0

\* However the driver ends, other than by being killed, it undoes what it did as
\* far as its commands succeed: a setting whose "config set" in restore_defaults
\* has not failed is back to its default in the monitors, and if the restart
\* script has not failed either, every OSD runs with what the monitors hold.  In
\* particular the cluster is back to its defaults if no command of
\* restore_defaults failed; where one did, the driver ends all the same and may
\* leave any part of the cluster in the batch-1 settings.
ExitRestores ==
  outcome \in {"exited", "complete"} =>
    /\ stored \subseteq missed
    /\ "restart" \notin missed => \A o \in Osds : running[o] = stored

\* A file no later run writes again before a report reads it is empty: the
\* delta of a case that is skipped, or the manifest of a later dataset.
Stuck ==
  \/ \E x \in 2 .. N : manifest[x] = "empty"
  \/ \E c \in Cases : log[c] = "complete" /\ delta[c].file = "empty"

\* Started again and again, the driver completes, unless it was once killed, or
\* a command failed, between creating and writing a JSON file; then every run
\* ends in the report.
Completes == <>(outcome = "complete") \/ <>[]Stuck
=============================================================================
