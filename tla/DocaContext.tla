----------------------------- MODULE DocaContext -----------------------------
(***************************************************************************)
(* The DOCA context and its hardware engine, as the programs under src/    *)
(* use them.  DOCA itself is not part of the repository, so everything     *)
(* here is external: it is what the calls and the callbacks of src/ rely   *)
(* on.                                                                     *)
(*                                                                         *)
(*   - A task is allocated once ("ready"), submitted ("inflight"), and     *)
(*     finished by the engine in any order, well ("ok") or badly           *)
(*     ("failed").                                                         *)
(*   - Nothing happens to the program at that moment.  Only a call of      *)
(*     doca_pe_progress() runs the callback of one finished task; the task *)
(*     is then "reaped" and may be submitted again.                        *)
(*   - doca_task_free() makes it "freed".                                  *)
(*   - doca_ctx_stop() moves a running context to STOPPING; no task is     *)
(*     accepted from then on, those in flight are flushed through their    *)
(*     callbacks, and a later doca_pe_progress() moves it to IDLE.         *)
(***************************************************************************)
EXTENDS Integers, FiniteSets

VARIABLES
  ctx,   \* the state of the context
  task   \* task id -> where the task is

CtxStates  == {"RUNNING", "STOPPING", "IDLE"}
TaskStates == {"ready", "inflight", "ok", "failed", "reaped", "freed"}

InFlight == {t \in DOMAIN task : task[t] = "inflight"}
Finished == {t \in DOMAIN task : task[t] \in {"ok", "failed"}}
Busy     == InFlight \union Finished

\* doca_task_submit() accepts a task that is not busy, on a running context.
Submittable(t) == ctx = "RUNNING" /\ task[t] \in {"ready", "reaped"}
DocaSubmit(t)  == Submittable(t) /\ task' = [task EXCEPT ![t] = "inflight"]

\* The engine finishes a task, in any order.
EngineCompletes(t) == task[t] = "inflight" /\ task' = [task EXCEPT ![t] = "ok"]
EngineFails(t)     == task[t] = "inflight" /\ task' = [task EXCEPT ![t] = "failed"]

\* doca_ctx_stop().
DocaStop == ctx' = IF ctx = "RUNNING" THEN "STOPPING" ELSE ctx

\* doca_pe_progress() finds that a stopping context has been drained.
Drained == ctx = "STOPPING" /\ Busy = {}

\* doca_pe_progress() has nothing to report and returns 0.
NothingToReport == Finished = {} /\ ~Drained
=============================================================================
