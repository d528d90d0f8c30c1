---------------------------- MODULE BatchOffload ----------------------------
(***************************************************************************)
(* What a caller of an offloaded batch is promised, whichever loop of src/ *)
(* executes it: between the call and the return every task of the batch is *)
(* computed by the engine and its result delivered, and nothing is         *)
(* delivered that the engine has not computed in this call.  The promise   *)
(* is kept unless a task of the call fails or is refused; from then on     *)
(* anything may be delivered and the call need not return.                 *)
(*                                                                         *)
(* The Naive, Batch_Copy and Batch_NoCopy modes of decode_Bench()          *)
(* (DecodeBatch) and the hash path of DPUProxy (DpuProxy) are checked to   *)
(* implement it.  The coding paths of DPUProxy do not: see DpuProxy.       *)
(***************************************************************************)
CONSTANT Slots   \* the tasks the caller has prepared

VARIABLES
  called,     \* a call is being executed
  batch,      \* the tasks the call is for
  computed,   \* tasks the engine has computed in this call
  delivered,  \* tasks whose result the caller may read
  broken      \* a task of this call has failed or was refused

vars == <<called, batch, computed, delivered, broken>>

Init ==
  /\ called \in BOOLEAN
  /\ batch \in SUBSET Slots
  /\ computed = {}
  /\ delivered = {}
  /\ broken = FALSE

Call ==
  /\ ~called
  /\ called' = TRUE
  /\ batch' \in SUBSET Slots
  /\ computed' = {}
  /\ delivered' = {}
  /\ broken' = FALSE

Compute(t) ==
  /\ called
  /\ t \in batch \ computed
  /\ computed' = computed \union {t}
  /\ UNCHANGED <<called, batch, delivered, broken>>

Break ==
  /\ called
  /\ broken' = TRUE
  /\ UNCHANGED <<called, batch, computed, delivered>>

Deliver(S) ==
  /\ called
  /\ S \subseteq computed \/ broken
  /\ delivered' = delivered \union S
  /\ UNCHANGED <<called, batch, computed, broken>>

Return ==
  /\ called
  /\ delivered = batch
  /\ called' = FALSE
  /\ UNCHANGED <<batch, computed, delivered, broken>>

Next ==
  \/ Call
  \/ \E t \in Slots : Compute(t)
  \/ Break
  \/ \E S \in SUBSET Slots : Deliver(S)
  \/ Return

SafetySpec == Init /\ [][Next]_vars

\* A call, once made, returns unless it is broken.
Spec == SafetySpec /\ (called ~> (~called \/ broken))
=============================================================================
