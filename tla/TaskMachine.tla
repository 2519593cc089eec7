---------------------------- MODULE TaskMachine ----------------------------
(***************************************************************************)
(* The two state machines every task of a node is bound by: the task's own *)
(* (packages/contracts/src/tasks.ts) and the one of an external effect     *)
(* (packages/contracts/src/effects.ts).  Both are pure; the modules that   *)
(* EXTEND this one apply them to stored rows.                              *)
(***************************************************************************)

TaskState ==
  {"queued", "resolving", "waiting_input", "waiting_capability",
   "waiting_approval", "dispatched", "running", "pause_requested", "paused",
   "cancel_requested", "verifying", "succeeded", "failed", "cancelled",
   "uncertain", "reconciling"}

TerminalTaskState == {"succeeded", "failed", "cancelled"}

TaskEvent ==
  {"resolve.start", "resolve.need_input", "resolve.need_capability",
   "resolve.need_approval", "resolve.ready", "resolve.failed",
   "input.provided", "capability.ready", "approval.granted",
   "dispatch.acknowledged", "dispatch.timed_out", "run.needs_approval",
   "run.approval_granted", "run.approval_denied", "run.approval_expired",
   "run.verifying", "verify.passed", "verify.failed", "pause.requested",
   "pause.reached", "resume.requested", "cancel.requested",
   "cancel.confirmed", "effect.unknown", "reconcile.start",
   "reconcile.succeeded", "reconcile.failed", "reconcile.cancelled",
   "reconcile.parked"}

\* The states a stop may be asked in (cancellationTarget has an answer).
Cancellable == TaskState \ (TerminalTaskState \cup {"cancel_requested"})

\* The states an event is legal in: the columns of TRANSITIONS.
Sources(event) ==
  CASE event = "resolve.start" -> {"queued"}
    [] event \in {"resolve.need_input", "resolve.need_capability",
                  "resolve.need_approval", "resolve.ready",
                  "resolve.failed"} -> {"resolving"}
    [] event = "input.provided" -> {"waiting_input"}
    [] event = "capability.ready" -> {"waiting_capability"}
    [] event \in {"approval.granted", "run.approval_granted",
                  "run.approval_denied", "run.approval_expired"}
         -> {"waiting_approval"}
    [] event \in {"dispatch.acknowledged", "dispatch.timed_out"}
         -> {"dispatched"}
    [] event \in {"run.needs_approval", "run.verifying", "pause.requested"}
         -> {"running"}
    [] event = "pause.reached" -> {"pause_requested"}
    [] event = "resume.requested" -> {"paused"}
    [] event = "cancel.requested" -> Cancellable
    [] event = "cancel.confirmed" -> {"cancel_requested"}
    [] event = "effect.unknown"
         -> {"running", "pause_requested", "cancel_requested", "verifying"}
    [] event \in {"verify.passed", "verify.failed"} -> {"verifying"}
    [] event = "reconcile.start" -> {"uncertain"}
    [] OTHER -> {"reconciling"}

\* The state an event leads to; no event of the table has two.
Target(event) ==
  CASE event \in {"resolve.start", "input.provided"} -> "resolving"
    [] event = "resolve.need_input" -> "waiting_input"
    [] event = "resolve.need_capability" -> "waiting_capability"
    [] event \in {"resolve.need_approval", "run.needs_approval"}
         -> "waiting_approval"
    [] event \in {"resolve.ready", "run.approval_granted"} -> "dispatched"
    [] event \in {"capability.ready", "approval.granted", "resume.requested"}
         -> "queued"
    [] event = "dispatch.acknowledged" -> "running"
    [] event = "run.verifying" -> "verifying"
    [] event = "pause.requested" -> "pause_requested"
    [] event \in {"pause.reached", "reconcile.parked"} -> "paused"
    [] event = "cancel.requested" -> "cancel_requested"
    [] event \in {"cancel.confirmed", "reconcile.cancelled"} -> "cancelled"
    [] event \in {"dispatch.timed_out", "effect.unknown"} -> "uncertain"
    [] event = "reconcile.start" -> "reconciling"
    [] event \in {"verify.passed", "reconcile.succeeded"} -> "succeeded"
    [] OTHER -> "failed"

\* reduceTask answers ok: the event is legal in the state.
Legal(state, event) == state \in Sources(event)

EffectState == {"prepared", "submitted", "confirmed", "failed", "unknown"}

\* An effect whose outcome is not on record; it blocks every success.
Unsettled == {"prepared", "submitted", "unknown"}

CanTransitionEffect(from, to) ==
  \/ from = "prepared"  /\ to \in {"submitted", "failed"}
  \/ from = "submitted" /\ to \in {"confirmed", "failed", "unknown"}
  \/ from = "unknown"   /\ to \in {"confirmed", "failed"}
=============================================================================
