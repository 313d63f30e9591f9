-------------------------- MODULE IncidentLifecycle --------------------------
(***************************************************************************)
(* What an incident promises to the console that polls it, without         *)
(* requests, locks, runs or crashes (docs/aiops/api-v1.md names the        *)
(* statuses; aiops/state_machine.go and aiops/workflow.go are the code):   *)
(* diagnosis goes step by step and is never half a step ahead, an operator *)
(* decides on a finished diagnosis only, and an incident that has ended    *)
(* starts again from nothing or stays as it is.  Workflow implements this. *)
(***************************************************************************)
EXTENDS IncidentStatus

VARIABLES
  status,
  done        \* the steps of this analysis that succeeded

view == <<status, done>>

LifecycleInit == status = "received" /\ done = {}

\* A role succeeds and the incident advances: one step for whoever looks.
Advance ==
  /\ status \in Diagnosing \ done
  /\ status' = NextStatus[status] /\ done' = done \cup {status}

Fail ==
  /\ status \in Diagnosing \cup {"executing"}
  /\ status' = "failed" /\ done' = done

Settle ==
  /\ done = Diagnosing /\ done' = done
  /\ \/ status = "awaiting_approval" /\ status' \in {"approved", "rejected"}
     \/ status = "approved" /\ status' = "executing"
     \/ status = "executing" /\ status' = "resolved"

Restart == status \in Terminal /\ status' = "received" /\ done' = {}

LifecycleNext == Advance \/ Fail \/ Settle \/ Restart

LifecycleSpec == LifecycleInit /\ [][LifecycleNext]_view
=============================================================================
