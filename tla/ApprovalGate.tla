---------------------------- MODULE ApprovalGate ----------------------------
(***************************************************************************)
(* What remediation promises to the owner of a cluster, without requests,  *)
(* snapshots, audit records, retries or crashes: nothing is written before *)
(* a decision, what is written belongs to the plan in execution and is     *)
(* permitted, no action hits its object twice, and resolved means that all *)
(* of the plan is in the cluster (remediation/service.go, executor.go).    *)
(* Remediation implements this.                                            *)
(***************************************************************************)
EXTENDS IncidentStatus, Sequences

CONSTANTS
  Action,     \* actions a remediation role may propose
  Permitted   \* those that policy allows

VARIABLES
  status,
  proposed,   \* the plans proposed so far, as sets of actions
  plan,       \* the plan whose execution began last
  applied     \* the actions applied to the cluster, in order

gate == <<status, proposed, plan, applied>>

\* Two actions are the same to the executor when they do the same to one object.
Identity(action) == <<action.kind, action.resourceKind, action.name>>

GateInit == status = "received" /\ proposed = {} /\ plan = {} /\ applied = <<>>

\* A diagnosis may propose a plan, and waits for a decision or fails.
Diagnose ==
  /\ status \in Diagnosing
  /\ \/ /\ status' = "proposing"
        /\ \E p \in SUBSET Action : proposed' = proposed \cup {p}
     \/ /\ \/ status = "proposing" /\ status' = "awaiting_approval"
           \/ status' = "failed"
        /\ UNCHANGED proposed
  /\ UNCHANGED <<plan, applied>>

Decide ==
  /\ status = "awaiting_approval"
  /\ status' \in {"approved", "rejected"}
  /\ UNCHANGED <<proposed, plan, applied>>

Begin ==
  /\ status = "approved"
  /\ status' = "executing"
  /\ plan' \in proposed \ {{}}
  /\ UNCHANGED <<proposed, applied>>

Apply ==
  /\ status = "executing"
  /\ \E a \in plan \cap Permitted :
       /\ \A k \in DOMAIN applied : Identity(applied[k]) # Identity(a)
       /\ applied' = Append(applied, a)
  /\ UNCHANGED <<status, proposed, plan>>

End ==
  /\ status = "executing"
  /\ \/ status' = "resolved" /\ \A a \in plan : \E k \in DOMAIN applied : applied[k] = a
     \/ status' = "failed"
  /\ UNCHANGED <<proposed, plan, applied>>

Restart ==
  /\ status \in Terminal
  /\ status' = "received"
  /\ UNCHANGED <<proposed, plan, applied>>

GateNext == Diagnose \/ Decide \/ Begin \/ Apply \/ End \/ Restart

GateSpec == GateInit /\ [][GateNext]_gate
=============================================================================
