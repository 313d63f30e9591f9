--------------------------- MODULE IncidentStatus ---------------------------
(***************************************************************************)
(* The incident status machine and the five diagnostic roles: the constant *)
(* tables of aiops/state_machine.go and aiops/workflow.go that every       *)
(* component of the incident pipeline consults.                            *)
(***************************************************************************)
EXTENDS Naturals

\* The statuses a diagnosis passes through, in order.
Diagnosing == {"received", "triaging", "collecting", "analyzing", "proposing"}

\* Statuses without an outgoing edge; Reanalyze alone leaves them.
Terminal == {"resolved", "rejected", "failed"}

Status == Diagnosing \cup {"awaiting_approval", "approved", "executing"} \cup Terminal

transitions ==
  [ received          |-> {"triaging", "failed"},
    triaging          |-> {"collecting", "failed"},
    collecting        |-> {"analyzing", "failed"},
    analyzing         |-> {"proposing", "failed"},
    proposing         |-> {"awaiting_approval", "rejected", "failed"},
    awaiting_approval |-> {"approved", "rejected", "failed"},
    approved          |-> {"executing", "failed"},
    executing         |-> {"resolved", "failed"},
    resolved          |-> {},
    rejected          |-> {},
    failed            |-> {} ]

CanTransition(from, to) == from # to /\ to \in transitions[from]

-----------------------------------------------------------------------------
Role == {"triage", "collector", "root_cause", "remediation", "risk_review"}

\* Roles that cannot run without a configured model.
requiresModel(role) == role \notin {"triage", "collector"}

\* workflowSteps: the role that runs from a status ...
StepRole ==
  [ received   |-> "triage",
    triaging   |-> "collector",
    collecting |-> "root_cause",
    analyzing  |-> "remediation",
    proposing  |-> "risk_review" ]

\* ... and the status its success advances the incident to.
NextStatus ==
  [ received   |-> "triaging",
    triaging   |-> "collecting",
    collecting |-> "analyzing",
    analyzing  |-> "proposing",
    proposing  |-> "awaiting_approval" ]

\* The position of a status along the diagnostic chain; every status a human
\* or the executor reaches afterwards has completed the whole chain.
Rank(s) ==
  CASE s = "received"   -> 0
    [] s = "triaging"   -> 1
    [] s = "collecting" -> 2
    [] s = "analyzing"  -> 3
    [] s = "proposing"  -> 4
    [] OTHER            -> 5
=============================================================================
