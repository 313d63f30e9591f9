----------------------------- MODULE Remediation -----------------------------
(***************************************************************************)
(* remediation/service.go, executor.go, store.go and decision_store.go:    *)
(* approval, rejection, execution and rollback of the remediation plans of *)
(* ONE incident, by operators whose requests interleave statement by       *)
(* statement, against a cluster that others may write to as well.  The     *)
(* diagnostic workflow (module Workflow) appears as the environment that   *)
(* proposes plans, again after every reanalysis.                           *)
(***************************************************************************)
EXTENDS IncidentStatus, Policy, Sequences

CONSTANTS
  Worker,        \* requests that may be in flight at once
  Plan,          \* the plans a remediation role may propose: sequences of actions
  MaxPlans,      \* bound on proposals
  MaxRequests,   \* bound on requests
  MaxExternal,   \* bound on writes to the cluster by others
  MaxFaults      \* bound on cancelled requests and crashes together

ASSUME BoundsAssumption ==
  MaxPlans \in Nat /\ MaxRequests \in Nat /\ MaxExternal \in Nat /\ MaxFaults \in Nat

ASSUME PlanAssumption ==
  \A p \in Plan : Len(p) \in Nat /\ DOMAIN p = 1..Len(p)

VARIABLES
  \* --- the database ---
  status,     \* incidents.status
  plans,      \* outputs of the succeeded remediation runs, the latest last
  snapshots,  \* remediation_snapshots
  audit,      \* audit_records, in order
  \* --- the cluster ---
  object,     \* what each target holds: content and resourceVersion
  \* --- one request each ---
  pc, req,
  \* --- history and environment ---
  writes,     \* writes the executor applied, in order
  executed,   \* the plan whose execution began last
  unclosed,   \* the closing statements of an execution failed
  requests, externals, faults

db   == <<status, plans, snapshots, audit>>
hist == <<writes, executed>>
env  == <<requests, externals, faults, unclosed>>
vars == <<db, object, pc, req, hist, env>>

Action == UNION {{p[i] : i \in DOMAIN p} : p \in Plan}
Kind   == {a.kind : a \in Action}

\* An object of the cluster: within the incident's namespace, kind and name.
TargetOf(action) == <<action.resourceKind, action.name>>
Target == {TargetOf(a) : a \in Action}

\* Content is told apart by who wrote it last.
Content == {"original", "external"} \cup Kind
Object  == [content: Content, version: Nat]

Snapshot == [kind: Kind, target: Target, content: Content, version: Nat]

Executing == {"check", "snapshot", "save", "auditStarted", "get", "update", "wait",
              "auditSucceeded", "auditFailed", "end", "endCAS"}
Label == Executing \cup {"idle", "approve", "decide", "execute", "actions", "begin", "beginCAS",
                         "rollback", "restore", "auditRollback"}

AuditAction == {"approve-remediation", "reject-remediation", "execution_started",
                "execution_succeeded", "execution_failed", "rollback"}

NoSnapshot == [kind |-> "", target |-> <<>>, content |-> "original", version |-> 0]

\* plan and step: the action at hand; from: the status Advance read; to: the one
\* that Decide or the last Advance wants; snap: the snapshot taken or fetched; version: what Get returned.
Memory == [plan: Nat, step: Nat, from: Status, to: Status, snap: Snapshot \cup {NoSnapshot},
           version: Nat]

Fresh == [plan |-> 0, step |-> 0, from |-> "received", to |-> "approved", snap |-> NoSnapshot,
          version |-> 0]

TypeOK ==
  /\ status \in Status
  /\ plans \in Seq(Plan)
  /\ snapshots \subseteq Snapshot
  /\ audit \in Seq([action: AuditAction, plan: Nat, step: Nat])
  /\ object \in [Target -> Object]
  /\ pc \in [Worker -> Label]
  /\ req \in [Worker -> Memory]
  /\ writes \in Seq([plan: Nat, step: Nat, before: Content])
  /\ executed \in Nat
  /\ requests \in Nat /\ externals \in Nat /\ faults \in Nat /\ unclosed \in BOOLEAN

Init ==
  /\ status = "received"
  /\ plans = <<>>
  /\ snapshots = {}
  /\ audit = <<>>
  /\ object = [t \in Target |-> [content |-> "original", version |-> 0]]
  /\ pc = [w \in Worker |-> "idle"]
  /\ req = [w \in Worker |-> Fresh]
  /\ writes = <<>>
  /\ executed = 0
  /\ requests = 0 /\ externals = 0 /\ faults = 0 /\ unclosed = FALSE

Goto(w, label) == pc' = [pc EXCEPT ![w] = label]

Return(w) == Goto(w, "idle") /\ req' = [req EXCEPT ![w] = Fresh]

Record(action, plan, step) ==
  audit' = Append(audit, [action |-> action, plan |-> plan, step |-> step])

\* Only the locals of w change.
Local == UNCHANGED <<db, object, hist, env>>

\* The action an executing request is at.
ActionOf(w) == plans[req[w].plan][req[w].step]

-----------------------------------------------------------------------------
(* Requests *)

\* An operator sends a decision, an execution or a rollback.
Request(w) ==
  /\ pc[w] = "idle"
  /\ requests < MaxRequests
  /\ requests' = requests + 1
  /\ \/ Goto(w, "approve") /\ UNCHANGED req
     \/ Goto(w, "decide")  /\ req' = [req EXCEPT ![w].to = "rejected"]
     \/ Goto(w, "execute") /\ UNCHANGED req
     \/ Goto(w, "rollback") /\ UNCHANGED req
  /\ UNCHANGED <<db, object, hist, externals, faults, unclosed>>

-----------------------------------------------------------------------------
(* Approve and Reject *)

\* Approve reads the latest plan and rechecks it.
RecheckPlan(w) ==
  /\ pc[w] = "approve"
  /\ IF plans # <<>> /\ Approvable(plans[Len(plans)])
       THEN Goto(w, "decide") /\ UNCHANGED req
       ELSE Return(w)
  /\ Local

\* Mutant: an UPDATE that does not compare.
DecideUnchecked(w) ==
  /\ pc[w] = "decide"
  /\ Return(w)
  /\ status' = req[w].to
  /\ Record(IF req[w].to = "approved" THEN "approve-remediation" ELSE "reject-remediation",
            Len(plans), 0)
  /\ UNCHANGED <<plans, snapshots, object, hist, env>>

\* Decide: the compare-and-swap and its audit record, in one transaction.
Decide(w) ==
  /\ pc[w] = "decide"
  /\ Return(w)
  /\ IF status = "awaiting_approval"
       THEN /\ status' = req[w].to
            /\ Record(IF req[w].to = "approved" THEN "approve-remediation" ELSE "reject-remediation",
                      Len(plans), 0)
       ELSE UNCHANGED <<status, audit>>
  /\ UNCHANGED <<plans, snapshots, object, hist, env>>

-----------------------------------------------------------------------------
(* Execute: from the approved status to executing *)

CheckApproved(w) ==
  /\ pc[w] = "execute"
  /\ IF status = "approved" THEN Goto(w, "actions") /\ UNCHANGED req ELSE Return(w)
  /\ Local

\* The plan to execute; display-only actions, those without a kind, drop out.
actionsFromPlan(w) ==
  /\ pc[w] = "actions"
  /\ IF plans # <<>> /\ \E i \in DOMAIN plans[Len(plans)] : plans[Len(plans)][i].kind # ""
       THEN Goto(w, "begin") /\ req' = [req EXCEPT ![w].plan = Len(plans)]
       ELSE Return(w)
  /\ Local

\* Advance(executing): a validation read ...
BeginGet(w) ==
  /\ pc[w] = "begin"
  /\ IF CanTransition(status, "executing")
       THEN Goto(w, "beginCAS") /\ req' = [req EXCEPT ![w].from = status]
       ELSE Return(w)
  /\ Local

\* Mutant: off by one.
IsNextStepSkips(i, plan, from) ==
  LET left == {j \in DOMAIN plan : from < j /\ plan[j].kind # ""}
  IN  \/ i \in left /\ \A j \in left : i <= j
      \/ i = 0 /\ left = {}

\* The first action at or after step i that has a kind; 0 when there is none.
IsNextStep(i, plan, from) ==
  LET left == {j \in DOMAIN plan : from <= j /\ plan[j].kind # ""}
  IN  \/ i \in left /\ \A j \in left : i <= j
      \/ i = 0 /\ left = {}

\* Mutant: an UPDATE that does not compare.
BeginSet(w) ==
  /\ pc[w] = "beginCAS"
  /\ status' = "executing"
  /\ executed' = req[w].plan
  /\ \E i \in 1..Len(plans[req[w].plan]) :
       /\ IsNextStep(i, plans[req[w].plan], 1)
       /\ req' = [req EXCEPT ![w].step = i]
  /\ Goto(w, "check")
  /\ UNCHANGED <<plans, snapshots, audit, object, writes, env>>

\* ... and a compare-and-swap from the status read.
BeginCAS(w) ==
  /\ pc[w] = "beginCAS"
  /\ IF status = req[w].from
       THEN /\ status' = "executing"
            /\ executed' = req[w].plan
            /\ \E i \in 1..Len(plans[req[w].plan]) :
                 /\ IsNextStep(i, plans[req[w].plan], 1)
                 /\ req' = [req EXCEPT ![w].step = i]
            /\ Goto(w, "check")
       ELSE Return(w) /\ UNCHANGED <<status, executed>>
  /\ UNCHANGED <<plans, snapshots, audit, object, writes, env>>

-----------------------------------------------------------------------------
(* Executor.Execute: one action after the other *)

\* Leaving the loop: Advance(failed) or Advance(resolved) is next.
Leave(w, to) == Goto(w, "end") /\ req' = [req EXCEPT ![w].to = to]

HasExecuted(action) ==
  \E s \in snapshots : s.kind = action.kind /\ s.target[2] = action.name

\* Mutant: the policy is not evaluated again.
CheckActionTrusting(w) ==
  /\ pc[w] = "check"
  /\ IF ~HasExecuted(ActionOf(w)) THEN Goto(w, "snapshot") /\ UNCHANGED req
                                  ELSE Leave(w, "failed")
  /\ Local

\* Mutant: no idempotency check.
CheckActionRepeats(w) ==
  /\ pc[w] = "check"
  /\ IF Evaluate(ActionOf(w)).allowed THEN Goto(w, "snapshot") /\ UNCHANGED req
                                      ELSE Leave(w, "failed")
  /\ Local

CheckAction(w) ==
  /\ pc[w] = "check"
  /\ IF Evaluate(ActionOf(w)).allowed /\ ~HasExecuted(ActionOf(w))
       THEN Goto(w, "snapshot") /\ UNCHANGED req
       ELSE Leave(w, "failed")
  /\ Local

TakeSnapshot(w) ==
  LET t == TargetOf(ActionOf(w))
  IN  /\ pc[w] = "snapshot"
      /\ req' = [req EXCEPT ![w].snap = [kind |-> ActionOf(w).kind, target |-> t,
                                         content |-> object[t].content,
                                         version |-> object[t].version]]
      /\ Goto(w, "save")
      /\ Local

SaveSnapshot(w) ==
  /\ pc[w] = "save"
  /\ snapshots' = snapshots \cup {req[w].snap}
  /\ Goto(w, "auditStarted")
  /\ UNCHANGED <<status, plans, audit, object, req, hist, env>>

\* Mutant: the write is not announced.
AuditStartedSkipped(w) ==
  /\ pc[w] = "auditStarted"
  /\ Goto(w, "get")
  /\ UNCHANGED <<db, object, req, hist, env>>

AuditStarted(w) ==
  /\ pc[w] = "auditStarted"
  /\ Record("execution_started", req[w].plan, req[w].step)
  /\ Goto(w, "get")
  /\ UNCHANGED <<status, plans, snapshots, object, req, hist, env>>

\* apply: every kind of write gets the object first ...
GetObject(w) ==
  /\ pc[w] = "get"
  /\ req' = [req EXCEPT ![w].version = object[TargetOf(ActionOf(w))].version]
  /\ Goto(w, "update")
  /\ Local

Write(w) ==
  LET t == TargetOf(ActionOf(w))
  IN  /\ object' = [object EXCEPT ![t] = [content |-> ActionOf(w).kind, version |-> @.version + 1]]
      /\ writes' = Append(writes, [plan |-> req[w].plan, step |-> req[w].step,
                                   before |-> object[t].content])

\* ... and updates it; the API server refuses a stale resourceVersion.
UpdateObject(w) ==
  /\ pc[w] = "update"
  /\ IF object[TargetOf(ActionOf(w))].version = req[w].version
       THEN /\ Write(w)
            /\ Goto(w, IF ActionOf(w).resourceKind = "Deployment" THEN "wait" ELSE "auditSucceeded")
       ELSE /\ Goto(w, "auditFailed")
            /\ UNCHANGED <<object, writes>>
  /\ UNCHANGED <<db, req, executed, env>>

\* The write is applied and the reply is lost.
UpdateReplyLost(w) ==
  /\ pc[w] = "update"
  /\ object[TargetOf(ActionOf(w))].version = req[w].version
  /\ Write(w)
  /\ Goto(w, "auditFailed")
  /\ UNCHANGED <<db, req, executed, env>>

RolloutObserved(w) ==
  /\ pc[w] = "wait"
  /\ Goto(w, "auditSucceeded")
  /\ UNCHANGED req
  /\ Local

AuditSucceeded(w) ==
  /\ pc[w] = "auditSucceeded"
  /\ Record("execution_succeeded", req[w].plan, req[w].step)
  /\ \E i \in 0..Len(plans[req[w].plan]) :
       /\ IsNextStep(i, plans[req[w].plan], req[w].step + 1)
       /\ IF i # 0 THEN Goto(w, "check") /\ req' = [req EXCEPT ![w].step = i]
                   ELSE Leave(w, "resolved")
  /\ UNCHANGED <<status, plans, snapshots, object, hist, env>>

\* A statement before the write, or the last audit record, fails; the write or
\* its observation fails without effect (a rollout that never becomes available).
StatementFails(w) ==
  /\ pc[w] \in {"check", "snapshot", "save", "auditStarted", "auditSucceeded"}
  /\ Leave(w, "failed")
  /\ Local

WriteFails(w) ==
  /\ pc[w] \in {"get", "update", "wait"}
  /\ Goto(w, "auditFailed")
  /\ UNCHANGED req
  /\ Local

\* The error of this record is ignored.
AuditFailed(w) ==
  /\ pc[w] = "auditFailed"
  /\ Leave(w, "failed")
  /\ Record("execution_failed", req[w].plan, req[w].step) \/ UNCHANGED audit
  /\ UNCHANGED <<status, plans, snapshots, object, hist, env>>

\* Advance out of executing: the read, and the compare-and-swap.
EndGet(w) ==
  /\ pc[w] = "end"
  /\ IF CanTransition(status, req[w].to)
       THEN Goto(w, "endCAS") /\ req' = [req EXCEPT ![w].from = status]
       ELSE Return(w)
  /\ Local

\* Mutant: a run's status is written to the incident.
EndSucceeded(w) ==
  /\ pc[w] = "endCAS"
  /\ Return(w)
  /\ status' = "succeeded"
  /\ UNCHANGED <<plans, snapshots, audit, object, hist, env>>

\* Mutant: the incident is left executing.
EndForgotten(w) ==
  /\ pc[w] = "endCAS"
  /\ Return(w)
  /\ UNCHANGED <<db, object, hist, env>>

EndCAS(w) ==
  /\ pc[w] = "endCAS"
  /\ Return(w)
  /\ status' = IF status = req[w].from THEN req[w].to ELSE status
  /\ UNCHANGED <<plans, snapshots, audit, object, hist, env>>

\* Advance itself fails, its read or its update: Execute drops the error of the move to
\* failed and returns that of the move to resolved, and the incident stays executing.
EndFails(w) ==
  /\ pc[w] \in {"end", "endCAS"}
  /\ Return(w)
  /\ unclosed' = TRUE
  /\ UNCHANGED <<db, object, hist, requests, externals, faults>>

-----------------------------------------------------------------------------
(* Rollback: any snapshot, in any status *)

FindSnapshot(w) ==
  /\ pc[w] = "rollback"
  /\ \/ Return(w)
     \/ \E s \in snapshots : Goto(w, "restore") /\ req' = [req EXCEPT ![w].snap = s]
  /\ Local

\* The stored object, metadata and all, is sent as an Update.
RestoreObject(w) ==
  LET s == req[w].snap
  IN  /\ pc[w] = "restore"
      /\ IF object[s.target].version = s.version
           THEN /\ object' = [object EXCEPT ![s.target] = [content |-> s.content,
                                                           version |-> @.version + 1]]
                /\ Goto(w, "auditRollback")
                /\ UNCHANGED req
           ELSE Return(w) /\ UNCHANGED object
      /\ UNCHANGED <<db, hist, env>>

AuditRollback(w) ==
  /\ pc[w] = "auditRollback"
  /\ Return(w)
  /\ Record("rollback", 0, 0) \/ UNCHANGED audit
  /\ UNCHANGED <<status, plans, snapshots, object, hist, env>>

\* A statement that fails outside the executor, or the restoring write: the error is
\* returned, and nothing has been done.
RequestFails(w) ==
  /\ pc[w] \in {"approve", "decide", "execute", "actions", "begin", "beginCAS", "restore"}
  /\ Return(w)
  /\ Local

-----------------------------------------------------------------------------
(* The environment *)

\* The diagnostic workflow, of which only the plan matters here: a reset by
\* Reanalyze, the succeeded remediation role, and the end of the risk review.
Reanalyze ==
  /\ status \in Terminal
  /\ Len(plans) < MaxPlans
  /\ status' = "received"
  /\ UNCHANGED <<plans, snapshots, audit, object, pc, req, hist, env>>

ProposePlan ==
  /\ status = "received"
  /\ Len(plans) < MaxPlans
  /\ status' = "proposing"
  /\ \E p \in Plan : plans' = Append(plans, p)
  /\ UNCHANGED <<snapshots, audit, object, pc, req, hist, env>>

EndDiagnosis ==
  /\ \/ status = "proposing" /\ status' \in {"awaiting_approval", "failed"}
     \/ status = "received"  /\ status' = "failed"
  /\ UNCHANGED <<plans, snapshots, audit, object, pc, req, hist, env>>

\* A controller or another client writes to an object.
ExternalWrite ==
  /\ externals < MaxExternal
  /\ externals' = externals + 1
  /\ \E t \in Target :
       object' = [object EXCEPT ![t] = [content |-> "external", version |-> @.version + 1]]
  /\ UNCHANGED <<db, pc, req, hist, requests, faults, unclosed>>

\* The client goes away: every later statement of the request fails, Advance in
\* the failure path of Execute included.
Cancel(w) ==
  /\ pc[w] # "idle"
  /\ faults < MaxFaults
  /\ faults' = faults + 1
  /\ Return(w)
  /\ UNCHANGED <<db, object, hist, requests, externals, unclosed>>

Crash ==
  /\ \E w \in Worker : pc[w] # "idle"
  /\ faults < MaxFaults
  /\ faults' = faults + 1
  /\ pc' = [w \in Worker |-> "idle"]
  /\ req' = [w \in Worker |-> Fresh]
  /\ UNCHANGED <<db, object, hist, requests, externals, unclosed>>

-----------------------------------------------------------------------------
(* The specification *)

Step(w) ==
  \/ RecheckPlan(w) \/ Decide(w)
  \/ CheckApproved(w) \/ actionsFromPlan(w) \/ BeginGet(w) \/ BeginCAS(w)
  \/ CheckAction(w) \/ TakeSnapshot(w) \/ SaveSnapshot(w) \/ AuditStarted(w)
  \/ GetObject(w) \/ UpdateObject(w) \/ UpdateReplyLost(w) \/ RolloutObserved(w)
  \/ AuditSucceeded(w) \/ StatementFails(w) \/ WriteFails(w) \/ AuditFailed(w)
  \/ EndGet(w) \/ EndCAS(w)
  \/ FindSnapshot(w) \/ RestoreObject(w) \/ AuditRollback(w)

Fails(w) == EndFails(w) \/ RequestFails(w)

Environment == Reanalyze \/ ProposePlan \/ EndDiagnosis \/ ExternalWrite

Next ==
  \/ \E w \in Worker : Step(w) \/ Fails(w) \/ Request(w) \/ Cancel(w)
  \/ Crash
  \/ Environment

Spec == Init /\ [][Next]_vars

\* A request in flight goes on: its statements are answered, and the wait for a
\* rollout has a timeout.
FairSpec == Spec /\ \A w \in Worker : WF_vars(Step(w))

-----------------------------------------------------------------------------
(* Safety *)

\* The compare-and-swap into executing is all that keeps two Execute requests
\* apart: at most one request is in the executor, and as long as it is there
\* the incident is executing.
SingleExecutor ==
  /\ \A w \in Worker : pc[w] \in Executing => status = "executing"
  /\ \A v, w \in Worker : pc[v] \in Executing /\ pc[w] \in Executing => v = w

\* Whatever was approved, by whom and on which stale reading, no action that
\* policy denies is ever applied to the cluster.
DeniedNeverWritten ==
  \A i \in DOMAIN writes : Evaluate(plans[writes[i].plan][writes[i].step]).allowed

\* HasExecuted and Save are two statements, the write a third: still the same
\* action hits the same object once per incident, through faults and reanalyses.
NoDoubleWrite ==
  \A i, j \in DOMAIN writes :
    LET a == plans[writes[i].plan][writes[i].step]
        b == plans[writes[j].plan][writes[j].step]
    IN  a.kind = b.kind /\ TargetOf(a) = TargetOf(b) => i = j

\* Every write is announced in the audit chain and covered by a snapshot of the
\* same action on the same object, taken of what was there just before (or, if
\* others write too, of something older).
WriteIsCovered ==
  \A i \in DOMAIN writes :
    LET a == plans[writes[i].plan][writes[i].step]
    IN  /\ \E k \in DOMAIN audit :
             audit[k] = [action |-> "execution_started", plan |-> writes[i].plan,
                         step |-> writes[i].step]
        /\ \E s \in snapshots : /\ s.kind = a.kind /\ s.target = TargetOf(a)
                                /\ s.content = writes[i].before \/ externals > 0

\* A proposal is decided at most once, however many operators decide, and a
\* decision and its audit record are one.
DecidedOnce ==
  LET Decisions(p) == {k \in DOMAIN audit :
        audit[k].plan = p /\ audit[k].action \in {"approve-remediation", "reject-remediation"}}
  IN  /\ \A p \in DOMAIN plans : \A j, k \in Decisions(p) : j = k
      /\ status \in {"approved", "executing", "resolved"} =>
           \E k \in Decisions(Len(plans)) : audit[k].action = "approve-remediation"

\* Resolved is earned: every action of the executed plan was applied, and its
\* success audited.
ResolvedIsApplied ==
  status = "resolved" =>
    \A i \in DOMAIN plans[executed] :
      plans[executed][i].kind # "" =>
        /\ \E k \in DOMAIN writes : writes[k].plan = executed /\ writes[k].step = i
        /\ \E k \in DOMAIN audit :
             audit[k] = [action |-> "execution_succeeded", plan |-> executed, step |-> i]

\* "Rollback restores a resource from a previously captured snapshot": also when
\* nobody but the executor has written since.
RollbackRestores ==
  [][ \A w \in Worker :
        RestoreObject(w) => object'[req[w].snap.target].content = req[w].snap.content ]_vars

-----------------------------------------------------------------------------
(* What the owner of the cluster sees *)

\* Display-only actions aside, what a plan is about to do.
RealActions(plan) == {plan[i] : i \in {j \in 1..Len(plan) : plan[j].kind # ""}}

Permitted   == {a \in Action : Evaluate(a).allowed}
Proposed    == {RealActions(plans[i]) : i \in 1..Len(plans)}
InExecution == IF executed = 0 THEN {} ELSE RealActions(plans[executed])
Applied     == [k \in 1..Len(writes) |-> plans[writes[k].plan][writes[k].step]]

Gate == INSTANCE ApprovalGate WITH
  proposed <- Proposed, plan <- InExecution, applied <- Applied

\* Requests, snapshots, retries, lost replies and crashes do not show through:
\* whoever looks at the incident and the cluster sees a proposal, a decision,
\* permitted actions of one proposed plan, each once and all of them before
\* resolved (RemediationService and Executor.Execute).
RefinesGate == Gate!GateSpec

-----------------------------------------------------------------------------
(* Liveness *)

\* An execution comes to an end, whatever statement or write fails on the way: a check, a
\* snapshot, an audit record, the write or the wait for its rollout.  Only the failure of
\* the closing statements themselves, which Execute drops or returns, leaves the incident
\* executing, with no request to take it out again.
ExecutionSettles == status = "executing" ~> status \in {"resolved", "failed"} \/ unclosed
=============================================================================
