------------------------------ MODULE Workflow ------------------------------
(***************************************************************************)
(* aiops/workflow.go over aiops/run.go and aiops/repository.go: the        *)
(* recoverable diagnostic workflow of ONE incident.  Incidents share no    *)
(* rows, so one incident and all the requests that touch it is the whole   *)
(* interaction.                                                            *)
(*                                                                         *)
(* The database is a single SQLite connection, so each statement and each  *)
(* transaction is one atomic action; everything a request does between two *)
(* statements is local to its Worker.  A Worker is an HTTP request that    *)
(* runs Workflow.Run or Workflow.Reanalyze.  What lives in the database    *)
(* (status, runs, lock, evidence, events) survives a crash, what lives in  *)
(* a Worker does not.                                                      *)
(***************************************************************************)
EXTENDS IncidentStatus, Sequences, FiniteSets

CONSTANTS
  Worker,           \* requests that may be in flight at once
  Row,              \* identities of the evidence rows a collection may yield
  Retrigger,        \* FALSE: Run is called once, by the create handler
                    \* TRUE: any number of triggers, as Run's contract allows
  MaxEpoch,         \* bound on reanalyses
  MaxRuns,          \* bound on the runs recorded
  MaxCancels,       \* bound on cancelled requests
  MaxCrashes,       \* bound on crashes of the process
  MaxFailures,      \* bound on statements that fail while their request lives
  MaxFaults         \* bound on the three together

ASSUME RetriggerAssumption == Retrigger \in BOOLEAN
ASSUME BoundsAssumption ==
  /\ MaxEpoch \in Nat /\ MaxRuns \in Nat
  /\ MaxCancels \in Nat /\ MaxCrashes \in Nat /\ MaxFailures \in Nat /\ MaxFaults \in Nat

VARIABLES
  \* --- the database ---
  status,     \* incidents.status
  runs,       \* agent_runs, in rowid order
  lock,       \* the workflow_locks row of the incident exists
  evidence,   \* evidence rows
  events,     \* incident_events, in id order
  \* --- one request each ---
  pc,         \* the next statement of the request
  req,        \* its local variables, see Memory
  \* --- history and environment ---
  epoch,      \* how often the incident was reset; tags rows and runs
  triggered,  \* the create handler has called Run
  model,      \* WorkflowOptions.ModelConfigured, the same after a restart
  cancels,    \* requests cancelled so far
  crashes,    \* crashes so far
  failures    \* statements that failed otherwise so far

db   == <<status, runs, lock, evidence, events, epoch>>
env  == <<triggered, model, cancels, crashes, failures>>
vars == <<db, pc, req, env>>

RunStatus == {"running", "succeeded", "failed", "skipped"}
EventType == {"run_started", "run_completed", "incident_updated", "reanalyze_started"}

\* From the choice of a role to its CompleteRun; while a run is in progress; all
\* the statements issued with the lock held.
Deciding == {"attempt", "create", "emitStarted", "execute", "store", "prompt", "complete"}
Running  == {"emitStarted", "execute", "store", "prompt", "complete"}
Locked   == Deciding \cup {"emitCompleted", "reload", "emitUpdated", "check",
                           "emitReanalyze", "wipe", "reset", "get", "release"}
Label   == Locked \cup {"idle", "acquire"}

\* What follows status is history: the reset the run belongs to, the run whose output
\* its prompt was built from (0: none), whether the read of that output failed, and
\* whether its CompleteRun did.
Run == [role: Role, attempt: Nat \ {0}, status: RunStatus, epoch: Nat, basis: Nat,
        blind: BOOLEAN, uncommitted: BOOLEAN]
Event == [type: EventType, run: Nat, status: Status \cup RunStatus]

Memory ==
  [ op:      {"run", "reanalyze"},
    seen:    Status,      \* inc.Status as last read
    attempt: Nat,         \* the number NextAttempt returned
    cur:     Nat,         \* rowid of the run in progress
    todo:    SUBSET Row,  \* collected rows not stored yet
    outcome: RunStatus,   \* run.Status in memory
    stop:    BOOLEAN ]    \* executeStep returned an error or errWorkflowStopped

Fresh == [op |-> "run", seen |-> "received", attempt |-> 0, cur |-> 0,
          todo |-> {}, outcome |-> "running", stop |-> FALSE]

TypeOK ==
  /\ status \in Status
  /\ runs \in Seq(Run)
  /\ lock \in BOOLEAN
  /\ evidence \subseteq [row: Row, epoch: Nat]
  /\ events \in Seq(Event)
  /\ pc \in [Worker -> Label]
  /\ req \in [Worker -> Memory]
  /\ epoch \in Nat
  /\ triggered \in BOOLEAN /\ model \in BOOLEAN
  /\ cancels \in Nat
  /\ crashes \in Nat
  /\ failures \in Nat

\* service.Create stored the incident as received; no request has begun.
Init ==
  /\ status = "received"
  /\ runs = <<>>
  /\ lock = FALSE
  /\ evidence = {}
  /\ events = <<>>
  /\ pc = [w \in Worker |-> "idle"]
  /\ req = [w \in Worker |-> Fresh]
  /\ epoch = 0
  /\ triggered = FALSE /\ model \in BOOLEAN
  /\ cancels = 0
  /\ crashes = 0
  /\ failures = 0

\* Another fault may happen.
MayFault == cancels + crashes + failures < MaxFaults

Goto(w, label) == pc' = [pc EXCEPT ![w] = label]

\* The request returns; its locals are gone.
Return(w) == Goto(w, "idle") /\ req' = [req EXCEPT ![w] = Fresh]

\* The role the request is executing.  currentStep finds none outside Diagnosing.
RoleOf(w) == StepRole[req[w].seen]

Emit(type, run, st) ==
  events' = Append(events, [type |-> type, run |-> run, status |-> st])

-----------------------------------------------------------------------------
(* Requests and the workflow lock *)

RequestRun(w) ==
  /\ pc[w] = "idle"
  /\ Retrigger \/ ~triggered
  /\ req' = [req EXCEPT ![w].op = "run"]
  /\ triggered' = TRUE
  /\ Goto(w, "acquire")
  /\ UNCHANGED <<db, model, cancels, crashes, failures>>

RequestReanalyze(w) ==
  /\ pc[w] = "idle"
  /\ epoch < MaxEpoch
  /\ req' = [req EXCEPT ![w].op = "reanalyze"]
  /\ Goto(w, "acquire")
  /\ UNCHANGED <<db, env>>

\* Mutant: RowsAffected is not looked at.
acquireLockUnchecked(w) ==
  /\ pc[w] = "acquire"
  /\ lock' = TRUE
  /\ Goto(w, IF req[w].op = "run" THEN "get" ELSE "check")
  /\ UNCHANGED <<status, runs, evidence, events, epoch, req, env>>

\* INSERT OR IGNORE INTO workflow_locks: the request that inserted the row goes
\* on, any other returns ErrWorkflowLocked.
acquireLock(w) ==
  /\ pc[w] = "acquire"
  /\ lock' = TRUE
  /\ IF lock THEN Return(w)
             ELSE /\ Goto(w, IF req[w].op = "run" THEN "get" ELSE "check")
                  /\ UNCHANGED req
  /\ UNCHANGED <<status, runs, evidence, events, epoch, env>>

\* Mutant: no deferred release.
releaseLockForgotten(w) ==
  /\ pc[w] = "release"
  /\ Return(w)
  /\ UNCHANGED <<db, env>>

\* The deferred DELETE FROM workflow_locks; it names no owner.
releaseLock(w) ==
  /\ pc[w] = "release"
  /\ lock' = FALSE
  /\ Return(w)
  /\ UNCHANGED <<status, runs, evidence, events, epoch, env>>

-----------------------------------------------------------------------------
(* Reanalyze, up to the point where it continues as runLocked *)

\* Mutant: any status may be reanalyzed.
checkReanalyzeDropped(w) ==
  /\ pc[w] = "check"
  /\ Goto(w, "emitReanalyze")
  /\ UNCHANGED <<db, req, env>>

checkReanalyze(w) ==
  /\ pc[w] = "check"
  /\ Goto(w, IF status \in Terminal THEN "emitReanalyze" ELSE "release")
  /\ UNCHANGED <<db, req, env>>

emitReanalyze(w) ==
  /\ pc[w] = "emitReanalyze"
  /\ Emit("reanalyze_started", 0, status)
  /\ Goto(w, "wipe")
  /\ UNCHANGED <<status, runs, lock, evidence, epoch, req, env>>

\* Mutant: the evidence of the last analysis stays.
DeleteIncidentEvidenceSkipped(w) ==
  /\ pc[w] = "wipe"
  /\ Goto(w, "reset")
  /\ UNCHANGED <<db, req, env>>

DeleteIncidentEvidence(w) ==
  /\ pc[w] = "wipe"
  /\ evidence' = {}
  /\ Goto(w, "reset")
  /\ UNCHANGED <<status, runs, lock, events, epoch, req, env>>

\* UpdateStatus(received): an UPDATE that does not look at the current status.
ResetStatus(w) ==
  /\ pc[w] = "reset"
  /\ status' = "received"
  /\ epoch' = epoch + 1
  /\ Goto(w, "get")
  /\ UNCHANGED <<runs, lock, evidence, events, req, env>>

-----------------------------------------------------------------------------
(* runLocked: the role loop *)

\* incidents.Get before the loop and at its end, with the currentStep test that
\* follows each.
ReadIncident(w) ==
  /\ req' = [req EXCEPT ![w].seen = status]
  /\ UNCHANGED <<db, env>>

GetIncident(w) ==
  /\ pc[w] = "get"
  /\ ReadIncident(w)
  /\ Goto(w, IF status \in Diagnosing THEN "attempt" ELSE "release")

\* Mutant: the loop keeps the incident it read first.
ReloadIncidentSkipped(w) ==
  /\ pc[w] = "reload"
  /\ Goto(w, "emitUpdated")
  /\ UNCHANGED <<db, req, env>>

ReloadIncident(w) ==
  /\ pc[w] = "reload"
  /\ ReadIncident(w)
  /\ Goto(w, "emitUpdated")

\* Mutant: the loop runs one role only.
emitUpdatedReturns(w) ==
  /\ pc[w] = "emitUpdated"
  /\ Emit("incident_updated", 0, req[w].seen)
  /\ Goto(w, "release")
  /\ UNCHANGED <<status, runs, lock, evidence, epoch, req, env>>

emitUpdated(w) ==
  /\ pc[w] = "emitUpdated"
  /\ Emit("incident_updated", 0, req[w].seen)
  /\ Goto(w, IF req[w].seen \in Diagnosing THEN "attempt" ELSE "release")
  /\ UNCHANGED <<status, runs, lock, evidence, epoch, req, env>>

\* Mutant: MAX(attempt) over all roles.
AttemptsOfAnyRole(role) == {runs[i].attempt : i \in DOMAIN runs}

AttemptsOf(role) == {runs[i].attempt : i \in {j \in DOMAIN runs : runs[j].role = role}}

\* SELECT COALESCE(MAX(attempt), 0) + 1
NextAttempt(w) ==
  /\ pc[w] = "attempt"
  /\ \E n \in 1..(Len(runs) + 1) :
       /\ n - 1 \in AttemptsOf(RoleOf(w)) \cup {0}
       /\ \A a \in AttemptsOf(RoleOf(w)) : a < n
       /\ req' = [req EXCEPT ![w].attempt = n]
  /\ Goto(w, "create")
  /\ UNCHANGED <<db, env>>

NewRun(w) ==
  [role |-> RoleOf(w), attempt |-> req[w].attempt, status |-> "running", epoch |-> epoch,
   basis |-> 0, blind |-> FALSE, uncommitted |-> FALSE]

CreateRun(w) ==
  /\ pc[w] = "create"
  /\ Len(runs) < MaxRuns
  /\ runs' = Append(runs, NewRun(w))
  /\ req' = [req EXCEPT ![w].cur = Len(runs) + 1, ![w].outcome = "running"]
  /\ Goto(w, "emitStarted")
  /\ UNCHANGED <<status, lock, evidence, events, epoch, env>>

emitStarted(w) ==
  /\ pc[w] = "emitStarted"
  /\ Emit("run_started", req[w].cur, "running")
  /\ Goto(w, "execute")
  /\ UNCHANGED <<status, runs, lock, evidence, epoch, req, env>>

-----------------------------------------------------------------------------
(* executeStep *)

\* The in-memory run gets its final status; CompleteRun writes it.
Finish(w, st) ==
  /\ req' = [req EXCEPT ![w].outcome = st]
  /\ Goto(w, "complete")

SucceededRuns(role) == {i \in DOMAIN runs : runs[i].role = role /\ runs[i].status = "succeeded"}

\* Mutant: the first succeeded run.
IsFirstSucceeded(i, role) ==
  \/ i \in SucceededRuns(role) /\ \A j \in SucceededRuns(role) : i <= j
  \/ i = 0 /\ SucceededRuns(role) = {}

\* latestRootCause and latestRemediation: the last succeeded run of the role, by
\* rowid; 0 when there is none.
IsLatestSucceeded(i, role) ==
  /\ i \in SucceededRuns(role) \cup {0}
  /\ \A j \in SucceededRuns(role) : j <= i

\* The earlier output a role's prompt is built from.
IsBasis(i, role) ==
  CASE role = "remediation" -> IsLatestSucceeded(i, "root_cause")
    [] role = "risk_review" -> IsLatestSucceeded(i, "remediation")
    [] OTHER                -> i = 0

\* Mutant: a skipped run is not completed.
skipModelUnavailableReturns(w) ==
  /\ pc[w] = "execute"
  /\ ~model /\ requiresModel(RoleOf(w))
  /\ Goto(w, "release")
  /\ UNCHANGED <<db, req, env>>

skipModelUnavailable(w) ==
  /\ pc[w] = "execute"
  /\ ~model /\ requiresModel(RoleOf(w))
  /\ Finish(w, "skipped")
  /\ UNCHANGED <<db, env>>

\* Without a model, triage is deterministic.
DeterministicTriage(w) ==
  /\ pc[w] = "execute"
  /\ ~model /\ RoleOf(w) = "triage"
  /\ Finish(w, "succeeded")
  /\ UNCHANGED <<db, env>>

\* Every other model-backed role reads its inputs, then waits for the model.
BuildPrompt(w) ==
  /\ pc[w] = "execute"
  /\ model /\ RoleOf(w) # "collector"
  /\ \E i \in 0..Len(runs) :
       IsBasis(i, RoleOf(w)) /\ runs' = [runs EXCEPT ![req[w].cur].basis = i]
  /\ Goto(w, "prompt")
  /\ UNCHANGED <<status, lock, evidence, events, epoch, req, env>>

\* Collect returns the rows it could gather (a CollectionError is tolerated) ...
Collect(w) ==
  /\ pc[w] = "execute"
  /\ RoleOf(w) = "collector"
  /\ \E rows \in SUBSET Row : req' = [req EXCEPT ![w].todo = rows]
  /\ Goto(w, "store")
  /\ UNCHANGED <<db, env>>

\* ... or fails outright.
CollectFails(w) ==
  /\ pc[w] = "execute"
  /\ RoleOf(w) = "collector"
  /\ Finish(w, "failed")
  /\ UNCHANGED <<db, env>>

\* AddNode or AddEdge; a row that exists already is left as it is.
StoreRow(w) ==
  /\ pc[w] = "store"
  /\ \E r \in req[w].todo :
       /\ evidence' = IF \E e \in evidence : e.row = r THEN evidence
                      ELSE evidence \cup {[row |-> r, epoch |-> epoch]}
       /\ req' = [req EXCEPT ![w].todo = @ \ {r}]
  /\ UNCHANGED <<status, runs, lock, events, epoch, pc, env>>

\* An insert fails for another reason: a cycle, or a missing endpoint.
StoreFails(w) ==
  /\ pc[w] = "store"
  /\ req[w].todo # {}
  /\ Finish(w, "failed")
  /\ UNCHANGED <<db, env>>

Stored(w) ==
  /\ pc[w] = "store"
  /\ req[w].todo = {}
  /\ IF model THEN Goto(w, "prompt") /\ UNCHANGED req
                        ELSE Finish(w, "succeeded")
  /\ UNCHANGED <<db, env>>

\* GenerateJSON returns: a reply that decodes, or an error or an illegal output.
ModelReplies(w) ==
  /\ pc[w] = "prompt"
  /\ \E st \in {"succeeded", "failed"} : Finish(w, st)
  /\ UNCHANGED <<db, env>>

\* Mutant: the incident advances, the run's row is not written.
CompleteRunStatusOnly(w) ==
  /\ pc[w] = "complete"
  /\ status' = CASE req[w].outcome = "succeeded" -> NextStatus[req[w].seen]
                 [] req[w].outcome = "failed"    -> "failed"
                 [] OTHER                        -> status
  /\ req' = [req EXCEPT ![w].stop = req[w].outcome # "succeeded"]
  /\ Goto(w, "emitCompleted")
  /\ UNCHANGED <<runs, lock, evidence, events, epoch, env>>

\* succeedRun, failRun and skipModelUnavailable end in CompleteRun: the run and
\* the incident's next status in one transaction, rolled back when the
\* transition is not allowed.
CompleteRun(w) ==
  LET next == CASE req[w].outcome = "succeeded" -> NextStatus[req[w].seen]
                [] req[w].outcome = "failed"    -> "failed"
                [] OTHER                        -> status
      commits == req[w].outcome = "skipped" \/ CanTransition(status, next)
  IN  /\ pc[w] = "complete"
      /\ runs' = IF commits THEN [runs EXCEPT ![req[w].cur].status = req[w].outcome] ELSE runs
      /\ status' = IF commits THEN next ELSE status
      /\ req' = [req EXCEPT ![w].stop = ~commits \/ req[w].outcome # "succeeded"]
      /\ Goto(w, "emitCompleted")
      /\ UNCHANGED <<lock, evidence, events, epoch, env>>

\* Mutant: the event claims success.
emitCompletedOptimistic(w) ==
  /\ pc[w] = "emitCompleted"
  /\ Emit("run_completed", req[w].cur, "succeeded")
  /\ Goto(w, IF req[w].stop THEN "release" ELSE "reload")
  /\ UNCHANGED <<status, runs, lock, evidence, epoch, req, env>>

emitCompleted(w) ==
  /\ pc[w] = "emitCompleted"
  /\ Emit("run_completed", req[w].cur, req[w].outcome)
  /\ Goto(w, IF req[w].stop THEN "release" ELSE "reload")
  /\ UNCHANGED <<status, runs, lock, evidence, epoch, req, env>>

-----------------------------------------------------------------------------
(* Statements that fail while the request lives: a full disk, a busy database *)

Failing ==
  /\ MayFault /\ failures < MaxFailures
  /\ failures' = failures + 1
  /\ UNCHANGED <<triggered, model, cancels, crashes>>

\* acquireLock returns the error; releaseLock drops it, and the row stays.
LockFails(w) ==
  /\ pc[w] \in {"acquire", "release"}
  /\ Return(w)
  /\ Failing /\ UNCHANGED db

\* The error is returned, through the deferred release.
StatementFails(w) ==
  /\ pc[w] \in {"check", "wipe", "reset", "get", "attempt", "create", "reload"}
  /\ Goto(w, "release")
  /\ Failing /\ UNCHANGED <<db, req>>

AfterEmit(w) ==
  CASE pc[w] = "emitReanalyze" -> "wipe"
    [] pc[w] = "emitStarted"   -> "execute"
    [] pc[w] = "emitCompleted" -> IF req[w].stop THEN "release" ELSE "reload"
    [] pc[w] = "emitUpdated"   -> IF req[w].seen \in Diagnosing THEN "attempt" ELSE "release"

\* emit ignores the error: nothing is stored or sent, and the request goes on.
EmitFails(w) ==
  /\ pc[w] \in {"emitReanalyze", "emitStarted", "emitCompleted", "emitUpdated"}
  /\ Goto(w, AfterEmit(w))
  /\ Failing /\ UNCHANGED <<db, req>>

\* The ListRuns of latestRootCause or latestRemediation: they return an empty output,
\* and the prompt is built with that.
ListRunsFails(w) ==
  /\ pc[w] = "execute"
  /\ model /\ RoleOf(w) \in {"remediation", "risk_review"}
  /\ runs' = [runs EXCEPT ![req[w].cur].blind = TRUE]
  /\ Goto(w, "prompt")
  /\ Failing /\ UNCHANGED <<status, lock, evidence, events, epoch, req>>

\* CompleteRun cannot begin, update or commit: nothing of it is stored, run.Status in
\* memory is what it would have been, and executeStep returns the error.
CompleteRunFails(w) ==
  /\ pc[w] = "complete"
  /\ runs' = [runs EXCEPT ![req[w].cur].uncommitted = TRUE]
  /\ req' = [req EXCEPT ![w].stop = TRUE]
  /\ Goto(w, "emitCompleted")
  /\ Failing /\ UNCHANGED <<status, lock, evidence, events, epoch>>

-----------------------------------------------------------------------------
(* Faults and the rest of the pipeline *)

\* The request's context is cancelled.  From then on each of its statements
\* fails, the deferred releaseLock included, and emit drops its events: the
\* request ends and leaves the database as it is.
Cancel(w) ==
  /\ pc[w] # "idle"
  /\ MayFault /\ cancels < MaxCancels
  /\ cancels' = cancels + 1
  /\ Return(w)
  /\ UNCHANGED <<db, triggered, model, crashes, failures>>

\* The process dies and is started again; start-up touches none of the tables.
Crash ==
  /\ \E w \in Worker : pc[w] # "idle"
  /\ MayFault /\ crashes < MaxCrashes
  /\ crashes' = crashes + 1
  /\ pc' = [w \in Worker |-> "idle"]
  /\ req' = [w \in Worker |-> Fresh]
  /\ UNCHANGED <<db, triggered, model, cancels, failures>>

\* DecisionStore.Decide: the compare-and-swap out of awaiting_approval.
Decide ==
  /\ status = "awaiting_approval"
  /\ status' \in {"approved", "rejected"}
  /\ UNCHANGED <<runs, lock, evidence, events, epoch, pc, req, env>>

\* Mutant: a status outside the enumeration.
BeginExecutionRunning ==
  /\ status = "approved"
  /\ status' = "running"
  /\ UNCHANGED <<runs, lock, evidence, events, epoch, pc, req, env>>

\* The service.Advance calls of remediation.Service.Execute.
BeginExecution ==
  /\ status = "approved"
  /\ status' = "executing"
  /\ UNCHANGED <<runs, lock, evidence, events, epoch, pc, req, env>>

EndExecution ==
  /\ status = "executing"
  /\ status' \in {"resolved", "failed"}
  /\ UNCHANGED <<runs, lock, evidence, events, epoch, pc, req, env>>

-----------------------------------------------------------------------------
(* The specification *)

\* What a goroutine does once its request is in flight.
Step(w) ==
  \/ acquireLock(w) \/ releaseLock(w)
  \/ checkReanalyze(w) \/ emitReanalyze(w) \/ DeleteIncidentEvidence(w) \/ ResetStatus(w)
  \/ GetIncident(w) \/ ReloadIncident(w) \/ emitUpdated(w)
  \/ NextAttempt(w) \/ CreateRun(w) \/ emitStarted(w)
  \/ skipModelUnavailable(w) \/ DeterministicTriage(w) \/ BuildPrompt(w)
  \/ Collect(w) \/ CollectFails(w) \/ StoreRow(w) \/ StoreFails(w) \/ Stored(w)
  \/ ModelReplies(w) \/ CompleteRun(w) \/ emitCompleted(w)

Fails(w) ==
  LockFails(w) \/ StatementFails(w) \/ EmitFails(w) \/ ListRunsFails(w) \/ CompleteRunFails(w)

Request(w) == RequestRun(w) \/ RequestReanalyze(w)

Pipeline == Decide \/ BeginExecution \/ EndExecution

Next ==
  \/ \E w \in Worker : Step(w) \/ Fails(w) \/ Request(w) \/ Cancel(w)
  \/ Crash
  \/ Pipeline

Spec == Init /\ [][Next]_vars

\* A goroutine is scheduled, the database answers, and the model's HTTP client
\* and the cluster's have timeouts; nobody has to send a request.
FairSpec == Spec /\ \A w \in Worker : WF_vars(Step(w))

\* In addition, some client keeps triggering Run.
RetrySpec == FairSpec /\ WF_vars(\E w \in Worker : RequestRun(w))

-----------------------------------------------------------------------------
(* Safety *)

\* At most one request drives the incident: the workflow lock (acquireLock,
\* releaseLock) excludes every other Run and Reanalyze from the database steps
\* behind it, although releaseLock deletes whatever row is there.
SingleDriver ==
  \A v, w \in Worker : pc[v] \in Locked /\ pc[w] \in Locked => v = w

\* The status a driver decided on is still the status in the database when it
\* creates a run and when it completes it, whatever operators do meanwhile.
DriverViewIsCurrent ==
  \A w \in Worker : pc[w] \in Deciding => req[w].seen = status

\* The steps of this analysis that succeeded, as the rows of agent_runs have it.
StepsDone ==
  {s \in Diagnosing : \E i \in DOMAIN runs : /\ runs[i].role = StepRole[s]
                                             /\ runs[i].status = "succeeded"
                                             /\ runs[i].epoch = epoch}

\* CompleteRun's promise: the steps that succeeded in this epoch are exactly those the
\* incident has advanced past, at every instant and across crashes.  (In failed,
\* rejected and resolved the status no longer tells how far it came.)
StatusMatchesRuns ==
  status \notin Terminal => StepsDone = {s \in Diagnosing : Rank(s) < Rank(status)}

\* NextAttempt and CreateRun are two statements and agent_runs has no unique
\* index over them, yet the attempts of a role are numbered 1, 2, 3, ... in
\* rowid order: "highest attempt" and "last row" name the same run.
AttemptsAreConsecutive ==
  \A i \in DOMAIN runs :
    /\ \A j \in 1..(i - 1) : runs[j].role = runs[i].role => runs[j].attempt < runs[i].attempt
    /\ runs[i].attempt # 1 =>
         \E j \in 1..(i - 1) : /\ runs[j].role = runs[i].role
                               /\ runs[j].attempt = runs[i].attempt - 1

\* A plan is proposed from, and a risk review made of, output of the same epoch:
\* latestRootCause and latestRemediation ignore epochs and must not go back to
\* an output from before a reanalysis.  Only where their ListRuns failed, an error
\* they swallow, does a plan or a review stand that was made of nothing.
BasisIsCurrent ==
  \A i \in DOMAIN runs :
    /\ runs[i].basis # 0 => /\ runs[runs[i].basis].epoch = runs[i].epoch
                            /\ runs[runs[i].basis].status = "succeeded"
    /\ runs[i].status = "succeeded" /\ runs[i].role \in {"remediation", "risk_review"}
       => runs[i].basis # 0 \/ runs[i].blind

\* Reanalyze leaves no evidence behind: all stored evidence was collected since
\* the last reset, also when the reanalysis died halfway.
EvidenceIsCurrent ==
  \A e \in evidence : e.epoch = epoch

\* The event log tells the truth: a run_completed event carries the status the run's
\* row has, and nothing is said of the run after it.  The event is sent with run.Status
\* as it is in memory, so where CompleteRun failed to commit, and nowhere else, it
\* reports an end that the row, still running, does not have.
EventLogIsFaithful ==
  \A i \in DOMAIN events :
    events[i].type = "run_completed" =>
      /\ runs[events[i].run].status =
           IF runs[events[i].run].uncommitted THEN "running" ELSE events[i].status
      /\ \A j \in (i + 1)..Len(events) : events[j].run # events[i].run

\* Reanalyze reads the status and resets it two statements later, with an UPDATE
\* that does not compare: still only a terminal incident is ever reset, and no
\* other step leaves a terminal status or departs from the transition table.
StatusFollowsWhitelist ==
  [][ \/ CanTransition(status, status')
      \/ status \in Terminal /\ status' = "received" ]_status

Lifecycle == INSTANCE IncidentLifecycle WITH done <- StepsDone

\* Behind the lock, the retries, the cancellations and the crashes the workflow is the
\* simple machine of IncidentLifecycle: runs and status move as one, each step of an
\* analysis is taken once and in its turn, and only a full set of steps is decided on.
RefinesLifecycle == Lifecycle!LifecycleSpec

\* The rows in status running that no live request will complete.
Orphans ==
  {i \in DOMAIN runs : /\ runs[i].status = "running"
                       /\ ~\E w \in Worker : pc[w] \in Running /\ req[w].cur = i}

\* A row stays in status running for ever where its CompleteRun failed to commit; where
\* that did not happen, only a cancelled request or a crash leaves one, and each of these
\* costs one row at most: whatever else goes wrong (a failed collection, a failed read,
\* no model) ends in CompleteRun.
Abandoned == {i \in Orphans : ~runs[i].uncommitted}

FaultsOrphanOneRunEach == Cardinality(Abandoned) <= cancels + crashes

-----------------------------------------------------------------------------
(* Liveness *)

Settled == status \notin Diagnosing \/ (~model /\ status = "collecting")

\* A diagnosis under way is carried through: the incident is proposed for
\* approval or failed (or, without a model, waits with its evidence collected).
DiagnosisSettles == (\E w \in Worker : pc[w] \in Deciding) ~> Settled

\* "Creating an incident kicks off the diagnostic workflow": once the create
\* handler has called Run, the incident leaves the diagnostic statuses.
TriggerSettles == triggered ~> Settled

\* A held lock is released again.
LockIsReleased == lock ~> ~lock
=============================================================================
