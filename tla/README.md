# Aurora AIOps in TLA+

Aurora AIOps diagnoses incidents of a Kubernetes cluster: an incident is
created, five roles (two deterministic, three or four backed by a language
model) work on it one after the other, an operator approves or rejects the
remediation plan they propose, and a typed executor applies it to the cluster.
A browser follows along over server-sent events. Beside this, the console lists
and edits the resources of the cluster, and the server updates itself. The
server is one Go process with one SQLite connection; the console is a React
application over its HTTP API.

This directory holds TLA+ models of that system, the TLC runs that check them
and TLAPS proofs about them. `PROJECT.json` maps every definition to the lines
it models.

Run `tlc -config <cfg> <module>` and `tlapm <module>` (the modules whose names
end in `Proofs`) here.

## 1. The system

### Components

| Component | State | Operations | Modelled in |
| --- | --- | --- | --- |
| incident status machine (`aiops/state_machine.go`) | none: 11 statuses and a transition table | `CanTransition`, role order | `IncidentStatus`, `IncidentLifecycle` |
| diagnostic workflow (`aiops/workflow.go`, `run.go`) | `incidents.status`, `agent_runs`, `workflow_locks`, evidence rows | `Run`, `Reanalyze`, `CompleteRun`, `NextAttempt` | `Workflow` |
| incident service (`aiops/service.go`, `repository.go`) | `incidents` | `Create`, `Advance`, `Decide`, `UpdateStatus` | steps of `Workflow` and `Remediation` |
| policy, risk review (`policy/`, `aiops/risk_review.go`) | none | `Evaluate`, `BuildEffectiveRiskReview` | `Policy` |
| remediation (`remediation/`) | `remediation_snapshots`, audit records, the cluster | `Approve`, `Reject`, `Execute`, `Rollback` | `Remediation`, `ApprovalGate` |
| event feed (`aiops/events.go`, SSE handler, `useIncidentEvents.ts`) | `incident_events`; subscriptions in memory; the browser's last id | `Append`, `Subscribe`, `ListAfter`, reconnection | `EventStream` |
| evidence store and bundle (`evidence/`) | nodes and edges, acyclic | `AddNode`, `AddEdge`, `DeleteIncidentEvidence`, `BuildBundle` | rows only, in `Workflow` |
| audit chain (`audit/`) | hash-chained records | `Append`, `AppendTx`, `Verify` | records only, in `Remediation` |
| system update (`service/update_service.go`, operation lock) | binary, backup and temporary files; cached check; lock | `PerformUpdate`, `Rollback`, `Restart`, `CheckForActor` | `SystemUpdate` |
| resource lists (`web/src/pages/*Page.tsx`, 26 of them) | rows in the query cache, one dialog, write requests | edit, scale, restart, suspend, delete, create, refresh | `ListPages`, `ListPage` |
| object pages (`web/src/pages/*DetailsPage.tsx`, 26) | route, item, scale dialog, confirmation, write requests | navigate, scale, restart, suspend | `DetailPages`, `DetailPage` |
| manifest editor (`ResourceYamlEditorModal.tsx`) | draft, baseline, a query per object, a save | open, type, reset, refresh, save, close | `YamlEditor` |
| cluster requests (`web/src/services/cluster.ts`) | none | one function per kind and operation | `ClusterRequests` |
| query cache (external: @tanstack/react-query) | one entry per query key | observe, refetch, answer, fail | `QueryCache` |
| authentication (`auth/`) | users, sessions | `Login`, `Authenticate`, `Logout` | not modelled |
| model client (`llm/client.go`) | none | `GenerateJSON` with retries | one step of `Workflow` |
| cluster service, topology, probe, kube client | none | read and edit resources | not modelled |
| router, configuration, storage, experiments, terminal, other console pages, scripts | see section 6 | | not modelled |

### Interaction

* Everything persistent is in SQLite behind `SetMaxOpenConns(1)`: a statement
  or a transaction is atomic, and requests interleave between them. That is the
  grain of every model: one action per statement (or per call to the cluster or
  the model), and what the handler holds in between is in `pc` and `req`.
* A create request runs the whole diagnosis; so does a reanalyze request. Both
  take a row of `workflow_locks`. Decisions and executions do not: they meet the
  workflow only in `incidents.status`, by compare-and-swap.
* Execution reads the plan from the latest succeeded remediation run, which a
  reanalysis may replace.
* The workflow publishes events; a handler per browser replays them from the
  database and then forwards a bounded channel.
* Update, rollback and restart share the process-local operation lock and the
  binaries beside the managed path; systemd starts whatever is at that path.
* A page of the console holds a query on the list of a kind. Its writes are
  acknowledged one by one, each followed by a refetch that replaces, or joins,
  the request for the rows that is under way. The editor has a query of its own
  per object, and a host page whose save may wait for that page's refetch.

### What is hard

Two triggers of one incident; an operator's decision while a role waits for
the model; a reset that three statements spread out; a plan that changes
between check and use; a cluster write whose reply is lost; a client that
disconnects in the middle (the server keeps using its context for every
statement, the deferred ones included); a crash anywhere (locks and statuses
are persisted, requests are not); full buffers and reconnections of the event
feed; a sequence of renames that is cut anywhere; refetches that overtake each
other; dialogs that outlive the row, the answer or the route they were opened
on. `PROJECT.json` lists each hazard at its line with the properties that
would catch it.

### What makes each component correct

* Workflow: one driver per incident; it acts on the current status; a role
  succeeds once per analysis and the status says which roles have, in one step
  for whoever polls it (`IncidentLifecycle`); attempts are numbered; nothing of an earlier analysis leaks into a later one; a diagnosis
  that began settles and releases its lock.
* Remediation: one executor; nothing policy denies is written; no action is
  written twice; every write is announced and covered by a snapshot; a proposal
  is decided once; resolved means applied; an execution settles; from outside it
  is the gate of `ApprovalGate`.
* Event feed: in order, persisted, nothing listed is lost to a reader; the
  workflow never waits; subscriptions do not leak.
* Update: the running version stays on disk, a binary stays at the managed path
  and a rollback loses no version.
* Console: an operation names what the cluster reported, not a demo row; settled
  rows have seen every acknowledged write; a number or a manifest is sent to the
  object it was made for; answers never touch edits.
* Evidence: acyclic. Audit: one chain. Authentication: no session outlives expiry
  or logout. (Not modelled.)

## 2. Modules

### IncidentStatus
`Status`, the transition table (`CanTransition`), `StepRole` and `NextStatus`
(the table `currentStep` searches), `Terminal` and `Diagnosing`.

### IncidentLifecycle
The abstract promise: a status and the set of diagnosis steps that have
succeeded in this analysis. A step succeeds and the status advances at once;
only a full set of steps is decided on; an incident that ended starts again
from nothing or stays. `Workflow` implements it under
`Lifecycle == INSTANCE IncidentLifecycle WITH done <- StepsDone`: `status` is
itself, and `done` is read off the run rows of the current epoch. Locks,
retries, crashes and skipped runs are stutters.

### Workflow
One incident and the requests (`Worker`) that run or reanalyze it. Incidents
share no rows, so one is enough. `pc[w]` is the next statement of the request:

    acquire -> get -> attempt -> create -> emitStarted -> execute
            -> (store ->) prompt -> complete -> emitCompleted
            -> reload -> emitUpdated -> attempt ... -> release

and for `Reanalyze` first `check -> emitReanalyze -> wipe -> reset -> get`.
`req[w]` holds the locals: the status last read, the attempt number, the rows
still to be stored, the outcome in memory. `CompleteRun` is the transaction of
`run.go`, rolled back when `CanTransition` refuses. `Cancel` is a cancelled
request context, after which each statement fails, `releaseLock` included;
`Crash` kills all requests and leaves the tables. A statement may also fail under
a live request (`Fails`), and what follows is the code's own handling of it:
returned through the deferred release (`StatementFails`, `LockFails`), dropped
(`EmitFails`, a failing release), swallowed for an empty input (`ListRunsFails`),
or a `CompleteRun` of which nothing is stored while `run.Status` in memory, and so
the event that follows, has the end already (`CompleteRunFails`). `Decide`, `BeginExecution` and
`EndExecution` are what the remediation service does to the status meanwhile.
`epoch` counts resets and tags runs and rows; `basis` records the run a prompt
was built from, `blind` that its read failed, `uncommitted` that the run's
`CompleteRun` did: all are history, no guard reads them (the bound on
reanalyses aside).

Abstracted: the content of outputs and evidence, and which evidence rows a
collection yields (any subset of `Row`); adding a row fails for any reason
(`StoreFails`). What `buildBundle` reads, and that it takes a failed read for no
evidence, is part of the prompt's content; only the run a prompt was built from is
recorded.

### Policy, Remediation
`Policy` is the allowlist over actions as records that keep what the rules
tell apart, the replica count as an integer. `Remediation` has up to
`Cardinality(Worker)` requests at once over one incident, whose proposals are
sequences of such actions from `Plan`. The diagnosis is the environment
(`Reanalyze`, `ProposePlan`, `EndDiagnosis`). An object of the cluster is its
content, told apart by who wrote it last, and a resourceVersion; writes are
`GetObject` then `UpdateObject`, refused when the version moved.
`UpdateReplyLost` is an applied update that the executor takes for a failure.
`ExternalWrite` is any other client. `Advance` is its read and its
compare-and-swap. Any statement may fail under a live request: within the
executor by `StatementFails`, `WriteFails` and `AuditFailed`, before it by
`RequestFails` (the error is returned), and the closing `Advance` itself by
`EndFails`, which leaves the incident executing. `writes`, `executed` and
`unclosed` (an `EndFails` has happened) are history.

A display-only action has the empty kind and drops out of the plan, as in
`actionsFromPlan`. The name of an object stands for a name within the
incident's namespace; a snapshot is found by any id and in any status, as in
`Rollback`.

### ApprovalGate
What remediation promises to the owner of the cluster, over a status, the plans
proposed, the plan in execution and the actions applied, in order: nothing is
written without a decision, what is written is permitted and of the plan in
execution, no action hits its object twice, resolved means that the whole plan
is in. `Remediation` implements it (`Gate == INSTANCE ApprovalGate WITH ...`):
`Proposed` and `InExecution` are read off the stored plans, without their
display-only actions, and `Applied` off the history of writes. Requests,
statements, snapshots, lost replies, crashes and foreign writes are stutters.
The gate begins *a* proposed plan, not the one decided on: that is all the code
keeps (see "Where code and documents disagree"). It does not say that what is
applied stays in the cluster, which others and a rollback may change.

### EventStream
One incident, one browser, the SSE handlers the server still runs for it. An
event is its position in the log. `Persist` and `Broadcast` are the two halves
of `Append`; one publisher, because one driver emits (`Workflow!SingleDriver`).
A handler goes `list -> replay -> live`; a write blocks when the connection
holds `Wire` unread frames. `HandlesNamed` says whether the client listens to
the named events the API documents (TRUE) or registers `onmessage` only, as the
shipped hook does (FALSE).

`events_feed` uses TRUE because what it states is about the server and about
any client that keeps the API's contract; with FALSE nothing ever arrives and
its properties would hold for nothing. The shipped client is the subject of
`events_client`.

### SystemUpdate
`files` says which version is in each of four places: the managed path,
`.backup`, `.rollback-current` and the extracted download. `op` is the next step
of the operation that holds the lock, so that the lock is `op # "none"`. Each
`os.Rename` and `removeFileIfExists` is an action that may fail (`MaxFaults`
counts failures and crashes), and the error paths are the steps `putBack`,
`unrestore`, `unkeep` and `unset`, whose own failure the code drops. `Restart`
only makes `exiting` true: `Exit` comes later, with the lock long given back.
`Look` and `Store` are the two halves of a status request, which may straddle
an update. `misled` is history: it records the three ways the promise is known
to break (an update that trusted a failed probe of the installed version, an
undo that failed too, an end of the process between two renames).
Download, checksum and extraction are the guard of `Check`.

### QueryCache
One entry of the cache, abstracted to what the pages can tell apart: an answer
is known by how many writes of the cluster it has seen, a request under way by
how many had been made when it was sent. The library is external; what it does
is taken from how the pages use it (`refetch()` with its default
`cancelRefetch`, `enabled`, `isFetching`, `error`) and from the options in
`AppProviders.tsx`. Its operators are assumptions of the three console models:
a refetch over an answer replaces the request under way and settles whoever
waited for it; one before the first answer joins it; a failure keeps the old
answer.

### ListPages, DetailPages, ClusterRequests
The pages were written from one template and differ in a few decisions that
matter. `ListPages` and `DetailPages` hold these as one record for each part a
page is written in: hooks, action column and dialogs. `ListPageOf` and
`DetailPageOf` are indexed by kind, `Lists` and `Details` are the distinct
behaviours, and the runs start in each of them. Columns, cards, metrics,
filters and texts are layout; the records' lines include them.
`ClusterRequests` is the client of the cluster service: which reads and writes
a kind has and how its objects are named. Its assumption `PagesAreServed`,
evaluated by the run `list_pages`, compares the three tables: a page offers only
what there is a request for, and the create button's template has the scope of
its kind.

### ListPage
One list page, one selected namespace. `list` is the query, `calls` the write
requests under way (`sent`, then `applied` or `refused` by the server, then
`refresh` while the mutation waits for the rows; `lost` when axios gave up and
the server may still act), `dialog` the one dialog over the page. `Reply` is an
`onSuccess` whole: it closes what it closes (`Closes`), refetches, and settles
whoever waited for the request that it replaces. `acked` is history: the newest
write that an acknowledged request is known to be in.

### DetailPage
One page about the object of `route`, which the browser's history may change
without unmounting the page: both effects run in `Navigate`. A confirmation
belongs to the application and stays; its OK runs the function of the latest
render. `scaleValue` remembers whose replicas it was read from.

### YamlEditor
The editor with its draft and baseline over one cache entry per object, hosted
by a list page or by a page about one object that does, or does not, close it
on a change of route. A text is known by the object it names and by who wrote it
last. The editor's effects run after each step and are part of each (`Shown`).
The cluster keeps every manifest an object has had; `resourceVersion` is not in
the manifest (the service strips it), so that the last save wins. `reloading` is
history: a confirmed Reload is unanswered.

### MC modules
The modules `MC...` hold the values and
symmetries of the runs. Definitions marked `Mutant` in the models are plausible
bugs, each placed before the definition it would replace; no specification
uses them.

## 3. Runs

| Run | Expect | Shows |
| --- | --- | --- |
| `workflow_faults` | pass | safety and refinement: two requests, one reanalysis, a model or none, one fault: a cancellation, a crash or any one failing statement; what it leaves is told apart by kind |
| `workflow_live` | pass | without cancellation, crash or failing statement a diagnosis settles and the lock is not left behind |
| `workflow_restart` | violation | a crash leaves the lock row, and no retry ever resumes the incident |
| `remediation_faults` | pass | safety and refinement of the gate: two operators, four requests, two proposals, one foreign write, failing statements and writes, one cancellation or crash |
| `remediation_live` | pass | without cancellation or crash an execution ends resolved or failed whatever fails, unless its closing statements do |
| `remediation_rollback` | violation | the snapshot of a write can not be restored after it |
| `events_feed` | pass | order, resumption, a publisher that never waits, released subscriptions, replayed history |
| `events_client` | violation | the shipped hook never sees a named frame |
| `system_update` | pass | updates, rollbacks and restarts with three faults: the running version and every rolled-back one stay on disk |
| `list_pages` | pass | every distinct list page: acknowledged writes are shown, operations name live rows |
| `detail_pages` | pass | every distinct object page, two objects: replicas go to the object they are about |
| `yaml_editor` | pass | every kind of host, two objects: saves name their target, edits survive answers other than that of a confirmed reload |

**Bounds.** Two requests are enough to interleave any two handlers; a third
would only repeat the role of one of them, and the exclusion properties of both
models are proved for any number. One reanalysis gives two analyses to
confuse. One fault, a cancellation, a crash or a failing statement, may fall at
any statement, and what it leaves behind meets the requests that follow; that
several faults add up no worse is what the theorems say, for any number of each.
`MaxRuns` bounds the rows of `agent_runs`: `MaxRuns = 9` leaves `workflow_faults`
room for a whole analysis, the attempts a fault repeats and the beginning of the
next; it does not bind in `workflow_live`. Two proposals and four requests let one plan be decided
and executed and then the next. The plans have one step, two steps on one
object, a second step that policy denies, and a display-only action in front.
Three events with one-frame buffers fill the channel and the connection and
leave one to drop; two lost connections and a restart give three handlers in
sequence, two of them at once. Three releases let an update follow an update and
meet a cached check of the first; three faults let an operation fail, its undo
fail and the process crash. On a page, two requests make one refetch replace
another, and two writes make one of them unseen; the pages of one object have
three of each. Two objects are two ends of a
change of route, and a draft tells no more than its own object from another.
The proofs cover any number of each.

**Deadlock** is not checked: with its bounds used up, and nobody obliged to
send a request, each model may stop.

**Fairness.** `WF` on `Step(w)`: a request in flight goes on, because the
database answers and the model's, the cluster's and the rollout's waits have
timeouts. Nobody is obliged to send a request, except in `RetrySpec`, where a
client keeps triggering (used to show that even this does not help). In
`EventStream`, the publisher and the handlers go on; the client need not
read, and `HistoryIsReplayed` assumes of it only what it says ("keeps reading").
The fair runs have no cancellation or crash, and that of `Workflow` no failing
statement: what those do to progress is what `workflow_restart` shows and the list
below. In `remediation_live` statements do fail, any of them and any number of
times; `Fails` is not part of the fairness, so nothing relies on a failure.

### Where code and documents disagree
Each violation run is a finding, with the sentence it contradicts quoted in
`PROJECT.json`. Other departures that the models show, listed as hazards and
stated by no run:

* A cancelled request leaves the workflow lock behind, as a crash does, and a
  cancelled execution leaves the incident executing for good: the last
  statement runs on the request's context.
* "On any failure the incident moves to failed" (`remediation/service.go:105-106`):
  not when that move is what fails. `Execute` drops its error (`:128`) and returns
  that of the move to resolved (`:131`); the incident stays executing, and no route
  leads out of it. `ExecutionSettles` excepts it (`unclosed`); without the exception
  it is refuted.
* "Every start and end of a step is persisted, then broadcast"
  (`docs/aiops/api-v1.md:80`): `executeStep` sets `run.Status` before it calls
  `CompleteRun`, and `run_completed` is emitted from memory whatever `CompleteRun`
  answers. After a failed commit the event claims an end, the row stays running for
  good, and a later trigger runs the role again. `EventLogIsFaithful` and
  `FaultsOrphanOneRunEach` except exactly these rows (`uncommitted`); and an event
  whose own insert fails is not persisted or broadcast at all (`EmitFails`).
* A failed `ListRuns` gives the remediation prompt no root cause, or the risk review
  no plan to review (`workflow.go:494-496`, `512-515`), and the role succeeds on it.
  `BasisIsCurrent` excepts these (`blind`). What is approved and executed is the
  stored plan, which policy judges by itself.
* An approval that rechecked one plan may commit on a later one ("can never
  green-light a plan policy now denies", `service.go:77`), and an execution may
  run the plan that was current before a reanalysis ("Execute runs the approved
  remediation plan", `service.go:105`): the compare-and-swap compares the status
  and nothing that names the plan. Stated over the instance of
  `remediation_faults`, "approved implies that the latest plan is approvable"
  and "executing implies that the latest plan executes" are both refuted. Neither
  writes what policy denies (`DeniedNeverWritten`), and what executes was
  proposed (`RefinesGate`).
* A reanalysis about to be refused can swallow the one trigger of a new incident.
* An event persisted between the replay query and the subscription reaches that
  connection in neither; a frame dropped by a full channel is not asked for
  again once a later one arrived; an event listed before it is broadcast comes
  twice (`ReceivedInOrder` allows exactly that).
* Restart gives the operation lock back before the process exits; an update that
  begins in between may be cut between its renames (`misled`).
* The Deployments and Pods pages offer live operations on demo rows while there
  is no answer (`WritesNameLiveRows` leaves them out by `rows = "unguarded"`).
* A late acknowledged delete closes the editor or scale dialog of whichever row
  is open by then; a confirmation opened for one object acts on the object of
  the route at OK.
* "Refreshing now will replace your unsaved local edits with the latest cluster
  manifest" (`ResourceYamlEditorModal.tsx:203-206`): the effect at `:116-142` keeps
  a draft with edits, so a confirmed Reload replaces nothing. `AnswersKeepEdits`
  makes no claim about the answer to one (`reloading`). What is typed while a save is
  under way is lost when it ends.

## 4. Proofs

Eight modules, for every value of the constants, and with the faults anywhere.
The assumptions are those on the constants: bounds are numbers; a plan is a
sequence (`PlanAssumption`); the values that stand for nothing (`NoCall`,
`NoObject`, `Nothing`) are none of the things; pages and hosts are records of
their types. `GuardAssumption` of `ListPage` is one about the code: pages that
fall back to demo rows with a guard ask that guard before they offer an
operation. `ListPages` satisfies it, which `list_pages` evaluates.

| Module | Theorem | Property |
| --- | --- | --- |
| `WorkflowProofs` | `TypeCorrect` | `TypeOK` |
| | `MutualExclusion` | `SingleDriver` |
| | `DriverActsOnCurrentStatus` | `DriverViewIsCurrent` |
| | `WhitelistedTransitions` | `StatusFollowsWhitelist` (no run: `RefinesLifecycle` is stronger) |
| | `EvidenceOfThisEpochOnly` | `EvidenceIsCurrent` |
| | `StatusAndRunsAgree` | `StatusMatchesRuns` |
| | `ImplementsLifecycle` | `RefinesLifecycle` |
| | `AttemptsAreNumbered` | `AttemptsAreConsecutive` |
| | `BasisOfThisEpoch` | `BasisIsCurrent` |
| | `OrphansHaveTheirFault` | `FaultsOrphanOneRunEach` |
| | `EventLogTellsTheTruth` | `EventLogIsFaithful` |
| `RemediationProofs` | `TypeCorrect` | `TypeOK` |
| | `OneExecutor` | `SingleExecutor` |
| | `NoDeniedWrite` | `DeniedNeverWritten` |
| | `NothingWrittenTwice` | `NoDoubleWrite` |
| | `EveryWriteCovered` | `WriteIsCovered` |
| | `OneDecisionPerPlan` | `DecidedOnce` |
| | `ResolvedIsEarned` | `ResolvedIsApplied` |
| | `ImplementsGate` | `RefinesGate` |
| `EventStreamProofs` | `FeedTypeCorrect` | `TypeOK` |
| | `PageSeesTheWorkflowInOrder` | `ReceivedInOrder` |
| | `ResumptionIsExact` | `ResumesAfterLastSeen` |
| | `OnlyStoredEventsAreShown` | `OnlyPersistedIsSent` |
| `SystemUpdateProofs` | `UpdateTypeCorrect` | `UpdateTypeOK` |
| | `RunningStaysOnDisk` | `RunningIsKept` |
| | `RollbackKeepsVersions` | `RollbackLosesNothing` |
| `ListPageProofs` | `ListTypeCorrect` | `ListTypeOK` |
| | `AcknowledgedWritesShown` | `AcknowledgedWritesAreShown` |
| | `OnlyLiveRowsAreWritten` | `WritesNameLiveRows` |
| `DetailPageProofs` | `DetailTypeCorrect` | `DetailTypeOK` |
| | `ScaleForItsTarget` | `ScaleIsForItsTarget` |
| `YamlEditorProofs` | `EditorTypeCorrect` | `EditorTypeOK` |
| | `ManifestsAreSavedToTheirObject` | `SavesNameTheirTarget` |
| | `CleanDraftsAreTheTargets` | `SyncedDraftIsTheTargets` |
| | `EditsSurviveAnswers` | `AnswersKeepEdits` |

`QueryCacheProofs` has the lemmas about a cache entry that the console's proofs
cite.

### Workflow

The inductive invariants build on one another.

* `Typed`: `TypeOK`, and a request that decides has read a status that has a
  role (`DriverKnowsRole`), without which the run it appends has no type.
* `Exclusion`: `SingleDriver`, and the lock row exists while any request is
  behind it. `SingleDriver` alone is not inductive: `acquireLock` needs to know
  that a free lock means an empty critical section, and `releaseLock` that the
  row it deletes is its own. A cancelled request leaves the row, never the
  reverse, so the faults do not hurt it.
* `Currency`: while a request decides, what it read is the status. The
  operators' steps change the status only from statuses that no role runs in,
  and every other writer holds the lock.
* `Wiped`: between the wipe and the reset no evidence exists, so that none has
  an old tag when `epoch` grows.

`Writers` says once which actions may change which variable; `Movement` and
`HolderStep` how a request gets into and out of the critical section. The
temporal step of each theorem combines the initial condition and the step lemma.

### Remediation

* `Typed`: `TypeOK`, and a request in the executor is at a step of a stored plan
  (`RequestKnows`), which later proposals do not move (`PlansGrow`).
* `Exclusion`: `SingleExecutor`, and whoever is about to swap into executing
  read approved. The latter is the transition table's doing
  (`OnlyFromApproved`); with it the winner of the swap knows that nobody else is
  in the executor. `ExecutingLasts`: only the executor's own last statement
  moves the status on.
* `Vetted`: between the checks of an action and its write the action stays one
  that policy allows. The plan is read again nowhere, and rows of the table of
  runs do not change, so the one evaluation holds until the write.
* `Marked`: a snapshot exists for everything written; a request before its
  `Save` is at an action without one; a request after its `Save` at an action
  that has one and has not been written. It needs `Exclusion`: with two
  requests in the executor both could pass `HasExecuted`. `NoDoubleWrite` is a
  conjunct.
* `Intents` and `Decided`: a decision under way can only write approved or
  rejected, the executor's last statement only failed or resolved; and no
  decision on record is about a plan to come, nor about the plan that is waiting
  for one. So the decision that wins the comparison is the first for its plan.
* `Versioned`: a snapshot is no newer than its object, and equal to it while the
  versions are equal. A rollback is accepted only at equal versions, so it never
  changes the content: this is why it leaves the next write's snapshot true, and
  also why it restores nothing (`remediation_rollback`).
* `Covered`: from `Save` to the write, the snapshot of the action at hand is on
  record and holds what the object holds, or others have written too; from
  `AuditStarted` on the announcement is on record. `Exclusion` keeps the other
  requests' writes out of that interval.
* `Earned`: whoever is in the executor is at the plan executed last; what comes
  before its step is written and audited as a success; past the write, so is the
  write of its step; and only a request with the whole plan behind it is about
  to write resolved. `NextStepSkipsNothing` is the loop's share: nothing between
  two steps but display-only actions.

* `ImplementsGate` needs all of these and one more, `Begun` (the plan executed
  last is a stored one): `Exclusion` makes the begin start from approved and the
  end from executing, `Vetted` makes a write a permitted one, `Earned` makes it
  one of the plan in execution and a resolved end a complete one, `Marked` makes
  its identity new. `Visible` lists the eight statements that show through;
  each has its lemma (`BeginAsGate`, `WriteAsGate`, ...).

`Moves` says how a request gets into, within and out of the executor,
`WritesStep` and `SnapshotsStep` what becomes of the two records.

### Lifecycle

`InProgress` is what the lock holder knows of the run it inserted: it is
in the table, still running, of this epoch, and of the role of the status it read.
It needs `Exclusion` (nobody else appends) and `Currency` (the status is still
that one). With it `CompleteRun` adds exactly the step it moves the status past,
so that the succeeded runs of the epoch are `Before(status)`, the
chain of steps up to the status; a crash between two statements leaves a
running row, which is no step. The refinement follows action by action: each
either leaves `status` and `StepsDone` alone or is a step of the lifecycle.

Four more invariants of the tables rest on this:

* `Numbered`: between its `NextAttempt` and its `CreateRun` the number a driver
  has stays the next one of its role, because `CreateRun` is the only step that
  adds a row and `Exclusion` leaves no second driver to take it.
* `Based`: rows lie in the order of their epochs. The status says that the step
  before is done (`StatusMatchesRuns`), so a succeeded row of this epoch exists,
  and the last succeeded row, at or behind it, is of this epoch too
  (`LatestIsCurrent`). A prompt without a basis is one whose read failed (`blind`).
  A basis is succeeded, hence not the run in progress, and
  keeps its status.
* `Logged`: a driver at `emitCompleted` has in memory what the row says, or its
  `CompleteRun` failed and the row is `uncommitted`: a commit is refused only for a
  transition that `Currency` and the table exclude. No event reports the end of the
  run in progress, or of a row that may still change.
* `OrphansCounted`: a row stays running only while a request drives it, since
  the ways out of `complete` are a commit (`CompletionCommits`, by `Logged`) and a
  `CompleteRun` that fails, which marks the row; a cancellation or a crash meets
  one driver at most (`Exclusion`), so it adds one to `Abandoned` at most.

### Event feed

* `Typed`: `TypeOK`, and the publisher broadcasts a stored row only.
* `Served`: a channel holds announced ids in strictly ascending order, none
  before its `Subscribe` and none after the deferred unsubscribe.
* `Fed`: what the page has seen, followed by what is on the wire, ascends, an id
  comes twice only in a row and only if its row was listed before it was
  broadcast; and whatever the serving handler is about to send, the rest of its
  replay or the head of its channel, may follow it. `ReceivedInOrder` speaks of
  what was seen alone and is not inductive: the frames in flight and the two
  sources behind them decide what is seen next. A reconnection is where the
  parts meet: the new handler lists from the last id seen, and the old one's
  wire is gone.

The lemmas about ascending sequences (`AscendingAppend` and the like) say what an
`Append`, a `Tail` and a frame that arrives do to them, once.

### System update

The invariant says, for each step of an operation, in which of the binaries the
version of the process may be and which places are free to rename to. A
temporary place is free because the first step of a rollback removes what an
earlier one left. Without `misled` it fails, at exactly the three steps that set
it.

### Console

* `ListPage`: `Seen` strengthens `AcknowledgedWritesAreShown` by what the
  request under way will show (`list.since >= acked`): an acknowledgement
  refetches in the same step, so the request that is under way afterwards is
  newer than it. `LiveRows` carries the same promise for the open dialog as for
  the requests; a dialog's row is fixed when it opens, under the guard.
* `DetailPage`: `Matched` says that while there is an item the number is about
  the object of the route. Both effects run within the step that changes the
  route or the item, so there is no step in between.
* `YamlEditor`: `Synced` says a clean draft is the answer's text, through every
  step that changes the answer, the target or the draft; the saves need only
  that `Valid` is asked when they are sent and that a target does not change.

Only model-checked: all liveness (fairness and `ENABLED` are out of the
prover's reach), that is `DiagnosisSettles`, `LockIsReleased`,
`ExecutionSettles`, `PublisherNeverBlocked`, `SubscriptionsAreReleased` and
`HistoryIsReplayed`; and `PagesAreServed` with the records of the pages, which
are data. Every invariant and every refinement that a passing run checks has a
theorem.

## 5. What could follow

1. Leads-to properties as far as their safety half goes: that a driver's step is
   always possible, from the invariants that are proved.
2. Refinement of `IncidentLifecycle` by `Remediation`, for its half of the
   statuses; today `Workflow` has those moves as steps of its environment.
3. `EvidenceGraph`, `AuditChain` and `AuthSession`, and reference definitions
   for the evidence bundle and version comparison.
4. A second incident for the event hook and for `Rollback`, which compares
   neither.

## 6. Not modelled

* `service/cluster.go`, `topology.go`, the probe and the kube client: adapters
  of the Kubernetes API without a state of their own. What the console may ask
  of them is `ClusterRequests`; what they write is "the cluster takes it" in the
  models.
* The overview, topology, node, namespace, login, update and AIOps pages, and the
  pod panels (logs, events, terminal): they display reads, or send requests that
  the server's models have. They do keep queries and forms of their own.
* Authentication, the evidence graph's walk and the hash chain: listed above as
  possible work; their statements run on the one database connection.
* Configuration, routing, migrations, experiments, pseudo-terminal, scripts and
  manifests.
