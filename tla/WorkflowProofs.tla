--------------------------- MODULE WorkflowProofs ---------------------------
(***************************************************************************)
(* Theorems of Workflow, for every set of workers and evidence rows, with  *)
(* and without a model, and for every value of the bounds: any number of   *)
(* requests, reanalyses, cancellations, crashes and failing statements.    *)
(*                                                                         *)
(* The invariants build on one another:                                    *)
(*   Typed        types, with what a driver knows when it picks a role     *)
(*   Exclusion    whoever is behind acquireLock holds the only lock        *)
(*   Currency     what the lock holder read of the incident is still so    *)
(*   InProgress   and it knows the run it has inserted                     *)
(* Currency gives the whitelist theorem; with InProgress the succeeded     *)
(* runs of the epoch are the steps the status is past, and each step of    *)
(* the workflow is one of IncidentLifecycle or shows nothing.  Numbered,   *)
(* Based and Logged strengthen the properties of the run and event rows;   *)
(* that CompleteRun is never refused, which Logged gives, lets the rows    *)
(* that a fault abandons be counted.                                       *)
(***************************************************************************)
EXTENDS Workflow, SequenceTheorems, FiniteSetTheorems, TLAPS

-----------------------------------------------------------------------------
(* Types *)

\* A driver that has chosen a role saw a diagnostic status, and when it inserts
\* the run it has an attempt number.
DriverKnowsRole ==
  \A w \in Worker :
    /\ pc[w] \in Deciding => req[w].seen \in Diagnosing
    /\ pc[w] = "create" => req[w].attempt # 0

Typed == TypeOK /\ DriverKnowsRole

\* The part of Typed that is local to the requests.
RequestTyped ==
  pc \in [Worker -> Label] /\ req \in [Worker -> Memory] /\ DriverKnowsRole

\* Every diagnostic status has a role, and a next status to advance to.
LEMMA StepTables ==
  \A s \in Diagnosing : StepRole[s] \in Role /\ NextStatus[s] \in Status
BY DEF Diagnosing, StepRole, NextStatus, Role, Status

\* Emit appends one well-formed event.
LEMMA EmitTyped ==
  ASSUME TypeOK, NEW t \in EventType, NEW r \in Nat, NEW s \in Status \cup RunStatus,
         Emit(t, r, s)
  PROVE  events' \in Seq(Event)
BY AppendProperties DEF TypeOK, Emit, Event

\* Writing a run's status, basis or marks keeps the table well-formed.
LEMMA RunUpdateTyped ==
  ASSUME TypeOK, NEW i \in Nat, NEW s \in RunStatus, NEW b \in Nat
  PROVE  /\ [runs EXCEPT ![i].status = s] \in Seq(Run)
         /\ [runs EXCEPT ![i].basis = b] \in Seq(Run)
         /\ [runs EXCEPT ![i].blind = TRUE] \in Seq(Run)
         /\ [runs EXCEPT ![i].uncommitted = TRUE] \in Seq(Run)
<1>1. CASE i \in 1..Len(runs)
  <2>1. runs[i] \in Run
    BY <1>1, ElementOfSeq DEF TypeOK
  <2>2. /\ [runs[i] EXCEPT !.status = s] \in Run /\ [runs[i] EXCEPT !.basis = b] \in Run
        /\ [runs[i] EXCEPT !.blind = TRUE] \in Run /\ [runs[i] EXCEPT !.uncommitted = TRUE] \in Run
    BY <2>1 DEF Run
  <2>3. QED BY <1>1, <2>2, ExceptSeq DEF TypeOK
<1>2. CASE i \notin 1..Len(runs)
  <2>1. i \notin DOMAIN runs
    BY <1>2, LenProperties DEF TypeOK
  <2>2. /\ [runs EXCEPT ![i].status = s] = runs
        /\ [runs EXCEPT ![i].basis = b] = runs
        /\ [runs EXCEPT ![i].blind = TRUE] = runs
        /\ [runs EXCEPT ![i].uncommitted = TRUE] = runs
    BY <2>1, LenProperties DEF TypeOK
  <2>3. QED BY <2>2 DEF TypeOK
<1>3. QED BY <1>1, <1>2

LEMMA InitTyped == Init => Typed
<1>1. Fresh \in Memory
  BY DEF Fresh, Memory, Status, Diagnosing, RunStatus
<1>2. runs = <<>> /\ events = <<>> => runs \in Seq(Run) /\ events \in Seq(Event)
  OBVIOUS
<1>3. "idle" \in Label \ Deciding /\ "received" \in Status
  BY DEF Label, Locked, Deciding, Status, Diagnosing
<1>4. Init => TypeOK
  <2> SUFFICES ASSUME Init PROVE TypeOK
    OBVIOUS
  <2>1. lock \in BOOLEAN /\ triggered \in BOOLEAN /\ model \in BOOLEAN
    BY Zenon DEF Init
  <2>2. /\ status \in Status /\ epoch \in Nat
        /\ cancels \in Nat /\ crashes \in Nat /\ failures \in Nat
        /\ evidence \subseteq [row: Row, epoch: Nat]
    BY <1>3 DEF Init
  <2>3. pc \in [Worker -> Label] /\ req \in [Worker -> Memory]
    BY <1>1, <1>3 DEF Init
  <2>4. QED BY <1>2, <2>1, <2>2, <2>3 DEF Init, TypeOK
<1>5. Init => DriverKnowsRole
  BY <1>3 DEF Init, DriverKnowsRole, Deciding
<1>6. QED BY <1>4, <1>5 DEF Typed


\* finishing the step of a role leaves the request well-formed.
LEMMA FinishStep ==
  ASSUME Typed, NEW w \in Worker, NEW st \in RunStatus, pc[w] \in Deciding, Finish(w, st)
  PROVE  RequestTyped'
<1>1. /\ req' \in [Worker -> Memory]
      /\ \A v \in Worker : req'[v].seen = req[v].seen /\ req'[v].attempt = req[v].attempt
  BY DEF Finish, Typed, TypeOK, Memory
<1>2. pc' = [pc EXCEPT ![w] = "complete"]
  BY DEF Finish, Goto
<1>3. QED BY <1>1, <1>2 DEF Typed, TypeOK, RequestTyped, DriverKnowsRole, Label, Locked, Deciding

LEMMA RequestStep == Typed /\ Next => RequestTyped'
<1> SUFFICES ASSUME Typed, Next PROVE RequestTyped'
  OBVIOUS
<1> USE DEF Typed, TypeOK, RequestTyped, DriverKnowsRole, Goto, Label, Locked, Deciding
<1>0. Fresh \in Memory
  BY DEF Fresh, Memory, Status, Diagnosing, RunStatus
<1>1. ASSUME NEW w \in Worker, acquireLock(w) PROVE RequestTyped'
  <2>1. CASE lock
    BY <1>0, <1>1, <2>1 DEF acquireLock, Return
  <2>2. CASE ~lock
    BY <1>1, <2>2 DEF acquireLock
  <2>3. QED BY <2>1, <2>2
<1>2. ASSUME NEW w \in Worker, releaseLock(w) PROVE RequestTyped'
  BY <1>0, <1>2 DEF releaseLock, Return
<1>3. ASSUME NEW w \in Worker, checkReanalyze(w) PROVE RequestTyped'
  BY <1>3 DEF checkReanalyze
<1>4. ASSUME NEW w \in Worker, emitReanalyze(w) PROVE RequestTyped'
  BY <1>4 DEF emitReanalyze
<1>5. ASSUME NEW w \in Worker, DeleteIncidentEvidence(w) PROVE RequestTyped'
  BY <1>5 DEF DeleteIncidentEvidence
<1>6. ASSUME NEW w \in Worker, ResetStatus(w) PROVE RequestTyped'
  BY <1>6 DEF ResetStatus
<1>7. ASSUME NEW w \in Worker, GetIncident(w) PROVE RequestTyped'
  BY <1>7 DEF GetIncident, ReadIncident, Memory
<1>8. ASSUME NEW w \in Worker, ReloadIncident(w) PROVE RequestTyped'
  BY <1>8 DEF ReloadIncident, ReadIncident, Memory
<1>9. ASSUME NEW w \in Worker, emitUpdated(w) PROVE RequestTyped'
  BY <1>9 DEF emitUpdated
<1>10. ASSUME NEW w \in Worker, NextAttempt(w) PROVE RequestTyped'
  <2>1. PICK n \in 1..(Len(runs) + 1) : req' = [req EXCEPT ![w].attempt = n]
    BY <1>10 DEF NextAttempt
  <2>2. n \in Nat \ {0}
    BY <2>1, LenProperties
  <2>3. req' \in [Worker -> Memory]
    BY <2>1, <2>2 DEF Memory
  <2>4. pc' = [pc EXCEPT ![w] = "create"] /\ pc[w] = "attempt"
    BY <1>10 DEF NextAttempt
  <2>5. DriverKnowsRole'
    BY <2>1, <2>2, <2>4 DEF Memory
  <2>6. QED BY <2>3, <2>4, <2>5
<1>11. ASSUME NEW w \in Worker, CreateRun(w) PROVE RequestTyped'
  <2>1. Len(runs) + 1 \in Nat
    BY LenProperties
  <2>2. req' = [req EXCEPT ![w] = [req[w] EXCEPT !.cur = Len(runs) + 1, !.outcome = "running"]]
    BY <1>11 DEF CreateRun
  <2>3. [req[w] EXCEPT !.cur = Len(runs) + 1, !.outcome = "running"] \in Memory
    BY <2>1 DEF Memory, RunStatus
  <2>4. /\ req' \in [Worker -> Memory]
        /\ \A v \in Worker : req'[v].seen = req[v].seen /\ req'[v].attempt = req[v].attempt
    BY <2>2, <2>3 DEF Memory
  <2>5. pc' = [pc EXCEPT ![w] = "emitStarted"] /\ pc[w] = "create"
    BY <1>11 DEF CreateRun
  <2>6. QED BY <2>4, <2>5
<1>12. ASSUME NEW w \in Worker, emitStarted(w) PROVE RequestTyped'
  BY <1>12 DEF emitStarted
<1>13. ASSUME NEW w \in Worker, skipModelUnavailable(w) PROVE RequestTyped'
  BY <1>13, FinishStep DEF skipModelUnavailable, RunStatus
<1>14. ASSUME NEW w \in Worker, DeterministicTriage(w) PROVE RequestTyped'
  BY <1>14, FinishStep DEF DeterministicTriage, RunStatus
<1>15. ASSUME NEW w \in Worker, BuildPrompt(w) PROVE RequestTyped'
  BY <1>15 DEF BuildPrompt, Memory
<1>16. ASSUME NEW w \in Worker, Collect(w) PROVE RequestTyped'
  <2>1. PICK rows \in SUBSET Row : req' = [req EXCEPT ![w].todo = rows]
    BY <1>16 DEF Collect
  <2>2. /\ req' \in [Worker -> Memory]
        /\ \A v \in Worker : req'[v].seen = req[v].seen /\ req'[v].attempt = req[v].attempt
    BY <2>1 DEF Memory
  <2>3. pc' = [pc EXCEPT ![w] = "store"] /\ pc[w] = "execute"
    BY <1>16 DEF Collect
  <2>4. QED BY <2>2, <2>3
<1>17. ASSUME NEW w \in Worker, CollectFails(w) PROVE RequestTyped'
  BY <1>17, FinishStep DEF CollectFails, RunStatus
<1>18. ASSUME NEW w \in Worker, StoreRow(w) PROVE RequestTyped'
  <2>1. PICK r \in req[w].todo : req' = [req EXCEPT ![w].todo = @ \ {r}]
    BY <1>18 DEF StoreRow
  <2>2. req[w].todo \ {r} \in SUBSET Row
    BY DEF Memory
  <2>3. /\ req' \in [Worker -> Memory]
        /\ \A v \in Worker : req'[v].seen = req[v].seen /\ req'[v].attempt = req[v].attempt
    BY <2>1, <2>2 DEF Memory
  <2>4. pc' = pc
    BY <1>18 DEF StoreRow
  <2>5. QED BY <2>3, <2>4
<1>19. ASSUME NEW w \in Worker, StoreFails(w) PROVE RequestTyped'
  BY <1>19, FinishStep DEF StoreFails, RunStatus
<1>20. ASSUME NEW w \in Worker, Stored(w) PROVE RequestTyped'
  <2>1. CASE model
    BY <1>20, <2>1 DEF Stored
  <2>2. CASE ~model
    BY <1>20, <2>2, FinishStep DEF Stored, RunStatus
  <2>3. QED BY <2>1, <2>2
<1>21. ASSUME NEW w \in Worker, ModelReplies(w) PROVE RequestTyped'
  <2>1. PICK st \in {"succeeded", "failed"} : Finish(w, st)
    BY <1>21 DEF ModelReplies
  <2>2. QED BY <1>21, <2>1, FinishStep DEF ModelReplies, RunStatus
<1>22. ASSUME NEW w \in Worker, CompleteRun(w) PROVE RequestTyped'
  <2>1. PICK b \in BOOLEAN : req' = [req EXCEPT ![w].stop = b]
    BY <1>22, Zenon DEF CompleteRun
  <2>2. /\ req' \in [Worker -> Memory]
        /\ \A v \in Worker : req'[v].seen = req[v].seen /\ req'[v].attempt = req[v].attempt
    <3>1. CASE b = TRUE
      BY <2>1, <3>1 DEF Memory
    <3>2. CASE b = FALSE
      BY <2>1, <3>2 DEF Memory
    <3>3. QED BY <3>1, <3>2
  <2>3. pc' = [pc EXCEPT ![w] = "emitCompleted"]
    BY <1>22 DEF CompleteRun
  <2>4. QED BY <2>2, <2>3
<1>23. ASSUME NEW w \in Worker, emitCompleted(w) PROVE RequestTyped'
  BY <1>23 DEF emitCompleted
<1>24. ASSUME NEW w \in Worker, RequestRun(w) PROVE RequestTyped'
  BY <1>24 DEF RequestRun, Memory
<1>25. ASSUME NEW w \in Worker, RequestReanalyze(w) PROVE RequestTyped'
  BY <1>25 DEF RequestReanalyze, Memory
<1>26. ASSUME NEW w \in Worker, Cancel(w) PROVE RequestTyped'
  BY <1>0, <1>26 DEF Cancel, Return
<1>27. CASE Crash
  BY <1>0, <1>27 DEF Crash
<1>28. CASE Pipeline
  BY <1>28 DEF Pipeline, Decide, BeginExecution, EndExecution
<1>29. ASSUME NEW w \in Worker, LockFails(w) PROVE RequestTyped'
  BY <1>0, <1>29 DEF LockFails, Return
<1>30. ASSUME NEW w \in Worker, StatementFails(w) PROVE RequestTyped'
  BY <1>30 DEF StatementFails
<1>31. ASSUME NEW w \in Worker, EmitFails(w) PROVE RequestTyped'
  BY <1>31 DEF EmitFails, AfterEmit
<1>32. ASSUME NEW w \in Worker, ListRunsFails(w) PROVE RequestTyped'
  BY <1>32 DEF ListRunsFails
<1>33. ASSUME NEW w \in Worker, CompleteRunFails(w) PROVE RequestTyped'
  <2>1. req' = [req EXCEPT ![w].stop = TRUE] /\ pc' = [pc EXCEPT ![w] = "emitCompleted"]
    BY <1>33 DEF CompleteRunFails
  <2>2. /\ req' \in [Worker -> Memory]
        /\ \A v \in Worker : req'[v].seen = req[v].seen /\ req'[v].attempt = req[v].attempt
    BY <2>1 DEF Memory
  <2>3. QED BY <2>1, <2>2
<1>34. QED
  BY <1>1, <1>2, <1>3, <1>4, <1>5, <1>6, <1>7, <1>8, <1>9, <1>10, <1>11, <1>12, <1>13, <1>14,
     <1>15, <1>16, <1>17, <1>18, <1>19, <1>20, <1>21, <1>22, <1>23, <1>24, <1>25, <1>26, <1>27,
     <1>28, <1>29, <1>30, <1>31, <1>32, <1>33 DEF Next, Step, Request, Fails

\* Which statement writes which variable; everything else leaves it alone.
LEMMA Writers ==
  ASSUME Next
  PROVE  /\ UNCHANGED status \/ Pipeline \/ \E w \in Worker : ResetStatus(w) \/ CompleteRun(w)
         /\ UNCHANGED epoch \/ \E w \in Worker : ResetStatus(w)
         /\ UNCHANGED runs \/ \E w \in Worker : \/ CreateRun(w) \/ BuildPrompt(w) \/ CompleteRun(w)
                                             \/ ListRunsFails(w) \/ CompleteRunFails(w)
         /\ UNCHANGED lock \/ \E w \in Worker : acquireLock(w) \/ releaseLock(w)
         /\ UNCHANGED evidence \/ \E w \in Worker : DeleteIncidentEvidence(w) \/ StoreRow(w)
         /\ UNCHANGED events \/ \E w \in Worker : emitReanalyze(w) \/ emitUpdated(w) \/ emitStarted(w) \/ emitCompleted(w)
         /\ UNCHANGED triggered \/ \E w \in Worker : RequestRun(w)
         /\ UNCHANGED cancels \/ \E w \in Worker : Cancel(w)
         /\ UNCHANGED crashes \/ Crash
         /\ UNCHANGED failures \/ failures' = failures + 1
         /\ UNCHANGED model
<1> USE DEF Next, Step, Request, Pipeline, db, env, acquireLock, releaseLock, checkReanalyze,
      emitReanalyze, DeleteIncidentEvidence, ResetStatus, ReadIncident, GetIncident,
      ReloadIncident, emitUpdated, NextAttempt, CreateRun, emitStarted, skipModelUnavailable,
      DeterministicTriage, BuildPrompt, Collect, CollectFails, StoreRow, StoreFails, Stored,
      ModelReplies, CompleteRun, emitCompleted, RequestRun, RequestReanalyze, Cancel, Crash,
      Decide, BeginExecution, EndExecution, Fails, Failing, LockFails, StatementFails, EmitFails,
      ListRunsFails, CompleteRunFails
<1>1. UNCHANGED status \/ Pipeline \/ \E w \in Worker : ResetStatus(w) \/ CompleteRun(w)
  OBVIOUS
<1>2. UNCHANGED epoch \/ \E w \in Worker : ResetStatus(w)
  OBVIOUS
<1>3. UNCHANGED runs \/ \E w \in Worker : \/ CreateRun(w) \/ BuildPrompt(w) \/ CompleteRun(w)
                                          \/ ListRunsFails(w) \/ CompleteRunFails(w)
  <2> HIDE DEF CreateRun, BuildPrompt, CompleteRun, ListRunsFails, CompleteRunFails
  <2>1. QED OBVIOUS
<1>4. UNCHANGED lock \/ \E w \in Worker : acquireLock(w) \/ releaseLock(w)
  OBVIOUS
<1>5. UNCHANGED evidence \/ \E w \in Worker : DeleteIncidentEvidence(w) \/ StoreRow(w)
  OBVIOUS
<1>6. UNCHANGED events \/ \E w \in Worker : emitReanalyze(w) \/ emitUpdated(w) \/ emitStarted(w) \/ emitCompleted(w)
  OBVIOUS
<1>7. UNCHANGED triggered \/ \E w \in Worker : RequestRun(w)
  OBVIOUS
<1>8. UNCHANGED cancels \/ \E w \in Worker : Cancel(w)
  OBVIOUS
<1>9. UNCHANGED crashes \/ Crash
  OBVIOUS
<1>10. UNCHANGED failures \/ failures' = failures + 1
  OBVIOUS
<1>11. UNCHANGED model
  OBVIOUS
<1> HIDE DEF Next, Pipeline, acquireLock, releaseLock, emitReanalyze, DeleteIncidentEvidence,
      ResetStatus, emitUpdated, CreateRun, emitStarted, BuildPrompt, StoreRow, CompleteRun,
      emitCompleted, RequestRun, Cancel, Crash, ListRunsFails, CompleteRunFails
<1>12. QED BY <1>1, <1>2, <1>3, <1>4, <1>5, <1>6, <1>7, <1>8, <1>9, <1>10, <1>11

\* Statuses, counters, the lock row and the evidence rows stay well-typed.
LEMMA DatabaseStep ==
  ASSUME Typed, Next
  PROVE  /\ status' \in Status /\ epoch' \in Nat
         /\ evidence' \subseteq [row: Row, epoch: Nat]
         /\ cancels' \in Nat /\ crashes' \in Nat /\ failures' \in Nat
         /\ lock' \in BOOLEAN /\ triggered' \in BOOLEAN /\ model' \in BOOLEAN
<1> USE DEF Typed, TypeOK
<1>1. ASSUME NEW w \in Worker, ResetStatus(w)
      PROVE  status' \in Status /\ epoch' \in Nat
  BY <1>1 DEF ResetStatus, Status, Diagnosing
<1>2. ASSUME NEW w \in Worker, CompleteRun(w)
      PROVE  status' \in Status
  <2>1. req[w].seen \in Diagnosing
    BY <1>2 DEF CompleteRun, DriverKnowsRole, Deciding
  <2>2. QED BY <1>2, <2>1, StepTables DEF CompleteRun, Status, Terminal
<1>3. ASSUME Pipeline PROVE status' \in Status
  BY <1>3 DEF Pipeline, Decide, BeginExecution, EndExecution, Status, Terminal
<1>4. ASSUME NEW w \in Worker, StoreRow(w)
      PROVE  evidence' \subseteq [row: Row, epoch: Nat]
  <2>1. PICK r \in req[w].todo :
          evidence' = IF \E e \in evidence : e.row = r THEN evidence
                      ELSE evidence \cup {[row |-> r, epoch |-> epoch]}
    BY <1>4 DEF StoreRow
  <2>2. r \in Row
    BY DEF Memory
  <2>3. QED BY <2>1, <2>2
<1>5. status' \in Status /\ epoch' \in Nat
  BY <1>1, <1>2, <1>3, Writers
<1>6. evidence' \subseteq [row: Row, epoch: Nat]
  BY <1>4, Writers DEF DeleteIncidentEvidence
<1>7. lock' \in BOOLEAN /\ triggered' \in BOOLEAN /\ model' \in BOOLEAN
  BY Writers, Zenon DEF acquireLock, releaseLock, RequestRun
<1>8. cancels' \in Nat /\ crashes' \in Nat /\ failures' \in Nat
  BY Writers DEF Cancel, Crash
<1>9. QED BY <1>5, <1>6, <1>7, <1>8

\* Runs are appended whole, and changed in status, basis and marks only.
LEMMA RunsStep ==
  ASSUME Typed, Next
  PROVE  runs' \in Seq(Run)
<1> USE DEF Typed, TypeOK
<1>1. ASSUME NEW w \in Worker, CreateRun(w) PROVE runs' \in Seq(Run)
  <2>1. RoleOf(w) \in Role /\ req[w].attempt \in Nat \ {0}
    BY <1>1, StepTables DEF CreateRun, RoleOf, DriverKnowsRole, Deciding, Memory
  <2>2. QED BY <1>1, <2>1, AppendProperties DEF CreateRun, NewRun, Run, RunStatus
<1>2. ASSUME NEW w \in Worker, BuildPrompt(w) PROVE runs' \in Seq(Run)
  <2>1. PICK i \in 0..Len(runs) : runs' = [runs EXCEPT ![req[w].cur].basis = i]
    BY <1>2 DEF BuildPrompt
  <2>2. i \in Nat /\ req[w].cur \in Nat
    BY LenProperties DEF Memory
  <2>3. "running" \in RunStatus
    BY DEF RunStatus
  <2>4. QED BY <2>1, <2>2, <2>3, RunUpdateTyped
<1>3. ASSUME NEW w \in Worker, CompleteRun(w) PROVE runs' \in Seq(Run)
  <2>1. \/ runs' = [runs EXCEPT ![req[w].cur].status = req[w].outcome]
        \/ UNCHANGED runs
    BY <1>3 DEF CompleteRun
  <2>2. req[w].outcome \in RunStatus /\ req[w].cur \in Nat
    BY DEF Memory
  <2>3. QED BY <2>1, <2>2, RunUpdateTyped
<1>4. ASSUME NEW w \in Worker, ListRunsFails(w) \/ CompleteRunFails(w) PROVE runs' \in Seq(Run)
  <2>1. req[w].cur \in Nat /\ 0 \in Nat /\ "running" \in RunStatus
    BY DEF Memory, RunStatus
  <2>2. QED BY <1>4, <2>1, RunUpdateTyped DEF ListRunsFails, CompleteRunFails
<1>5. QED BY <1>1, <1>2, <1>3, <1>4, Writers

\* Every event emitted is well-formed.
LEMMA EventsStep ==
  ASSUME Typed, Next
  PROVE  events' \in Seq(Event)
<1> USE DEF Typed, TypeOK, EventType
<1>1. ASSUME NEW w \in Worker, emitReanalyze(w) \/ emitUpdated(w) PROVE events' \in Seq(Event)
  BY <1>1, EmitTyped DEF emitReanalyze, emitUpdated, Memory
<1>2. ASSUME NEW w \in Worker, emitStarted(w) \/ emitCompleted(w) PROVE events' \in Seq(Event)
  BY <1>2, EmitTyped DEF emitStarted, emitCompleted, Memory, RunStatus
<1>3. QED BY <1>1, <1>2, Writers

LEMMA TypedStep == Typed /\ [Next]_vars => Typed'
<1> SUFFICES ASSUME Typed, [Next]_vars PROVE Typed'
  OBVIOUS
<1>1. CASE Next
  BY <1>1, RequestStep, DatabaseStep, RunsStep, EventsStep DEF Typed, TypeOK, RequestTyped
<1>2. CASE UNCHANGED vars
  BY <1>2 DEF vars, db, env, Typed, TypeOK, DriverKnowsRole
<1>3. QED BY <1>1, <1>2

LEMMA AlwaysTyped == Spec => []Typed
BY InitTyped, TypedStep, PTL DEF Spec

\* The type invariant: whatever requests, cancellations, crashes and operators
\* do, the tables and the locals of the workflow (aiops/workflow.go) keep their
\* types; in particular every transition yields a status of the enumeration and
\* every role recorded is one of the five.
THEOREM TypeCorrect == Spec => []TypeOK
<1>1. Typed => TypeOK
  BY DEF Typed
<1>2. QED BY <1>1, AlwaysTyped, PTL

-----------------------------------------------------------------------------
(* The workflow lock *)

\* Whoever is behind acquireLock finds its row in the table, and is alone there.
Exclusion ==
  /\ \A w \in Worker : pc[w] \in Locked => lock
  /\ SingleDriver

\* A step moves one request, or ends them all; the lock is passed in acquireLock
\* only, by a request that found no row.
LEMMA Movement ==
  ASSUME Typed, Next
  PROVE  \/ \E w \in Worker :
              /\ \A v \in Worker \ {w} : pc'[v] = pc[v] /\ req'[v] = req[v]
              /\ pc'[w] \in Locked => pc[w] \in Locked \/ (acquireLock(w) /\ ~lock)
         \/ \A w \in Worker : pc'[w] = "idle"
         \/ UNCHANGED <<pc, req>>
<1> USE DEF Typed, TypeOK, Goto, Locked, Deciding
<1>1. ASSUME NEW w \in Worker, Step(w) \/ Fails(w) \/ Request(w) \/ Cancel(w)
      PROVE  \A v \in Worker \ {w} : pc'[v] = pc[v] /\ req'[v] = req[v]
  BY <1>1 DEF Step, Request, Return, Finish, acquireLock, releaseLock, checkReanalyze,
      emitReanalyze, DeleteIncidentEvidence, ResetStatus, ReadIncident, GetIncident,
      ReloadIncident, emitUpdated, NextAttempt, CreateRun, emitStarted, skipModelUnavailable,
      DeterministicTriage, BuildPrompt, Collect, CollectFails, StoreRow, StoreFails, Stored,
      ModelReplies, CompleteRun, emitCompleted, RequestRun, RequestReanalyze, Cancel, Fails, LockFails,
      StatementFails, EmitFails, AfterEmit, ListRunsFails, CompleteRunFails
<1>2. ASSUME NEW w \in Worker, Step(w) \/ Fails(w) \/ Request(w) \/ Cancel(w), pc'[w] \in Locked
      PROVE  pc[w] \in Locked \/ (acquireLock(w) /\ ~lock)
  <2>1. CASE acquireLock(w)
    BY <1>2, <2>1 DEF acquireLock, Return
  <2>2. CASE Step(w) /\ ~acquireLock(w)
    BY <2>2 DEF Step, releaseLock, checkReanalyze,
      emitReanalyze, DeleteIncidentEvidence, ResetStatus, GetIncident,
      ReloadIncident, emitUpdated, NextAttempt, CreateRun, emitStarted, skipModelUnavailable,
      DeterministicTriage, BuildPrompt, Collect, CollectFails, StoreRow, StoreFails, Stored,
      ModelReplies, CompleteRun, emitCompleted
  <2>3. CASE Request(w) \/ Cancel(w) \/ LockFails(w)
    BY <1>2, <2>3 DEF Request, RequestRun, RequestReanalyze, Cancel, LockFails, Return
  <2>4. CASE Fails(w) /\ ~LockFails(w)
    BY <2>4 DEF Fails, StatementFails, EmitFails, ListRunsFails, CompleteRunFails
  <2>5. QED BY <1>2, <2>1, <2>2, <2>3, <2>4
<1>3. ASSUME Crash PROVE \A w \in Worker : pc'[w] = "idle"
  BY <1>3 DEF Crash
<1>4. ASSUME Pipeline PROVE UNCHANGED <<pc, req>>
  BY <1>4 DEF Pipeline, Decide, BeginExecution, EndExecution
<1>5. QED BY <1>1, <1>2, <1>3, <1>4 DEF Next

LEMMA ExclusionStep == Typed /\ Exclusion /\ [Next]_vars => Exclusion'
<1> SUFFICES ASSUME Typed, Exclusion, [Next]_vars PROVE Exclusion'
  OBVIOUS
<1> USE DEF Exclusion, SingleDriver
<1>1. CASE UNCHANGED vars
  BY <1>1 DEF vars, db
<1>2. CASE Next
  <2>1. CASE \A w \in Worker : pc'[w] = "idle"
    BY <2>1 DEF Locked, Deciding
  <2>2. ASSUME NEW w \in Worker, pc[w] = "release", releaseLock(w) PROVE Exclusion'
    BY <2>2 DEF releaseLock, Return, Goto, Locked, Deciding, Typed, TypeOK
  <2>3. ASSUME NEW w \in Worker, acquireLock(w), ~lock PROVE Exclusion'
    BY <2>3 DEF acquireLock, Goto, Locked, Deciding, Typed, TypeOK
  <2>4. CASE UNCHANGED lock
    BY <1>2, <2>1, <2>3, <2>4, Movement
  <2>5. ASSUME NEW w \in Worker, acquireLock(w), lock PROVE UNCHANGED lock
    BY <2>5, Zenon DEF acquireLock, Typed, TypeOK
  <2>6. QED BY <1>2, <2>2, <2>3, <2>4, <2>5, Writers DEF releaseLock
<1>3. QED BY <1>1, <1>2

\* Mutual exclusion: of any number of Run and Reanalyze requests on the incident
\* at most one is between acquireLock and its deferred releaseLock
\* (aiops/workflow.go), through crashes and cancellations, although releaseLock
\* deletes the row without asking whose it is.
THEOREM MutualExclusion == Spec => []SingleDriver
<1>1. Init => Exclusion
  BY DEF Init, Exclusion, SingleDriver, Locked, Deciding
<1>2. Exclusion => SingleDriver
  BY DEF Exclusion
<1>3. QED BY <1>1, <1>2, ExclusionStep, AlwaysTyped, PTL DEF Spec

-----------------------------------------------------------------------------
(* What the lock holder read is still so *)

\* A driver that works on a diagnostic status it read finds it unchanged, and a
\* reanalysis that saw a terminal status finds the incident still terminal.
Currency ==
  \A w \in Worker :
    /\ pc[w] \in Deciding \cup {"emitUpdated"} /\ req[w].seen \in Diagnosing
         => req[w].seen = status
    /\ pc[w] \in {"emitReanalyze", "wipe", "reset"} => status \in Terminal

\* What operators and the executor do touches neither a diagnostic nor a
\* terminal status, and follows the transition table.
LEMMA PipelineStep ==
  Pipeline => status \notin Diagnosing \cup Terminal /\ CanTransition(status, status')
BY DEF Pipeline, Decide, BeginExecution, EndExecution, Diagnosing, Terminal, CanTransition,
       transitions

\* The invariant is kept by every step of the lock holder.
LEMMA HolderStep ==
  ASSUME Typed, Exclusion, Currency, NEW w \in Worker, Step(w), pc[w] \in Locked
  PROVE  Currency'
<1> DEFINE Reads(v)  == pc[v] \in Deciding \cup {"emitUpdated"}
           Resets(v) == pc[v] \in {"emitReanalyze", "wipe", "reset"}
           Current(v) == /\ Reads(v) /\ req[v].seen \in Diagnosing => req[v].seen = status
                         /\ Resets(v) => status \in Terminal
<1> USE DEF Typed, TypeOK, Goto
<1>1. ASSUME NEW v \in Worker \ {w} PROVE ~Reads(v)' /\ ~Resets(v)'
  <2>1. pc[v] \notin Locked
    BY DEF Exclusion, SingleDriver
  <2>2. pc'[v] = pc[v]
    BY <1>1 DEF Step, Return, Finish, acquireLock, releaseLock, checkReanalyze,
      emitReanalyze, DeleteIncidentEvidence, ResetStatus, GetIncident,
      ReloadIncident, emitUpdated, NextAttempt, CreateRun, emitStarted, skipModelUnavailable,
      DeterministicTriage, BuildPrompt, Collect, CollectFails, StoreRow, StoreFails, Stored,
      ModelReplies, CompleteRun, emitCompleted
  <2>3. QED BY <2>1, <2>2 DEF Locked
<1>2. CASE GetIncident(w) \/ ReloadIncident(w)
  <2>1. req'[w].seen = status /\ status' = status /\ ~Resets(w)'
    BY <1>2 DEF GetIncident, ReloadIncident, ReadIncident, db, Memory
  <2>2. Current(w)'
    BY <2>1
  <2>3. QED BY <1>1, <2>2 DEF Currency
<1>3. CASE ResetStatus(w) \/ CompleteRun(w) \/ emitCompleted(w) \/ releaseLock(w) \/ acquireLock(w)
  <2>1. ~Reads(w)' /\ ~Resets(w)'
    BY <1>3 DEF ResetStatus, CompleteRun, emitCompleted, releaseLock, acquireLock, Return,
      Deciding, Locked
  <2>2. QED BY <1>1, <2>1 DEF Currency
<1>4. CASE checkReanalyze(w) \/ emitReanalyze(w) \/ DeleteIncidentEvidence(w)
  <2>1. ~Reads(w)' /\ (Resets(w)' => status \in Terminal) /\ status' = status
    BY <1>4 DEF checkReanalyze, emitReanalyze, DeleteIncidentEvidence, Deciding, db, Currency
  <2>2. QED BY <1>1, <2>1 DEF Currency
<1>5. CASE \/ emitUpdated(w) \/ NextAttempt(w) \/ CreateRun(w) \/ emitStarted(w)
           \/ skipModelUnavailable(w) \/ DeterministicTriage(w) \/ BuildPrompt(w)
           \/ Collect(w) \/ CollectFails(w) \/ StoreRow(w) \/ StoreFails(w) \/ Stored(w)
           \/ ModelReplies(w)
  <2>1. Reads(w) /\ ~Resets(w)' /\ status' = status
    BY <1>5 DEF emitUpdated, NextAttempt, CreateRun, emitStarted, skipModelUnavailable,
      DeterministicTriage, BuildPrompt, Collect, CollectFails, StoreRow, StoreFails, Stored,
      ModelReplies, Finish, Deciding, db
  <2>2. req'[w].seen = req[w].seen
    BY <1>5 DEF emitUpdated, NextAttempt, CreateRun, emitStarted, skipModelUnavailable,
      DeterministicTriage, BuildPrompt, Collect, CollectFails, StoreRow, StoreFails, Stored,
      ModelReplies, Finish, Memory
  <2>3. Current(w)'
    BY <2>1, <2>2 DEF Currency
  <2>4. QED BY <1>1, <2>3 DEF Currency
<1>6. QED BY <1>2, <1>3, <1>4, <1>5 DEF Step

LEMMA CurrencyStep == Typed /\ Exclusion /\ Currency /\ [Next]_vars => Currency'
<1> SUFFICES ASSUME Typed, Exclusion, Currency, [Next]_vars PROVE Currency'
  OBVIOUS
<1>1. CASE UNCHANGED vars
  BY <1>1 DEF vars, db, Currency
<1>2. ASSUME NEW w \in Worker, Step(w) PROVE Currency'
  <2>1. CASE pc[w] \in Locked
    BY <1>2, <2>1, HolderStep
  <2>2. CASE pc[w] \notin Locked
    <3>1. acquireLock(w)
      BY <1>2, <2>2 DEF Step, Locked, Deciding, releaseLock, checkReanalyze,
        emitReanalyze, DeleteIncidentEvidence, ResetStatus, GetIncident,
        ReloadIncident, emitUpdated, NextAttempt, CreateRun, emitStarted, skipModelUnavailable,
        DeterministicTriage, BuildPrompt, Collect, CollectFails, StoreRow, StoreFails, Stored,
        ModelReplies, CompleteRun, emitCompleted
    <3>2. /\ \A v \in Worker \ {w} : pc'[v] = pc[v] /\ req'[v] = req[v]
          /\ pc'[w] \in {"idle", "get", "check"} /\ status' = status
      BY <3>1 DEF acquireLock, Goto, Return, Typed, TypeOK
    <3>3. QED BY <3>2 DEF Currency, Deciding
  <2>3. QED BY <2>1, <2>2
<1>3. ASSUME NEW w \in Worker, Request(w) \/ Cancel(w) PROVE Currency'
  <2>1. /\ \A v \in Worker \ {w} : pc'[v] = pc[v] /\ req'[v] = req[v]
        /\ pc'[w] \in {"idle", "acquire"} /\ status' = status
    BY <1>3 DEF Request, RequestRun, RequestReanalyze, Cancel, Goto, Return, db, Typed, TypeOK
  <2>2. QED BY <2>1 DEF Currency, Deciding
<1>4. CASE Crash
  BY <1>4 DEF Crash, Currency, Deciding
<1>5. CASE Pipeline
  <2>1. UNCHANGED <<pc, req>>
    BY <1>5 DEF Pipeline, Decide, BeginExecution, EndExecution
  <2>2. QED BY <1>5, <2>1, PipelineStep DEF Currency
<1>6. ASSUME NEW w \in Worker, Fails(w) PROVE Currency'
  <2> USE DEF Typed, TypeOK, Goto
  <2>1. /\ \A v \in Worker \ {w} : pc'[v] = pc[v] /\ req'[v] = req[v]
        /\ status' = status
    BY <1>6 DEF Fails, LockFails, StatementFails, EmitFails, ListRunsFails, CompleteRunFails,
         Return, db
  <2>2. CASE LockFails(w) \/ StatementFails(w) \/ CompleteRunFails(w)
    <3>1. pc'[w] \in {"idle", "release", "emitCompleted"}
      BY <2>2 DEF LockFails, StatementFails, CompleteRunFails, Return
    <3>2. QED BY <2>1, <3>1 DEF Currency, Deciding
  <2>3. CASE EmitFails(w) \/ ListRunsFails(w)
    <3>1. req'[w] = req[w]
      BY <2>3 DEF EmitFails, ListRunsFails
    <3>2. \/ pc[w] = "emitReanalyze" /\ pc'[w] = "wipe"
          \/ pc[w] \in {"emitStarted", "execute"} /\ pc'[w] \in {"execute", "prompt"}
          \/ pc'[w] \in {"release", "reload"}
          \/ pc[w] = "emitUpdated" /\ pc'[w] = "attempt"
      BY <2>3 DEF EmitFails, ListRunsFails, AfterEmit
    <3>3. QED BY <2>1, <3>1, <3>2 DEF Currency, Deciding
  <2>4. QED BY <1>6, <2>2, <2>3 DEF Fails
<1>7. QED BY <1>1, <1>2, <1>3, <1>4, <1>5, <1>6 DEF Next

LEMMA AlwaysCurrent == Spec => [](Typed /\ Exclusion /\ Currency)
<1>1. Init => Exclusion /\ Currency
  BY DEF Init, Exclusion, SingleDriver, Currency, Locked, Deciding
<1>2. QED BY <1>1, InitTyped, TypedStep, ExclusionStep, CurrencyStep, PTL DEF Spec

\* A driver acts on the present: at every step from the choice of a role to its
\* CompleteRun, the status it read with incidents.Get is the status stored, so
\* the role it runs is the one the incident is waiting for (runLocked,
\* aiops/workflow.go).  Operators and the executor may act at any time.
THEOREM DriverActsOnCurrentStatus == Spec => []DriverViewIsCurrent
<1>1. Typed /\ Currency => DriverViewIsCurrent
  BY DEF Typed, DriverKnowsRole, Currency, DriverViewIsCurrent
<1>2. QED BY <1>1, AlwaysCurrent, PTL

\* No step takes the incident along an edge that transitions does not have,
\* but for the reset of a terminal incident by Reanalyze, whose UPDATE itself
\* compares nothing (aiops/repository.go UpdateStatus).
THEOREM WhitelistedTransitions == Spec => StatusFollowsWhitelist
<1> DEFINE Allowed == \/ CanTransition(status, status')
                      \/ status \in Terminal /\ status' = "received"
<1>1. Typed /\ Exclusion /\ Currency /\ [Next]_vars => [Allowed]_status
  <2> SUFFICES ASSUME Typed, Currency, Next, status' # status PROVE Allowed
    BY DEF vars, db
  <2>1. ASSUME NEW w \in Worker, ResetStatus(w) PROVE Allowed
    BY <2>1 DEF ResetStatus, Currency
  <2>2. ASSUME NEW w \in Worker, CompleteRun(w) PROVE Allowed
    BY <2>2 DEF CompleteRun, CanTransition
  <2>3. CASE Pipeline
    BY <2>3, PipelineStep DEF CanTransition
  <2>4. \/ Pipeline
        \/ \E w \in Worker : ResetStatus(w) \/ CompleteRun(w)
    BY Writers
  <2>5. QED BY <2>1, <2>2, <2>3, <2>4
<1>2. QED BY <1>1, AlwaysCurrent, PTL DEF Spec, StatusFollowsWhitelist

-----------------------------------------------------------------------------
(* A reanalysis starts from no evidence *)

\* Between DeleteIncidentEvidence and the reset nothing is stored.
Wiped ==
  /\ EvidenceIsCurrent
  /\ \A w \in Worker : pc[w] = "reset" => evidence = {}

\* The statement before the reset is the deletion.
LEMMA ResetIsEntered ==
  ASSUME Typed, Next, NEW w \in Worker, pc'[w] = "reset"
  PROVE  DeleteIncidentEvidence(w) \/ pc[w] = "reset"
<1> USE DEF Typed, TypeOK, Goto, Return
<1>1. ASSUME NEW v \in Worker, v # w, Step(v) \/ Fails(v) \/ Request(v) \/ Cancel(v) PROVE pc'[w] = pc[w]
  BY <1>1 DEF Step, Request, Finish, acquireLock, releaseLock, checkReanalyze,
      emitReanalyze, DeleteIncidentEvidence, ResetStatus, GetIncident,
      ReloadIncident, emitUpdated, NextAttempt, CreateRun, emitStarted, skipModelUnavailable,
      DeterministicTriage, BuildPrompt, Collect, CollectFails, StoreRow, StoreFails, Stored,
      ModelReplies, CompleteRun, emitCompleted, RequestRun, RequestReanalyze, Cancel, Fails, LockFails,
      StatementFails, EmitFails, AfterEmit, ListRunsFails, CompleteRunFails
<1>2. ASSUME Step(w) \/ Fails(w) \/ Request(w) \/ Cancel(w) PROVE DeleteIncidentEvidence(w) \/ pc[w] = "reset"
  BY <1>2 DEF Step, Request, Finish, acquireLock, releaseLock, checkReanalyze,
      emitReanalyze, ResetStatus, GetIncident,
      ReloadIncident, emitUpdated, NextAttempt, CreateRun, emitStarted, skipModelUnavailable,
      DeterministicTriage, BuildPrompt, Collect, CollectFails, StoreRow, StoreFails, Stored,
      ModelReplies, CompleteRun, emitCompleted, RequestRun, RequestReanalyze, Cancel, Fails, LockFails,
      StatementFails, EmitFails, AfterEmit, ListRunsFails, CompleteRunFails
<1>3. Crash \/ Pipeline => pc' = pc \/ pc'[w] = "idle"
  BY DEF Crash, Pipeline, Decide, BeginExecution, EndExecution
<1>4. QED BY <1>1, <1>2, <1>3 DEF Next

LEMMA WipedStep == Typed /\ Exclusion /\ Wiped /\ [Next]_vars => Wiped'
<1> SUFFICES ASSUME Typed, Exclusion, Wiped, [Next]_vars PROVE Wiped'
  OBVIOUS
<1> USE DEF Wiped, EvidenceIsCurrent
<1>1. CASE UNCHANGED vars
  BY <1>1 DEF vars, db
<1>2. CASE Next
  <2>1. EvidenceIsCurrent'
    <3>1. ASSUME NEW w \in Worker, ResetStatus(w) PROVE evidence' = {}
      BY <3>1 DEF ResetStatus
    <3>2. ASSUME NEW w \in Worker, DeleteIncidentEvidence(w) PROVE evidence' = {}
      BY <3>2 DEF DeleteIncidentEvidence
    <3>3. ASSUME NEW w \in Worker, StoreRow(w), NEW e \in evidence' PROVE e.epoch = epoch'
      BY <3>3 DEF StoreRow
    <3>4. QED BY <1>2, <3>1, <3>2, <3>3, Writers
  <2>2. ASSUME NEW w \in Worker, pc'[w] = "reset" PROVE evidence' = {}
    <3>1. DeleteIncidentEvidence(w) \/ (pc[w] = "reset" /\ evidence = {})
      BY <1>2, <2>2, ResetIsEntered
    <3>2. ASSUME NEW v \in Worker, StoreRow(v), pc[w] = "reset" PROVE FALSE
      BY <3>2 DEF StoreRow, Exclusion, SingleDriver, Locked, Deciding
    <3>3. QED BY <1>2, <3>1, <3>2, Writers DEF DeleteIncidentEvidence
  <2>3. QED BY <2>1, <2>2
<1>3. QED BY <1>1, <1>2

\* Reanalyze leaves nothing of the analysis before it: all stored evidence was
\* collected since the incident was last reset, also when a reanalysis was
\* cancelled or crashed between DeleteIncidentEvidence and UpdateStatus, or
\* while another request waited (Reanalyze, aiops/workflow.go).
THEOREM EvidenceOfThisEpochOnly == Spec => []EvidenceIsCurrent
<1>1. Init => Exclusion /\ Wiped
  BY DEF Init, Exclusion, SingleDriver, Wiped, EvidenceIsCurrent, Locked, Deciding
<1>2. Wiped => EvidenceIsCurrent
  BY DEF Wiped
<1>3. QED BY <1>1, <1>2, InitTyped, TypedStep, ExclusionStep, WipedStep, PTL DEF Spec

-----------------------------------------------------------------------------
(* The steps in their order *)

Before(t) == {s \in Diagnosing : Rank(s) < Rank(t)}

\* The chain of steps: each adds itself to those before it.
LEMMA Chain ==
  /\ Before("received") = {}
  /\ \A t \in Diagnosing :
       /\ t \notin Before(t) /\ Before(NextStatus[t]) = Before(t) \cup {t}
       /\ NextStatus[t] \notin Terminal
       /\ CanTransition(t, NextStatus[t]) /\ CanTransition(t, "failed")
  /\ \A t \in {"awaiting_approval", "approved", "executing"} : Before(t) = Diagnosing
<1>1. /\ Rank("received") = 0 /\ Rank("triaging") = 1 /\ Rank("collecting") = 2
      /\ Rank("analyzing") = 3 /\ Rank("proposing") = 4 /\ Rank("awaiting_approval") = 5
      /\ Rank("approved") = 5 /\ Rank("executing") = 5
  BY DEF Rank
<1>2. Before("received") = {}
  BY <1>1 DEF Before, Diagnosing
<1>3. \A t \in {"awaiting_approval", "approved", "executing"} : Before(t) = Diagnosing
  BY <1>1 DEF Before, Diagnosing
<1>4. ASSUME NEW t \in Diagnosing
      PROVE  t \notin Before(t) /\ Before(NextStatus[t]) = Before(t) \cup {t}
  BY <1>1 DEF Before, Diagnosing, NextStatus
<1>5. ASSUME NEW t \in Diagnosing
      PROVE  /\ NextStatus[t] \notin Terminal
             /\ CanTransition(t, NextStatus[t]) /\ CanTransition(t, "failed")
  BY DEF Diagnosing, NextStatus, Terminal, CanTransition, transitions
<1>6. QED BY <1>2, <1>3, <1>4, <1>5

LEMMA RolesDiffer == \A s, t \in Diagnosing : StepRole[s] = StepRole[t] => s = t
BY DEF Diagnosing, StepRole

-----------------------------------------------------------------------------
(* The run in progress *)

\* The lock holder's run is in the table, for the role of the status it saw, and its
\* CompleteRun is still to come; no run is of an epoch to come.
InProgress ==
  /\ \A w \in Worker : pc[w] \in Running =>
       /\ req[w].cur \in DOMAIN runs
       /\ runs[req[w].cur].role = RoleOf(w)
       /\ runs[req[w].cur].status = "running"
       /\ runs[req[w].cur].epoch = epoch
       /\ ~runs[req[w].cur].uncommitted
  /\ \A i \in DOMAIN runs : runs[i].epoch <= epoch

\* A request enters Running by CreateRun, and does not change its mind there.
LEMMA RunningIsEntered ==
  ASSUME Typed, Next, NEW w \in Worker, pc'[w] \in Running
  PROVE  \/ CreateRun(w)
         \/ pc[w] \in Running /\ req'[w].cur = req[w].cur /\ req'[w].seen = req[w].seen
<1> USE DEF Typed, TypeOK, Goto, Return, Running
<1>1. ASSUME NEW v \in Worker, v # w, Step(v) \/ Fails(v) \/ Request(v) \/ Cancel(v)
      PROVE  pc'[w] = pc[w] /\ req'[w] = req[w]
  BY <1>1 DEF Step, Request, Finish, acquireLock, releaseLock, checkReanalyze,
      emitReanalyze, DeleteIncidentEvidence, ResetStatus, GetIncident, ReadIncident,
      ReloadIncident, emitUpdated, NextAttempt, CreateRun, emitStarted, skipModelUnavailable,
      DeterministicTriage, BuildPrompt, Collect, CollectFails, StoreRow, StoreFails, Stored,
      ModelReplies, CompleteRun, emitCompleted, RequestRun, RequestReanalyze, Cancel, Fails, LockFails,
      StatementFails, EmitFails, AfterEmit, ListRunsFails, CompleteRunFails
<1>2. ASSUME Step(w) PROVE CreateRun(w) \/
        (pc[w] \in Running /\ req'[w].cur = req[w].cur /\ req'[w].seen = req[w].seen)
  <2>1. CASE \/ emitStarted(w) \/ skipModelUnavailable(w) \/ DeterministicTriage(w)
             \/ BuildPrompt(w) \/ Collect(w) \/ CollectFails(w) \/ StoreRow(w) \/ StoreFails(w)
             \/ Stored(w) \/ ModelReplies(w)
    BY <2>1 DEF emitStarted, skipModelUnavailable, DeterministicTriage, BuildPrompt, Collect,
         CollectFails, StoreRow, StoreFails, Stored, ModelReplies, Finish, Memory
  <2>2. CASE \/ acquireLock(w) \/ releaseLock(w) \/ checkReanalyze(w) \/ emitReanalyze(w)
             \/ DeleteIncidentEvidence(w) \/ ResetStatus(w) \/ GetIncident(w)
             \/ ReloadIncident(w) \/ emitUpdated(w) \/ NextAttempt(w) \/ CompleteRun(w)
             \/ emitCompleted(w)
    BY <2>2 DEF acquireLock, releaseLock, checkReanalyze, emitReanalyze,
         DeleteIncidentEvidence, ResetStatus, GetIncident, ReloadIncident, emitUpdated,
         NextAttempt, CompleteRun, emitCompleted
  <2>3. QED BY <1>2, <2>1, <2>2 DEF Step
<1>3. ASSUME Request(w) \/ Cancel(w) PROVE FALSE
  BY <1>3 DEF Request, RequestRun, RequestReanalyze, Cancel
<1>4. ASSUME Crash PROVE FALSE
  BY <1>4 DEF Crash
<1>5. Pipeline => UNCHANGED <<pc, req>>
  BY DEF Pipeline, Decide, BeginExecution, EndExecution
<1>6. ASSUME Fails(w) PROVE pc[w] \in Running /\ req'[w] = req[w]
  BY <1>6 DEF Fails, LockFails, StatementFails, EmitFails, AfterEmit, ListRunsFails,
       CompleteRunFails
<1>7. QED BY <1>1, <1>2, <1>3, <1>4, <1>5, <1>6 DEF Next

LEMMA RowsTyped ==
  ASSUME Typed
  PROVE  \A i \in DOMAIN runs : runs[i] \in Run /\ runs[i].epoch \in Nat
<1>1. DOMAIN runs = 1..Len(runs)
  BY LenProperties DEF Typed, TypeOK
<1>2. \A i \in DOMAIN runs : runs[i] \in Run
  BY <1>1, ElementOfSeq DEF Typed, TypeOK
<1>3. QED BY <1>2 DEF Run

\* A run that is in the table keeps its role and its epoch, and its status but for its
\* CompleteRun, whose failure is what marks it; the only new row is CreateRun's.
LEMMA RunRows ==
  ASSUME Typed, Next
  PROVE  /\ \A i \in DOMAIN runs :
              /\ i \in DOMAIN runs'
              /\ runs'[i].role = runs[i].role /\ runs'[i].epoch = runs[i].epoch
              /\ runs'[i].status = runs[i].status
                   \/ \E w \in Worker : CompleteRun(w) /\ i = req[w].cur
              /\ runs'[i].uncommitted = runs[i].uncommitted
                   \/ \E w \in Worker : /\ CompleteRunFails(w) /\ i = req[w].cur
                                        /\ runs'[i].uncommitted
         /\ \A i \in DOMAIN runs' \ DOMAIN runs :
              \E w \in Worker : /\ CreateRun(w) /\ i = Len(runs) + 1
                                /\ runs'[i].role = RoleOf(w) /\ runs'[i].status = "running"
                                /\ runs'[i].epoch = epoch
<1> USE DEF Typed, TypeOK
<1>0. DOMAIN runs = 1..Len(runs) /\ Len(runs) \in Nat
  BY LenProperties
<1>1. ASSUME NEW w \in Worker, CreateRun(w)
      PROVE  /\ \A i \in DOMAIN runs : i \in DOMAIN runs' /\ runs'[i] = runs[i]
             /\ \A i \in DOMAIN runs' \ DOMAIN runs :
                  /\ i = Len(runs) + 1
                  /\ runs'[i].role = RoleOf(w) /\ runs'[i].status = "running"
                  /\ runs'[i].epoch = epoch
  <2>1. NewRun(w) \in Run
    BY <1>1, StepTables DEF CreateRun, NewRun, RoleOf, DriverKnowsRole, Deciding, Memory, Run, RunStatus
  <2>2. /\ DOMAIN runs' = 1..(Len(runs) + 1)
        /\ \A i \in 1..Len(runs) : runs'[i] = runs[i]
        /\ runs'[Len(runs) + 1] = NewRun(w)
    BY <1>1, <2>1, AppendProperties, LenProperties DEF CreateRun
  <2>3. NewRun(w).role = RoleOf(w) /\ NewRun(w).status = "running" /\ NewRun(w).epoch = epoch
    BY DEF NewRun
  <2>4. QED BY <1>0, <2>2, <2>3
<1>2. ASSUME NEW w \in Worker, BuildPrompt(w)
      PROVE  /\ DOMAIN runs' = DOMAIN runs
             /\ \A i \in DOMAIN runs : /\ runs'[i].role = runs[i].role
                                       /\ runs'[i].epoch = runs[i].epoch
                                       /\ runs'[i].status = runs[i].status
                                       /\ runs'[i].uncommitted = runs[i].uncommitted
  <2>1. PICK b \in 0..Len(runs) : runs' = [runs EXCEPT ![req[w].cur].basis = b]
    BY <1>2 DEF BuildPrompt
  <2>2. \A i \in DOMAIN runs : runs[i] \in Run
    BY RowsTyped
  <2>3. QED BY <2>1, <2>2 DEF Run
<1>3. ASSUME NEW w \in Worker, CompleteRun(w)
      PROVE  /\ DOMAIN runs' = DOMAIN runs
             /\ \A i \in DOMAIN runs : /\ runs'[i].role = runs[i].role
                                       /\ runs'[i].epoch = runs[i].epoch
                                       /\ i # req[w].cur => runs'[i].status = runs[i].status
                                       /\ runs'[i].uncommitted = runs[i].uncommitted
  <2>1. runs' = runs \/ runs' = [runs EXCEPT ![req[w].cur].status = req[w].outcome]
    BY <1>3 DEF CompleteRun
  <2>2. \A i \in DOMAIN runs : runs[i] \in Run
    BY RowsTyped
  <2>3. CASE runs' = runs
    BY <2>3
  <2>4. CASE runs' = [runs EXCEPT ![req[w].cur].status = req[w].outcome]
    BY <2>2, <2>4 DEF Run
  <2>5. QED BY <2>1, <2>3, <2>4
<1>4. CASE UNCHANGED runs
  BY <1>4
<1>5. ASSUME NEW w \in Worker, ListRunsFails(w)
      PROVE  /\ DOMAIN runs' = DOMAIN runs
             /\ \A i \in DOMAIN runs : /\ runs'[i].role = runs[i].role
                                       /\ runs'[i].epoch = runs[i].epoch
                                       /\ runs'[i].status = runs[i].status
                                       /\ runs'[i].uncommitted = runs[i].uncommitted
  <2>1. runs' = [runs EXCEPT ![req[w].cur].blind = TRUE]
    BY <1>5 DEF ListRunsFails
  <2>2. \A i \in DOMAIN runs : runs[i] \in Run
    BY RowsTyped
  <2>3. QED BY <2>1, <2>2 DEF Run
<1>6. ASSUME NEW w \in Worker, CompleteRunFails(w)
      PROVE  /\ DOMAIN runs' = DOMAIN runs
             /\ \A i \in DOMAIN runs :
                  /\ runs'[i].role = runs[i].role /\ runs'[i].epoch = runs[i].epoch
                  /\ runs'[i].status = runs[i].status
                  /\ i # req[w].cur => runs'[i].uncommitted = runs[i].uncommitted
                  /\ i = req[w].cur => runs'[i].uncommitted
  <2>1. runs' = [runs EXCEPT ![req[w].cur].uncommitted = TRUE]
    BY <1>6 DEF CompleteRunFails
  <2>2. \A i \in DOMAIN runs : runs[i] \in Run
    BY RowsTyped
  <2>3. QED BY <2>1, <2>2 DEF Run
<1>7. QED BY <1>1, <1>2, <1>3, <1>4, <1>5, <1>6, Writers

LEMMA InProgressStep == Typed /\ Exclusion /\ Currency /\ InProgress /\ [Next]_vars => InProgress'
<1> SUFFICES ASSUME Typed, Exclusion, Currency, InProgress, [Next]_vars PROVE InProgress'
  OBVIOUS
<1>1. CASE UNCHANGED vars
  BY <1>1 DEF vars, db, InProgress, RoleOf
<1>2. CASE Next
  <2>0. epoch \in Nat /\ \A i \in DOMAIN runs : runs[i].epoch \in Nat
    BY RowsTyped DEF Typed, TypeOK
  <2>1. epoch' = epoch \/ (epoch' = epoch + 1 /\ \E v \in Worker : ResetStatus(v))
    BY <1>2, Writers DEF ResetStatus
  <2>2. \A i \in DOMAIN runs' : runs'[i].epoch <= epoch'
    BY <1>2, <2>0, <2>1, RunRows DEF InProgress
  <2>3. ASSUME NEW w \in Worker, pc'[w] \in Running
        PROVE  /\ req'[w].cur \in DOMAIN runs'
               /\ runs'[req'[w].cur].role = RoleOf(w)'
               /\ runs'[req'[w].cur].status = "running"
               /\ runs'[req'[w].cur].epoch = epoch'
               /\ ~runs'[req'[w].cur].uncommitted
    <3>1. CASE CreateRun(w)
      <4>1. epoch' = epoch /\ RoleOf(w)' = RoleOf(w) /\ req'[w].cur = Len(runs) + 1
        BY <3>1, LenProperties DEF CreateRun, RoleOf, Typed, TypeOK, Memory
      <4>2. /\ runs' = Append(runs, NewRun(w))
            /\ NewRun(w) \in Run
        BY <3>1, StepTables DEF CreateRun, NewRun, RoleOf, DriverKnowsRole, Deciding, Memory, Run,
             RunStatus, Typed, TypeOK
      <4>3. QED BY <4>1, <4>2, AppendProperties, LenProperties DEF NewRun, Typed, TypeOK
    <3>2. CASE pc[w] \in Running /\ req'[w].cur = req[w].cur /\ req'[w].seen = req[w].seen
      <4>1. pc[w] \in Locked
        BY <3>2 DEF Running, Locked, Deciding
      <4>2. \A v \in Worker : ~ResetStatus(v)
        <5>1. SUFFICES ASSUME NEW v \in Worker, ResetStatus(v) PROVE FALSE
          OBVIOUS
        <5>2. v = w
          BY <4>1, <5>1 DEF ResetStatus, Exclusion, SingleDriver, Locked
        <5>3. QED BY <3>2, <5>1, <5>2 DEF ResetStatus, Running
      <4>3. \A v \in Worker : ~CompleteRun(v)
        <5>1. SUFFICES ASSUME NEW v \in Worker, CompleteRun(v) PROVE FALSE
          OBVIOUS
        <5>2. v = w
          BY <4>1, <5>1 DEF CompleteRun, Exclusion, SingleDriver, Locked, Deciding
        <5>3. pc'[w] = "emitCompleted"
          BY <5>1, <5>2 DEF CompleteRun, Goto, Typed, TypeOK
        <5>4. QED BY <2>3, <5>3 DEF Running
      <4>4. epoch' = epoch
        BY <2>1, <4>2
      <4>5. \A v \in Worker : ~CompleteRunFails(v)
        <5>1. SUFFICES ASSUME NEW v \in Worker, CompleteRunFails(v) PROVE FALSE
          OBVIOUS
        <5>2. v = w
          BY <4>1, <5>1 DEF CompleteRunFails, Exclusion, SingleDriver, Locked, Deciding
        <5>3. pc'[w] = "emitCompleted"
          BY <5>1, <5>2 DEF CompleteRunFails, Goto, Typed, TypeOK
        <5>4. QED BY <2>3, <5>3 DEF Running
      <4>6. QED BY <1>2, <3>2, <4>3, <4>4, <4>5, RunRows DEF InProgress, RoleOf
    <3>3. QED BY <1>2, <2>3, <3>1, <3>2, RunningIsEntered
  <2>4. QED BY <2>2, <2>3 DEF InProgress
<1>3. QED BY <1>1, <1>2

-----------------------------------------------------------------------------
(* Steps done *)

\* What a step of the workflow is to someone who sees the status and the steps done.
\* CompleteRun(w) with success is the one that does both.
LEMMA Shown ==
  ASSUME Typed, Exclusion, Currency, InProgress, StatusMatchesRuns, Next
  PROVE  \/ UNCHANGED <<status, StepsDone>>
         \/ /\ status \in Diagnosing \ StepsDone
            /\ status' = NextStatus[status] /\ StepsDone' = StepsDone \cup {status}
         \/ status \in Diagnosing /\ status' = "failed" /\ StepsDone' = StepsDone
         \/ status \in Terminal /\ status' = "received" /\ StepsDone' = {}
         \/ Pipeline /\ StepsDone' = StepsDone
<1>0. /\ \A i \in DOMAIN runs : runs[i].epoch \in Nat
      /\ epoch \in Nat
  BY RowsTyped DEF Typed, TypeOK
\* Without a reset and a completion the steps done stay.
<1>1. ASSUME UNCHANGED epoch, \A w \in Worker : ~CompleteRun(w)
      PROVE  StepsDone' = StepsDone
  BY <1>1, RunRows DEF StepsDone
<1>2. ASSUME NEW w \in Worker, ResetStatus(w)
      PROVE  status \in Terminal /\ status' = "received" /\ StepsDone' = {}
  <2>1. status \in Terminal /\ status' = "received" /\ epoch' = epoch + 1 /\ runs' = runs
    BY <1>2 DEF ResetStatus, Currency
  <2>2. \A i \in DOMAIN runs' : runs'[i].epoch # epoch'
    BY <1>0, <2>1 DEF InProgress
  <2>3. QED BY <2>1, <2>2 DEF StepsDone
<1>3. ASSUME NEW w \in Worker, CompleteRun(w)
      PROVE  \/ UNCHANGED <<status, StepsDone>>
             \/ /\ status \in Diagnosing \ StepsDone
                /\ status' = NextStatus[status] /\ StepsDone' = StepsDone \cup {status}
             \/ status \in Diagnosing /\ status' = "failed" /\ StepsDone' = StepsDone
  <2> DEFINE c == req[w].cur
  <2>1. /\ pc[w] = "complete" /\ epoch' = epoch
        /\ req[w].seen = status /\ status \in Diagnosing
    BY <1>3 DEF CompleteRun, Currency, Typed, DriverKnowsRole, Deciding
  <2>2. /\ c \in DOMAIN runs /\ runs[c].role = StepRole[status]
        /\ runs[c].status = "running" /\ runs[c].epoch = epoch
    BY <2>1 DEF InProgress, Running, RoleOf
  <2>3. /\ status \notin StepsDone /\ status \notin Terminal
        /\ NextStatus[status] \notin Terminal
        /\ CanTransition(status, NextStatus[status]) /\ CanTransition(status, "failed")
    <3>1. status \notin Terminal
      BY <2>1 DEF Diagnosing, Terminal
    <3>2. QED BY <2>1, <3>1, Chain DEF StatusMatchesRuns, Before
  <2>4. runs[c] \in Run /\ \A i \in DOMAIN runs : runs[i] \in Run
    BY <2>2, RowsTyped
  <2>5. CASE req[w].outcome = "succeeded"
    <3>1. status' = NextStatus[status] /\ runs' = [runs EXCEPT ![c].status = "succeeded"]
      BY <1>3, <2>1, <2>3, <2>5 DEF CompleteRun
    <3>2. /\ DOMAIN runs' = DOMAIN runs
          /\ \A i \in DOMAIN runs : /\ runs'[i].role = runs[i].role
                                    /\ runs'[i].epoch = runs[i].epoch
                                    /\ i # c => runs'[i].status = runs[i].status
          /\ runs'[c].status = "succeeded"
      BY <2>2, <2>4, <3>1 DEF Run
    <3>3. StepsDone' = StepsDone \cup {status}
      BY <2>1, <2>2, <3>2, RolesDiffer DEF StepsDone
    <3>4. QED BY <2>1, <2>3, <3>1, <3>3
  <2>6. CASE req[w].outcome = "failed"
    <3>1. status' = "failed" /\ runs' = [runs EXCEPT ![c].status = "failed"]
      BY <1>3, <2>1, <2>3, <2>6 DEF CompleteRun
    <3>2. /\ DOMAIN runs' = DOMAIN runs
          /\ \A i \in DOMAIN runs : /\ runs'[i].role = runs[i].role
                                    /\ runs'[i].epoch = runs[i].epoch
                                    /\ i # c => runs'[i].status = runs[i].status
          /\ runs'[c].status = "failed"
      BY <2>2, <2>4, <3>1 DEF Run
    <3>3. StepsDone' = StepsDone
      BY <2>1, <2>2, <3>2 DEF StepsDone
    <3>4. QED BY <2>1, <3>1, <3>3
  <2>7. CASE req[w].outcome \notin {"succeeded", "failed"}
    <3>1. /\ status' = status
          /\ runs' = runs \/ runs' = [runs EXCEPT ![c].status = req[w].outcome]
      BY <1>3, <2>7 DEF CompleteRun
    <3>2. /\ DOMAIN runs' = DOMAIN runs
          /\ \A i \in DOMAIN runs : /\ runs'[i].role = runs[i].role
                                    /\ runs'[i].epoch = runs[i].epoch
                                    /\ i # c => runs'[i].status = runs[i].status
          /\ runs'[c].status # "succeeded"
      BY <2>2, <2>4, <2>7, <3>1 DEF Run
    <3>3. StepsDone' = StepsDone
      BY <2>1, <2>2, <3>2 DEF StepsDone
    <3>4. QED BY <3>1, <3>3
  <2>8. QED BY <2>5, <2>6, <2>7
<1>4. CASE \A w \in Worker : ~CompleteRun(w) /\ ~ResetStatus(w)
  BY <1>1, <1>4, Writers
<1>5. QED BY <1>2, <1>3, <1>4

LEMMA MatchStep ==
  ASSUME Typed, Exclusion, Currency, InProgress, StatusMatchesRuns, [Next]_vars
  PROVE  StatusMatchesRuns'
<1>1. CASE UNCHANGED vars
  BY <1>1 DEF vars, db, StatusMatchesRuns, StepsDone
<1>2. CASE Next
  <2> USE DEF StatusMatchesRuns, Before
  <2>1. CASE UNCHANGED <<status, StepsDone>>
    BY <2>1
  <2>2. CASE /\ status \in Diagnosing \ StepsDone
             /\ status' = NextStatus[status] /\ StepsDone' = StepsDone \cup {status}
    <3>1. status \notin Terminal
      BY <2>2 DEF Diagnosing, Terminal
    <3>2. StepsDone = Before(status) /\ Before(status') = Before(status) \cup {status}
      BY <2>2, <3>1, Chain
    <3>3. QED BY <2>2, <3>2
  <2>3. CASE status' = "failed"
    BY <2>3 DEF Terminal
  <2>4. CASE status' = "received" /\ StepsDone' = {}
    BY <2>4, Chain
  <2>5. CASE Pipeline /\ StepsDone' = StepsDone
    <3>1. /\ status \in {"awaiting_approval", "approved", "executing"}
          /\ status' \in {"approved", "executing"} \cup Terminal
      BY <2>5 DEF Pipeline, Decide, BeginExecution, EndExecution, Terminal
    <3>2. StepsDone = Diagnosing
      BY <3>1, Chain DEF Terminal
    <3>3. QED BY <2>5, <3>1, <3>2, Chain
  <2>6. QED BY <1>2, <2>1, <2>2, <2>3, <2>4, <2>5, Shown
<1>3. QED BY <1>1, <1>2

LEMMA AlwaysInStep == Spec => [](Typed /\ Exclusion /\ Currency /\ InProgress /\ StatusMatchesRuns)
<1>1. Init => InProgress /\ StatusMatchesRuns
  <2> SUFFICES ASSUME Init PROVE InProgress /\ StatusMatchesRuns
    OBVIOUS
  <2>1. DOMAIN runs = {} /\ status = "received"
    BY DEF Init
  <2>2. StepsDone = {}
    BY <2>1 DEF StepsDone
  <2>3. QED BY <2>1, <2>2, Chain DEF Init, InProgress, Running, StatusMatchesRuns, Before
<1>2. QED BY <1>1, AlwaysCurrent, InProgressStep, MatchStep, PTL DEF Spec

\* CompleteRun moves a run and the incident in one transaction: a role has a succeeded
\* run of this epoch exactly when the incident has advanced past it, at every instant,
\* for any number of requests, reanalyses and crashes (aiops/run.go).
THEOREM StatusAndRunsAgree == Spec => []StatusMatchesRuns
BY AlwaysInStep, PTL

\* The workflow implements the lifecycle the console shows: every statement of every
\* request is one step of IncidentLifecycle, or shows nothing (aiops/workflow.go).
THEOREM ImplementsLifecycle == Spec => RefinesLifecycle
<1>1. Init => Lifecycle!LifecycleInit
  <2> SUFFICES ASSUME Init PROVE status = "received" /\ StepsDone = {}
    BY DEF Lifecycle!LifecycleInit
  <2>1. QED BY DEF Init, StepsDone
<1>2. ASSUME Typed, Exclusion, Currency, InProgress, StatusMatchesRuns, [Next]_vars
      PROVE  [Lifecycle!LifecycleNext]_(Lifecycle!view)
  <2> USE DEF Lifecycle!LifecycleNext, Lifecycle!view
  <2>1. CASE UNCHANGED vars
    <3>1. UNCHANGED <<status, StepsDone>>
      BY <2>1 DEF vars, db, StepsDone
    <3>2. QED BY <3>1
  <2>2. CASE Pipeline /\ StepsDone' = StepsDone
    <3>0. status \in {"awaiting_approval", "approved", "executing"}
      BY <2>2 DEF Pipeline, Decide, BeginExecution, EndExecution
    <3>1. StepsDone = Diagnosing
      BY <1>2, <3>0, Chain DEF Terminal, StatusMatchesRuns, Before
    <3>2. CASE status' = "failed"
      BY <2>2, <3>2 DEF Pipeline, Decide, BeginExecution, EndExecution, Lifecycle!Fail,
           Lifecycle!Diagnosing
    <3>3. CASE status' # "failed"
      BY <2>2, <3>1, <3>3 DEF Pipeline, Decide, BeginExecution, EndExecution, Lifecycle!Settle,
           Lifecycle!Diagnosing, Diagnosing
    <3>4. QED BY <3>2, <3>3
  <2>3. CASE status \in Diagnosing \ StepsDone
             /\ status' = NextStatus[status] /\ StepsDone' = StepsDone \cup {status}
    BY <2>3 DEF Lifecycle!Advance, Lifecycle!Diagnosing, Diagnosing, Lifecycle!NextStatus, NextStatus
  <2>4. CASE status \in Diagnosing /\ status' = "failed" /\ StepsDone' = StepsDone
    BY <2>4 DEF Lifecycle!Fail, Lifecycle!Diagnosing, Diagnosing
  <2>5. CASE status \in Terminal /\ status' = "received" /\ StepsDone' = {}
    BY <2>5 DEF Lifecycle!Restart, Lifecycle!Terminal, Terminal
  <2>6. CASE Next
    BY <1>2, <2>2, <2>3, <2>4, <2>5, <2>6, Shown
  <2>7. QED BY <1>2, <2>1, <2>6
<1>3. QED BY <1>1, <1>2, AlwaysInStep, PTL DEF Spec, RefinesLifecycle, Lifecycle!LifecycleSpec

-----------------------------------------------------------------------------
(* The numbers of the attempts *)

\* The rows are numbered, and the driver about to insert one has the next number:
\* nobody else has inserted a run since its NextAttempt.
Numbered ==
  /\ AttemptsAreConsecutive
  /\ \A w \in Worker : pc[w] = "create" =>
       /\ \A a \in AttemptsOf(RoleOf(w)) : a < req[w].attempt
       /\ req[w].attempt # 1 => req[w].attempt - 1 \in AttemptsOf(RoleOf(w))

\* The new row of a CreateRun; every other step leaves the rows and their numbers, only
\* BuildPrompt records a basis, and a failed read stays on record.
LEMMA RunNumbers ==
  ASSUME Typed, Next
  PROVE  \/ \E w \in Worker :
              /\ CreateRun(w) /\ DOMAIN runs' = DOMAIN runs \cup {Len(runs) + 1}
              /\ \A i \in DOMAIN runs : runs'[i] = runs[i]
              /\ runs'[Len(runs) + 1] = NewRun(w)
         \/ /\ \A w \in Worker : ~CreateRun(w)
            /\ DOMAIN runs' = DOMAIN runs
            /\ \A i \in DOMAIN runs :
                 /\ runs'[i].role = runs[i].role /\ runs'[i].attempt = runs[i].attempt
                 /\ runs'[i].basis = runs[i].basis
                      \/ \E w \in Worker : BuildPrompt(w) /\ i = req[w].cur
                 /\ runs[i].blind => runs'[i].blind
<1> USE DEF Typed, TypeOK
<1>0. DOMAIN runs = 1..Len(runs) /\ Len(runs) \in Nat /\ \A i \in DOMAIN runs : runs[i] \in Run
  BY LenProperties, RowsTyped
<1>1. ASSUME NEW w \in Worker, CreateRun(w)
      PROVE  /\ DOMAIN runs' = DOMAIN runs \cup {Len(runs) + 1}
             /\ \A i \in DOMAIN runs : runs'[i] = runs[i]
             /\ runs'[Len(runs) + 1] = NewRun(w)
  <2>1. NewRun(w) \in Run
    BY <1>1, StepTables DEF CreateRun, NewRun, RoleOf, DriverKnowsRole, Deciding, Memory, Run, RunStatus
  <2>2. QED BY <1>0, <1>1, <2>1, AppendProperties DEF CreateRun
<1>2. ASSUME NEW w \in Worker, BuildPrompt(w)
      PROVE  /\ DOMAIN runs' = DOMAIN runs
             /\ \A i \in DOMAIN runs : /\ runs'[i].role = runs[i].role
                                       /\ runs'[i].attempt = runs[i].attempt
                                       /\ i # req[w].cur => runs'[i].basis = runs[i].basis
                                       /\ runs'[i].blind = runs[i].blind
  <2>1. PICK b \in 0..Len(runs) : runs' = [runs EXCEPT ![req[w].cur].basis = b]
    BY <1>2 DEF BuildPrompt
  <2>2. QED BY <1>0, <2>1 DEF Run
<1>3. ASSUME NEW w \in Worker, CompleteRun(w)
      PROVE  /\ DOMAIN runs' = DOMAIN runs
             /\ \A i \in DOMAIN runs : /\ runs'[i].role = runs[i].role
                                       /\ runs'[i].attempt = runs[i].attempt
                                       /\ runs'[i].basis = runs[i].basis
                                       /\ runs'[i].blind = runs[i].blind
  <2>1. CASE runs' = runs
    BY <2>1
  <2>2. CASE runs' = [runs EXCEPT ![req[w].cur].status = req[w].outcome]
    BY <1>0, <2>2 DEF Run
  <2>3. QED BY <1>3, <2>1, <2>2 DEF CompleteRun
<1>4. CASE \E w \in Worker : CreateRun(w)
  BY <1>1, <1>4
<1>5. ASSUME NEW w \in Worker, ListRunsFails(w) \/ CompleteRunFails(w)
      PROVE  /\ DOMAIN runs' = DOMAIN runs
             /\ \A i \in DOMAIN runs : /\ runs'[i].role = runs[i].role
                                       /\ runs'[i].attempt = runs[i].attempt
                                       /\ runs'[i].basis = runs[i].basis
                                       /\ runs[i].blind => runs'[i].blind
  <2>1. CASE runs' = [runs EXCEPT ![req[w].cur].blind = TRUE]
    BY <1>0, <2>1 DEF Run
  <2>2. CASE runs' = [runs EXCEPT ![req[w].cur].uncommitted = TRUE]
    BY <1>0, <2>2 DEF Run
  <2>3. QED BY <1>5, <2>1, <2>2 DEF ListRunsFails, CompleteRunFails
<1>6. CASE \A w \in Worker : ~CreateRun(w)
  BY <1>2, <1>3, <1>5, <1>6, Writers
<1>7. QED BY <1>4, <1>6

\* A request comes to its CreateRun by NextAttempt, and keeps the number it has.
LEMMA NumberIsAsked ==
  ASSUME Typed, Next, NEW w \in Worker, pc'[w] = "create"
  PROVE  \/ NextAttempt(w)
         \/ pc[w] = "create" /\ req'[w] = req[w]
<1> USE DEF Typed, TypeOK, Goto, Return
<1>1. ASSUME NEW v \in Worker, v # w, Step(v) \/ Fails(v) \/ Request(v) \/ Cancel(v)
      PROVE  pc'[w] = pc[w] /\ req'[w] = req[w]
  BY <1>1 DEF Step, Request, Finish, acquireLock, releaseLock, checkReanalyze,
      emitReanalyze, DeleteIncidentEvidence, ResetStatus, GetIncident, ReadIncident,
      ReloadIncident, emitUpdated, NextAttempt, CreateRun, emitStarted, skipModelUnavailable,
      DeterministicTriage, BuildPrompt, Collect, CollectFails, StoreRow, StoreFails, Stored,
      ModelReplies, CompleteRun, emitCompleted, RequestRun, RequestReanalyze, Cancel, Fails, LockFails,
      StatementFails, EmitFails, AfterEmit, ListRunsFails, CompleteRunFails
<1>2. ASSUME Step(w) \/ Fails(w) \/ Request(w) \/ Cancel(w) PROVE NextAttempt(w)
  BY <1>2 DEF Step, Request, Finish, acquireLock, releaseLock, checkReanalyze,
      emitReanalyze, DeleteIncidentEvidence, ResetStatus, GetIncident,
      ReloadIncident, emitUpdated, CreateRun, emitStarted, skipModelUnavailable,
      DeterministicTriage, BuildPrompt, Collect, CollectFails, StoreRow, StoreFails, Stored,
      ModelReplies, CompleteRun, emitCompleted, RequestRun, RequestReanalyze, Cancel, Fails, LockFails,
      StatementFails, EmitFails, AfterEmit, ListRunsFails, CompleteRunFails
<1>3. ASSUME Crash PROVE FALSE
  BY <1>3 DEF Crash
<1>4. Pipeline => UNCHANGED <<pc, req>>
  BY DEF Pipeline, Decide, BeginExecution, EndExecution
<1>5. QED BY <1>1, <1>2, <1>3, <1>4 DEF Next

LEMMA NumberedStep == Typed /\ Exclusion /\ Numbered /\ [Next]_vars => Numbered'
<1> SUFFICES ASSUME Typed, Exclusion, Numbered, [Next]_vars PROVE Numbered'
  OBVIOUS
<1>0. DOMAIN runs = 1..Len(runs) /\ Len(runs) \in Nat
  BY LenProperties DEF Typed, TypeOK
<1>1. CASE UNCHANGED vars
  BY <1>1 DEF vars, db, Numbered, AttemptsAreConsecutive, AttemptsOf, RoleOf
<1>2. ASSUME Next, NEW w \in Worker, CreateRun(w),
             DOMAIN runs' = DOMAIN runs \cup {Len(runs) + 1},
             \A i \in DOMAIN runs : runs'[i] = runs[i],
             runs'[Len(runs) + 1] = NewRun(w)
      PROVE  Numbered'
  <2>1. pc[w] = "create" /\ pc' = [pc EXCEPT ![w] = "emitStarted"]
    BY <1>2 DEF CreateRun, Goto
  <2>2. \A v \in Worker : pc'[v] # "create"
    BY <2>1 DEF Exclusion, SingleDriver, Locked, Deciding, Typed, TypeOK
  <2>3. AttemptsAreConsecutive'
    <3>1. ASSUME NEW i \in DOMAIN runs
          PROVE  /\ \A j \in 1..(i - 1) :
                      runs'[j].role = runs'[i].role => runs'[j].attempt < runs'[i].attempt
                 /\ runs'[i].attempt # 1 =>
                      \E j \in 1..(i - 1) : /\ runs'[j].role = runs'[i].role
                                            /\ runs'[j].attempt = runs'[i].attempt - 1
      <4>1. i \in 1..Len(runs) /\ \A j \in 1..(i - 1) : j \in DOMAIN runs /\ runs'[j] = runs[j]
        BY <1>0, <1>2, <3>1
      <4>2. QED BY <1>2, <3>1, <4>1 DEF Numbered, AttemptsAreConsecutive
    <3>2. /\ \A j \in 1..Len(runs) :
               runs'[j].role = RoleOf(w) => runs'[j].attempt < req[w].attempt
          /\ req[w].attempt # 1 =>
               \E j \in 1..Len(runs) : /\ runs'[j].role = RoleOf(w)
                                       /\ runs'[j].attempt = req[w].attempt - 1
      BY <1>0, <1>2, <2>1 DEF Numbered, AttemptsOf
    <3>3. Len(runs) + 1 - 1 = Len(runs)
      BY <1>0
    <3>4. NewRun(w).role = RoleOf(w) /\ NewRun(w).attempt = req[w].attempt
      BY DEF NewRun
    <3>5. QED BY <1>2, <3>1, <3>2, <3>3, <3>4 DEF AttemptsAreConsecutive
  <2>4. QED BY <2>2, <2>3 DEF Numbered
<1>3. ASSUME Next, DOMAIN runs' = DOMAIN runs,
             \A i \in DOMAIN runs : runs'[i].role = runs[i].role /\ runs'[i].attempt = runs[i].attempt
      PROVE  Numbered'
  <2>1. AttemptsAreConsecutive'
    <3>1. ASSUME NEW i \in DOMAIN runs
          PROVE  i \in DOMAIN runs /\ 1..(i - 1) \subseteq DOMAIN runs
      BY <1>0, <3>1
    <3>2. QED BY <1>3, <3>1 DEF Numbered, AttemptsAreConsecutive
  <2>2. \A r : AttemptsOf(r)' = AttemptsOf(r)
    BY <1>3 DEF AttemptsOf
  <2>3. ASSUME NEW w \in Worker, pc'[w] = "create"
        PROVE  /\ \A a \in AttemptsOf(RoleOf(w)') : a < req'[w].attempt
               /\ req'[w].attempt # 1 => req'[w].attempt - 1 \in AttemptsOf(RoleOf(w)')
    <3>1. CASE NextAttempt(w)
      <4>1. PICK n \in 1..(Len(runs) + 1) :
              /\ n - 1 \in AttemptsOf(RoleOf(w)) \cup {0}
              /\ \A a \in AttemptsOf(RoleOf(w)) : a < n
              /\ req' = [req EXCEPT ![w].attempt = n]
        BY <3>1 DEF NextAttempt
      <4>2. req'[w].attempt = n /\ RoleOf(w)' = RoleOf(w)
        BY <4>1 DEF RoleOf, Typed, TypeOK, Memory
      <4>3. QED BY <1>0, <4>1, <4>2
    <3>2. CASE pc[w] = "create" /\ req'[w] = req[w]
      BY <3>2 DEF Numbered, RoleOf
    <3>3. QED BY <1>3, <2>3, <3>1, <3>2, NumberIsAsked
  <2>4. QED BY <2>1, <2>2, <2>3 DEF Numbered
<1>4. QED BY <1>1, <1>2, <1>3, RunNumbers

\* The runs of a role are numbered 1, 2, 3, ... in the order of their rows, for any number
\* of requests, reanalyses, cancellations and crashes, although NextAttempt and CreateRun
\* are two statements (aiops/run.go): between them nobody else holds the lock.
THEOREM AttemptsAreNumbered == Spec => []AttemptsAreConsecutive
<1>1. Init => Numbered
  BY DEF Init, Numbered, AttemptsAreConsecutive
<1>2. Numbered => AttemptsAreConsecutive
  BY DEF Numbered
<1>3. QED BY <1>1, <1>2, NumberedStep, AlwaysInStep, PTL DEF Spec

-----------------------------------------------------------------------------
(* The inputs of the prompts *)

\* The roles whose prompt is built from an earlier output, and the role it is of.
Derived == {"remediation", "risk_review"}
InputOf == [r \in Derived |-> IF r = "remediation" THEN "root_cause" ELSE "remediation"]

\* The request has built a derived prompt, and has no worse than a reply to it.
Answering(w) ==
  /\ RoleOf(w) \in Derived
  /\ pc[w] = "prompt" \/ (pc[w] = "complete" /\ req[w].outcome = "succeeded")

\* With BasisIsCurrent: the rows lie in the order of their epochs, a basis is a row, and
\* the prompt being answered has one or was built blind.  What is stored is the collector's.
Based ==
  /\ BasisIsCurrent
  /\ \A i, j \in DOMAIN runs : i <= j => runs[i].epoch <= runs[j].epoch
  /\ \A i \in DOMAIN runs : runs[i].basis \in DOMAIN runs \cup {0}
  /\ \A w \in Worker : /\ Answering(w) => \/ runs[req[w].cur].basis # 0
                                          \/ runs[req[w].cur].blind
                       /\ pc[w] = "store" => RoleOf(w) = "collector"

LEMMA PromptIsBuilt ==
  ASSUME Typed, Next, NEW w \in Worker, pc[w] = "store" => RoleOf(w) = "collector"
  PROVE  /\ Answering(w)' => \/ BuildPrompt(w) \/ ListRunsFails(w)
                             \/ Answering(w) /\ req'[w].cur = req[w].cur
         /\ pc'[w] = "store" => RoleOf(w)' = "collector"
<1> USE DEF Typed, TypeOK, Goto, Return
<1>1. ASSUME NEW v \in Worker, v # w, Step(v) \/ Fails(v) \/ Request(v) \/ Cancel(v)
      PROVE  pc'[w] = pc[w] /\ req'[w] = req[w]
  BY <1>1 DEF Step, Request, Finish, acquireLock, releaseLock, checkReanalyze,
      emitReanalyze, DeleteIncidentEvidence, ResetStatus, GetIncident, ReadIncident,
      ReloadIncident, emitUpdated, NextAttempt, CreateRun, emitStarted, skipModelUnavailable,
      DeterministicTriage, BuildPrompt, Collect, CollectFails, StoreRow, StoreFails, Stored,
      ModelReplies, CompleteRun, emitCompleted, RequestRun, RequestReanalyze, Cancel, Fails, LockFails,
      StatementFails, EmitFails, AfterEmit, ListRunsFails, CompleteRunFails
<1>2. ASSUME Step(w) \/ Fails(w) \/ Request(w) \/ Cancel(w)
      PROVE  \/ pc'[w] \notin {"prompt", "complete", "store"}
             \/ req'[w].cur = req[w].cur /\ RoleOf(w)' = RoleOf(w)
  <2>1. CASE \/ skipModelUnavailable(w) \/ DeterministicTriage(w) \/ BuildPrompt(w)
             \/ Collect(w) \/ CollectFails(w) \/ StoreRow(w) \/ StoreFails(w) \/ Stored(w)
             \/ ModelReplies(w)
    <3>1. req'[w].cur = req[w].cur /\ req'[w].seen = req[w].seen
      BY <2>1 DEF skipModelUnavailable, DeterministicTriage, BuildPrompt, Collect,
           CollectFails, StoreRow, StoreFails, Stored, ModelReplies, Finish, Memory
    <3>2. QED BY <3>1 DEF RoleOf
  <2>2. CASE \/ acquireLock(w) \/ releaseLock(w) \/ checkReanalyze(w) \/ emitReanalyze(w)
             \/ DeleteIncidentEvidence(w) \/ ResetStatus(w) \/ GetIncident(w)
             \/ ReloadIncident(w) \/ emitUpdated(w) \/ NextAttempt(w) \/ CreateRun(w)
             \/ emitStarted(w) \/ CompleteRun(w) \/ emitCompleted(w)
             \/ Request(w) \/ Cancel(w)
    BY <2>2 DEF acquireLock, releaseLock, checkReanalyze, emitReanalyze,
         DeleteIncidentEvidence, ResetStatus, GetIncident, ReloadIncident, emitUpdated,
         NextAttempt, CreateRun, emitStarted, CompleteRun, emitCompleted, Request, RequestRun,
         RequestReanalyze, Cancel
  <2>3. CASE Fails(w)
    BY <2>3 DEF Fails, LockFails, StatementFails, EmitFails, AfterEmit, ListRunsFails,
         CompleteRunFails, RoleOf
  <2>4. QED BY <1>2, <2>1, <2>2, <2>3 DEF Step
<1>3. ASSUME Step(w) \/ Fails(w) \/ Request(w) \/ Cancel(w), pc'[w] \in {"prompt", "complete", "store"}
      PROVE  \/ (BuildPrompt(w) \/ ListRunsFails(w)) /\ pc'[w] = "prompt"
             \/ Collect(w) /\ pc'[w] = "store"
             \/ pc[w] = "store"
             \/ pc[w] = "prompt"
             \/ RoleOf(w) \in {"collector", "triage"} /\ pc'[w] = "complete"
             \/ pc'[w] = "complete" /\ req'[w].outcome # "succeeded"
  <2>1. CASE Step(w)
    <3>1. CASE skipModelUnavailable(w) \/ CollectFails(w) \/ StoreFails(w)
      BY <3>1 DEF skipModelUnavailable, CollectFails, StoreFails, Finish, Memory
    <3>2. CASE ~(skipModelUnavailable(w) \/ CollectFails(w) \/ StoreFails(w))
      BY <1>3, <2>1, <3>2 DEF Step, Finish, acquireLock, releaseLock, checkReanalyze,
        emitReanalyze, DeleteIncidentEvidence, ResetStatus, GetIncident,
        ReloadIncident, emitUpdated, NextAttempt, CreateRun, emitStarted,
        DeterministicTriage, BuildPrompt, Collect, StoreRow, Stored,
        ModelReplies, CompleteRun, emitCompleted
    <3>3. QED BY <3>1, <3>2
  <2>2. CASE Request(w) \/ Cancel(w)
    BY <1>3, <2>2 DEF Request, RequestRun, RequestReanalyze, Cancel
  <2>3. CASE Fails(w)
    BY <1>3, <2>3 DEF Fails, LockFails, StatementFails, EmitFails, AfterEmit, ListRunsFails,
         CompleteRunFails
  <2>4. QED BY <1>3, <2>1, <2>2, <2>3
<1>4. ASSUME Step(w) \/ Fails(w) \/ Request(w) \/ Cancel(w), pc[w] = "prompt", pc'[w] = "store"
      PROVE  FALSE
  BY <1>4 DEF Step, Request, Finish, acquireLock, releaseLock, checkReanalyze,
      emitReanalyze, DeleteIncidentEvidence, ResetStatus, GetIncident,
      ReloadIncident, emitUpdated, NextAttempt, CreateRun, emitStarted, skipModelUnavailable,
      DeterministicTriage, BuildPrompt, Collect, CollectFails, StoreRow, StoreFails, Stored,
      ModelReplies, CompleteRun, emitCompleted, RequestRun, RequestReanalyze, Cancel, Fails, LockFails,
      StatementFails, EmitFails, AfterEmit, ListRunsFails, CompleteRunFails
<1>5. ASSUME Step(w) \/ Fails(w) \/ Request(w) \/ Cancel(w)
      PROVE  /\ Answering(w)' => \/ BuildPrompt(w) \/ ListRunsFails(w)
                                 \/ Answering(w) /\ req'[w].cur = req[w].cur
             /\ pc'[w] = "store" => RoleOf(w)' = "collector"
  <2>1. Collect(w) => RoleOf(w) = "collector"
    BY DEF Collect
  <2>2. QED BY <1>2, <1>3, <1>4, <1>5, <2>1 DEF Answering, Derived
<1>6. ASSUME Crash PROVE pc'[w] = "idle"
  BY <1>6 DEF Crash
<1>7. Pipeline => UNCHANGED <<pc, req>>
  BY DEF Pipeline, Decide, BeginExecution, EndExecution
<1>8. CASE pc'[w] = pc[w] /\ req'[w] = req[w]
  BY <1>8 DEF Answering, RoleOf
<1>9. QED BY <1>1, <1>5, <1>6, <1>7, <1>8 DEF Next, Answering

\* The last succeeded run of the role before is of this epoch: that step is done, and
\* rows lie in the order of their epochs.
LEMMA LatestIsCurrent ==
  ASSUME Typed, Currency, InProgress, StatusMatchesRuns, Based,
         NEW w \in Worker, pc[w] = "execute", RoleOf(w) \in Derived,
         NEW b \in 0..Len(runs), IsBasis(b, RoleOf(w))
  PROVE  b \in DOMAIN runs /\ runs[b].epoch = epoch /\ runs[b].status = "succeeded"
<1> DEFINE src == InputOf[RoleOf(w)]
<1>0. /\ DOMAIN runs = 1..Len(runs) /\ Len(runs) \in Nat /\ epoch \in Nat
      /\ \A i \in DOMAIN runs : runs[i].epoch \in Nat
  BY LenProperties, RowsTyped DEF Typed, TypeOK
<1>1. req[w].seen \in Diagnosing /\ req[w].seen = status
  BY DEF Typed, DriverKnowsRole, Currency, Deciding
<1>2. IsLatestSucceeded(b, src)
  BY DEF IsBasis, InputOf, Derived
<1>3. \E s \in Diagnosing : Rank(s) < Rank(status) /\ StepRole[s] = src
  <2>1. status \in {"proposing", "analyzing", "collecting", "triaging", "received"}
    BY <1>1 DEF Diagnosing
  <2>2. CASE RoleOf(w) = "remediation"
    BY <1>1, <2>2 DEF RoleOf, StepRole, Diagnosing, Rank, InputOf, Derived
  <2>3. CASE RoleOf(w) = "risk_review"
    BY <1>1, <2>3 DEF RoleOf, StepRole, Diagnosing, Rank, InputOf, Derived
  <2>4. QED BY <2>2, <2>3 DEF Derived
<1>4. status \notin Terminal
  BY <1>1 DEF Diagnosing, Terminal
<1>5. PICK k \in DOMAIN runs : /\ runs[k].role = src /\ runs[k].status = "succeeded"
                               /\ runs[k].epoch = epoch
  BY <1>3, <1>4 DEF StatusMatchesRuns, StepsDone
<1>6. k <= b /\ b \in SucceededRuns(src)
  BY <1>0, <1>2, <1>5 DEF IsLatestSucceeded, SucceededRuns
<1>7. b \in DOMAIN runs /\ runs[b].status = "succeeded"
  BY <1>6 DEF SucceededRuns
<1>8. epoch <= runs[b].epoch /\ runs[b].epoch <= epoch
  BY <1>5, <1>6, <1>7 DEF Based, InProgress
<1>9. QED BY <1>0, <1>7, <1>8

LEMMA BasedStep ==
  Typed /\ Exclusion /\ Currency /\ InProgress /\ StatusMatchesRuns /\ Based /\ [Next]_vars => Based'
<1> SUFFICES ASSUME Typed, Exclusion, Currency, InProgress, StatusMatchesRuns, Based, [Next]_vars
             PROVE  Based'
  OBVIOUS
<1> DEFINE Input(i) == /\ runs[i].basis \in DOMAIN runs \cup {0}
                       /\ runs[i].basis # 0 => /\ runs[runs[i].basis].epoch = runs[i].epoch
                                               /\ runs[runs[i].basis].status = "succeeded"
                       /\ runs[i].status = "succeeded" /\ runs[i].role \in Derived
                            => runs[i].basis # 0 \/ runs[i].blind
           Ordered == \A i, j \in DOMAIN runs : i <= j => runs[i].epoch <= runs[j].epoch
           Prompts == \A w \in Worker : /\ Answering(w) => \/ runs[req[w].cur].basis # 0
                                                           \/ runs[req[w].cur].blind
                                        /\ pc[w] = "store" => RoleOf(w) = "collector"
<1>0. /\ DOMAIN runs = 1..Len(runs) /\ Len(runs) \in Nat /\ epoch \in Nat
      /\ \A i \in DOMAIN runs : runs[i] \in Run /\ runs[i].epoch \in Nat
  BY LenProperties, RowsTyped DEF Typed, TypeOK
<1>1. Based <=> (\A i \in DOMAIN runs : Input(i)) /\ Ordered /\ Prompts
  BY DEF Based, BasisIsCurrent, Derived
<1>2. Based' <=> (\A i \in DOMAIN runs' : Input(i)') /\ Ordered' /\ Prompts'
  BY DEF Based, BasisIsCurrent, Derived
<1>3. CASE UNCHANGED vars
  BY <1>3 DEF vars, db, Based, BasisIsCurrent, Answering, RoleOf
<1>4. CASE Next
  \* What a driver is answering is in progress; it keeps its basis, or is given one.
  <2>1. ASSUME NEW w \in Worker, Answering(w)
        PROVE  req[w].cur \in DOMAIN runs
    BY <2>1 DEF Answering, InProgress, Running
  <2>2. \A w \in Worker : pc'[w] = "store" => RoleOf(w)' = "collector"
    BY <1>4, PromptIsBuilt DEF Based
  <2>3. ASSUME NEW w \in Worker, CreateRun(w),
               DOMAIN runs' = DOMAIN runs \cup {Len(runs) + 1},
               \A i \in DOMAIN runs : runs'[i] = runs[i],
               runs'[Len(runs) + 1] = NewRun(w)
        PROVE  Based'
    <3>0. NewRun(w).basis = 0 /\ NewRun(w).status = "running" /\ NewRun(w).epoch = epoch
      BY DEF NewRun
    <3>1. \A i \in DOMAIN runs' : Input(i)'
      BY <1>0, <1>1, <2>3, <3>0
    <3>2. Ordered'
      BY <1>0, <1>1, <2>3, <3>0 DEF InProgress
    <3>3. ASSUME NEW v \in Worker, Answering(v)'
          PROVE  runs'[req'[v].cur].basis # 0 \/ runs'[req'[v].cur].blind
      <4>1. ~BuildPrompt(v) /\ ~ListRunsFails(v)
        BY <2>3 DEF BuildPrompt, ListRunsFails, CreateRun, Exclusion, SingleDriver, Locked, Deciding
      <4>2. Answering(v) /\ req'[v].cur = req[v].cur
        BY <1>4, <3>3, <4>1, PromptIsBuilt DEF Based
      <4>3. QED BY <1>1, <2>1, <2>3, <4>2
    <3>4. QED BY <1>2, <2>2, <3>1, <3>2, <3>3
  <2>4. ASSUME NEW w \in Worker, BuildPrompt(w) PROVE Based'
    <3> DEFINE c == req[w].cur
    <3>1. PICK b \in 0..Len(runs) :
            IsBasis(b, RoleOf(w)) /\ runs' = [runs EXCEPT ![c].basis = b]
      BY <2>4 DEF BuildPrompt
    <3>2. /\ pc[w] = "execute" /\ c \in DOMAIN runs /\ runs[c].role = RoleOf(w)
          /\ runs[c].status = "running" /\ runs[c].epoch = epoch
          /\ req' = req
      BY <2>4 DEF BuildPrompt, InProgress, Running
    <3>3. /\ DOMAIN runs' = DOMAIN runs
          /\ runs'[c].basis = b
          /\ \A i \in DOMAIN runs :
               /\ runs'[i].role = runs[i].role /\ runs'[i].epoch = runs[i].epoch
               /\ runs'[i].status = runs[i].status
               /\ i # c => runs'[i].basis = runs[i].basis
               /\ runs'[i].blind = runs[i].blind
      BY <1>0, <3>1, <3>2 DEF Run
    <3>4. IF RoleOf(w) \in Derived
          THEN b \in DOMAIN runs /\ runs[b].epoch = epoch /\ runs[b].status = "succeeded"
          ELSE b = 0
      <4>1. CASE RoleOf(w) \in Derived
        BY <3>1, <3>2, <4>1, LatestIsCurrent
      <4>2. CASE RoleOf(w) \notin Derived
        BY <3>1, <4>2 DEF IsBasis, Derived
      <4>3. QED BY <4>1, <4>2
    <3>5. Input(c)'
      BY <3>2, <3>3, <3>4
    <3>6. ASSUME NEW i \in DOMAIN runs, i # c PROVE Input(i)'
      BY <1>1, <3>3, <3>6
    <3>7. Ordered'
      BY <1>1, <3>3
    <3>8. ASSUME NEW v \in Worker, Answering(v)'
          PROVE  runs'[req'[v].cur].basis # 0 \/ runs'[req'[v].cur].blind
      <4>1. CASE v = w
        <5>1. RoleOf(w) \in Derived
          BY <3>2, <3>8, <4>1 DEF Answering, RoleOf
        <5>2. b # 0
          BY <1>0, <3>4, <5>1
        <5>3. QED BY <3>2, <3>3, <4>1, <5>2
      <4>2. CASE v # w
        <5>1. pc[v] \notin Locked
          BY <3>2, <4>2 DEF Exclusion, SingleDriver, Locked, Deciding
        <5>2. pc'[v] = pc[v]
          BY <2>4, <4>2 DEF BuildPrompt, Goto
        <5>3. QED BY <3>8, <5>1, <5>2 DEF Answering, Locked, Deciding
      <4>3. QED BY <4>1, <4>2
    <3>9. \A i \in DOMAIN runs' : Input(i)'
      <4>1. SUFFICES ASSUME NEW i \in DOMAIN runs PROVE Input(i)'
        BY <3>3
      <4>2. CASE i = c
        BY <3>2, <3>5, <4>2
      <4>3. QED BY <3>6, <4>2
    <3>10. Prompts'
      BY <2>2, <3>8
    <3>11. QED BY <1>2, <3>7, <3>9, <3>10
  <2>5. ASSUME \A w \in Worker : ~BuildPrompt(w), DOMAIN runs' = DOMAIN runs,
               \A i \in DOMAIN runs : /\ runs'[i].role = runs[i].role
                                      /\ runs'[i].basis = runs[i].basis
                                      /\ runs[i].blind => runs'[i].blind
        PROVE  Based'
    <3>1. \A i \in DOMAIN runs :
            /\ runs'[i].epoch = runs[i].epoch
            /\ runs'[i].status = runs[i].status \/ \E w \in Worker : CompleteRun(w) /\ i = req[w].cur
      BY <1>4, RunRows
    <3>2. \A i \in DOMAIN runs : runs[i].status = "succeeded" => runs'[i].status = "succeeded"
      BY <3>1 DEF CompleteRun, InProgress, Running
    <3>3. ASSUME NEW i \in DOMAIN runs, runs'[i].status = "succeeded", runs[i].role \in Derived
          PROVE  runs[i].basis # 0 \/ runs[i].blind
      <4>1. CASE runs'[i].status = runs[i].status
        BY <1>1, <3>3, <4>1
      <4>2. ASSUME NEW w \in Worker, CompleteRun(w), i = req[w].cur, runs'[i].status # runs[i].status
            PROVE  runs[i].basis # 0 \/ runs[i].blind
        <5>1. pc[w] = "complete" /\ runs[i].role = RoleOf(w)
          BY <4>2 DEF CompleteRun, InProgress, Running
        <5>2. runs' = [runs EXCEPT ![i].status = req[w].outcome]
          BY <4>2 DEF CompleteRun
        <5>3. req[w].outcome = "succeeded"
          BY <1>0, <3>3, <5>2 DEF Run
        <5>4. Answering(w)
          BY <3>3, <5>1, <5>3 DEF Answering
        <5>5. QED BY <1>1, <4>2, <5>4
      <4>3. QED BY <3>1, <4>1, <4>2
    <3>4. ASSUME NEW i \in DOMAIN runs PROVE Input(i)'
      <4>1. Input(i)
        BY <1>1
      <4>2. /\ runs'[i].basis = runs[i].basis /\ runs'[i].role = runs[i].role
            /\ runs'[i].epoch = runs[i].epoch
            /\ runs[i].blind => runs'[i].blind
        BY <2>5, <3>1, <3>4
      <4>3. /\ runs'[i].basis \in DOMAIN runs' \cup {0}
            /\ runs'[i].basis # 0 => /\ runs'[runs'[i].basis].epoch = runs'[i].epoch
                                     /\ runs'[runs'[i].basis].status = "succeeded"
        BY <2>5, <3>1, <3>2, <4>1, <4>2
      <4>4. runs'[i].status = "succeeded" /\ runs'[i].role \in Derived
              => runs'[i].basis # 0 \/ runs'[i].blind
        BY <3>3, <4>2, Zenon
      <4>5. QED BY <4>3, <4>4
    <3>5. Ordered'
      BY <1>1, <2>5, <3>1
    <3>6. ASSUME NEW v \in Worker, Answering(v)'
          PROVE  runs'[req'[v].cur].basis # 0 \/ runs'[req'[v].cur].blind
      <4>1. CASE Answering(v) /\ req'[v].cur = req[v].cur
        <5>1. req[v].cur \in DOMAIN runs /\ (runs[req[v].cur].basis # 0 \/ runs[req[v].cur].blind)
          BY <1>1, <2>1, <4>1
        <5>2. QED BY <2>5, <4>1, <5>1
      <4>2. CASE ListRunsFails(v)
        <5>1. req[v].cur \in DOMAIN runs
          BY <4>2 DEF ListRunsFails, InProgress, Running
        <5>2. runs'[req[v].cur].blind /\ req' = req
          BY <1>0, <4>2, <5>1 DEF ListRunsFails, Run
        <5>3. QED BY <5>2
      <4>3. QED BY <1>4, <2>5, <3>6, <4>1, <4>2, PromptIsBuilt DEF Based
    <3>7. QED BY <1>2, <2>2, <2>5, <3>4, <3>5, <3>6
  <2>6. QED BY <1>4, <2>3, <2>4, <2>5, RunNumbers
<1>5. QED BY <1>3, <1>4

\* A plan is proposed from a root cause, and a risk review made of a plan, of the same
\* analysis, however often the incident was reanalyzed before: latestRootCause and
\* latestRemediation take the last succeeded row and ask for no epoch (aiops/workflow.go).
\* A plan or a review without one comes of a ListRuns that failed, and of nothing else.
THEOREM BasisOfThisEpoch == Spec => []BasisIsCurrent
<1>1. Init => Based
  BY DEF Init, Based, BasisIsCurrent, Answering
<1>2. Based => BasisIsCurrent
  BY DEF Based
<1>3. QED BY <1>1, <1>2, BasedStep, AlwaysInStep, PTL DEF Spec

-----------------------------------------------------------------------------
(* The event log *)

\* The driver's run has not been reported on.
Unreported(w) == \A j \in DOMAIN events :
                   events[j].type = "run_completed" => events[j].run # req[w].cur

\* With EventLogIsFaithful: a report is of a run, and nothing is said of it before its
\* driver comes to emitCompleted, where the row and run.Status in memory say the same
\* unless the row was not committed.
Logged ==
  /\ EventLogIsFaithful
  /\ \A i \in DOMAIN events :
       /\ events[i].run \in DOMAIN runs \cup {0}
       /\ events[i].type = "run_completed" =>
            events[i].run \in DOMAIN runs /\ events[i].status # "running"
  /\ \A w \in Worker :
       /\ pc[w] \in Running \cup {"emitCompleted"} => Unreported(w)
       /\ pc[w] = "complete" => req[w].outcome # "running"
       /\ pc[w] = "emitCompleted" =>
            /\ req[w].cur \in DOMAIN runs /\ req[w].outcome # "running"
            /\ runs[req[w].cur].status =
                 IF runs[req[w].cur].uncommitted THEN "running" ELSE req[w].outcome

\* A request comes to emitCompleted by CompleteRun, done or failed, with the outcome in
\* memory that it had decided on.
LEMMA ReportIsDue ==
  ASSUME Typed, Next, NEW w \in Worker
  PROVE  /\ pc'[w] = "complete" =>
              \/ req'[w].outcome # "running"
              \/ pc[w] = "complete" /\ req'[w].outcome = req[w].outcome
         /\ pc'[w] = "emitCompleted" =>
              \/ /\ CompleteRun(w) \/ CompleteRunFails(w)
                 /\ req'[w].outcome = req[w].outcome /\ req'[w].cur = req[w].cur
              \/ pc[w] = "emitCompleted" /\ req'[w] = req[w]
<1> USE DEF Typed, TypeOK, Goto, Return
<1>1. ASSUME NEW v \in Worker, v # w, Step(v) \/ Fails(v) \/ Request(v) \/ Cancel(v)
      PROVE  pc'[w] = pc[w] /\ req'[w] = req[w]
  BY <1>1 DEF Step, Request, Finish, acquireLock, releaseLock, checkReanalyze,
      emitReanalyze, DeleteIncidentEvidence, ResetStatus, GetIncident, ReadIncident,
      ReloadIncident, emitUpdated, NextAttempt, CreateRun, emitStarted, skipModelUnavailable,
      DeterministicTriage, BuildPrompt, Collect, CollectFails, StoreRow, StoreFails, Stored,
      ModelReplies, CompleteRun, emitCompleted, RequestRun, RequestReanalyze, Cancel, Fails, LockFails,
      StatementFails, EmitFails, AfterEmit, ListRunsFails, CompleteRunFails
<1>2. CASE \/ skipModelUnavailable(w) \/ DeterministicTriage(w) \/ CollectFails(w)
           \/ StoreFails(w) \/ ModelReplies(w) \/ (Stored(w) /\ ~model)
  <2>1. PICK st \in {"skipped", "succeeded", "failed"} : Finish(w, st)
    BY <1>2 DEF skipModelUnavailable, DeterministicTriage, CollectFails, StoreFails,
         ModelReplies, Stored
  <2>2. pc'[w] = "complete" /\ req'[w].outcome = st
    BY <2>1 DEF Finish, Memory
  <2>3. QED BY <2>2
<1>3. CASE \/ emitStarted(w) \/ BuildPrompt(w) \/ (Stored(w) /\ model) \/ Collect(w)
           \/ StoreRow(w)
  BY <1>3 DEF emitStarted, BuildPrompt, Stored, Collect, StoreRow
<1>4. CASE CompleteRun(w) \/ CompleteRunFails(w)
  BY <1>4 DEF CompleteRun, CompleteRunFails, Memory
<1>5. CASE \/ acquireLock(w) \/ releaseLock(w) \/ checkReanalyze(w) \/ emitReanalyze(w)
           \/ DeleteIncidentEvidence(w) \/ ResetStatus(w) \/ GetIncident(w)
           \/ ReloadIncident(w) \/ emitUpdated(w) \/ NextAttempt(w) \/ CreateRun(w)
           \/ emitCompleted(w) \/ Request(w) \/ Cancel(w)
           \/ LockFails(w) \/ StatementFails(w) \/ EmitFails(w) \/ ListRunsFails(w)
  <2>1. pc'[w] \notin {"complete", "emitCompleted"}
    BY <1>5 DEF acquireLock, releaseLock, checkReanalyze, emitReanalyze,
       DeleteIncidentEvidence, ResetStatus, GetIncident, ReloadIncident, emitUpdated,
       NextAttempt, CreateRun, emitCompleted, Request, RequestRun, RequestReanalyze, Cancel,
       LockFails, StatementFails, EmitFails, AfterEmit, ListRunsFails
  <2>2. QED BY <2>1
<1>6. CASE Step(w)
  BY <1>2, <1>3, <1>4, <1>5, <1>6 DEF Step
<1>7. ASSUME Crash PROVE pc'[w] = "idle"
  BY <1>7 DEF Crash
<1>8. Pipeline => UNCHANGED <<pc, req>>
  BY DEF Pipeline, Decide, BeginExecution, EndExecution
<1>9. CASE pc'[w] = pc[w] /\ req'[w] = req[w]
  BY <1>9
<1>10. CASE Fails(w)
  BY <1>4, <1>5, <1>10 DEF Fails
<1>11. QED BY <1>1, <1>5, <1>6, <1>7, <1>8, <1>9, <1>10 DEF Next

\* An emit appends one event and keeps the others.
LEMMA EventRows ==
  ASSUME Typed, Next
  PROVE  \/ UNCHANGED events
         \/ \E e \in Event :
              /\ DOMAIN events' = DOMAIN events \cup {Len(events) + 1}
              /\ Len(events') = Len(events) + 1
              /\ \A i \in DOMAIN events : events'[i] = events[i]
              /\ events'[Len(events) + 1] = e
              /\ \/ e.type \notin {"run_started", "run_completed"} /\ e.run = 0
                 \/ \E w \in Worker : emitStarted(w) /\ e.type = "run_started" /\ e.run = req[w].cur
                 \/ \E w \in Worker : /\ emitCompleted(w) /\ e.type = "run_completed"
                                      /\ e.run = req[w].cur /\ e.status = req[w].outcome
<1> USE DEF Typed, TypeOK
<1>1. DOMAIN events = 1..Len(events) /\ Len(events) \in Nat
  BY LenProperties
<1>2. ASSUME NEW e \in Event, Emit(e.type, e.run, e.status)
      PROVE  /\ DOMAIN events' = DOMAIN events \cup {Len(events) + 1}
             /\ Len(events') = Len(events) + 1
             /\ \A i \in DOMAIN events : events'[i] = events[i]
             /\ events'[Len(events) + 1] = e
  <2>1. events' = Append(events, e)
    BY <1>2 DEF Emit, Event
  <2>2. QED BY <1>1, <2>1, AppendProperties
<1>3. ASSUME NEW w \in Worker, emitReanalyze(w) \/ emitUpdated(w)
      PROVE  \E e \in Event : /\ Emit(e.type, e.run, e.status)
                             /\ e.type \notin {"run_started", "run_completed"} /\ e.run = 0
  <2> DEFINE e1 == [type |-> "reanalyze_started", run |-> 0, status |-> status]
             e2 == [type |-> "incident_updated", run |-> 0, status |-> req[w].seen]
  <2>1. e1 \in Event /\ e2 \in Event
    BY DEF Event, EventType, Memory
  <2>2. Emit(e1.type, e1.run, e1.status) \/ Emit(e2.type, e2.run, e2.status)
    BY <1>3 DEF emitReanalyze, emitUpdated, Emit
  <2>3. QED BY <2>1, <2>2
<1>4. ASSUME NEW w \in Worker, emitStarted(w)
      PROVE  \E e \in Event : /\ Emit(e.type, e.run, e.status)
                             /\ e.type = "run_started" /\ e.run = req[w].cur
  <2> DEFINE e == [type |-> "run_started", run |-> req[w].cur, status |-> "running"]
  <2>1. e \in Event
    BY DEF Event, EventType, Memory, RunStatus
  <2>2. Emit(e.type, e.run, e.status)
    BY <1>4 DEF emitStarted
  <2>3. QED BY <2>1, <2>2
<1>5. ASSUME NEW w \in Worker, emitCompleted(w)
      PROVE  \E e \in Event : /\ Emit(e.type, e.run, e.status)
                             /\ e.type = "run_completed" /\ e.run = req[w].cur
                             /\ e.status = req[w].outcome
  <2> DEFINE e == [type |-> "run_completed", run |-> req[w].cur, status |-> req[w].outcome]
  <2>1. e \in Event
    BY DEF Event, EventType, Memory
  <2>2. Emit(e.type, e.run, e.status)
    BY <1>5 DEF emitCompleted
  <2>3. QED BY <2>1, <2>2
<1>6. CASE \E w \in Worker : emitReanalyze(w) \/ emitUpdated(w)
  BY <1>2, <1>3, <1>6
<1>7. CASE \E w \in Worker : emitStarted(w)
  BY <1>2, <1>4, <1>7
<1>8. CASE \E w \in Worker : emitCompleted(w)
  BY <1>2, <1>5, <1>8
<1>9. QED BY <1>6, <1>7, <1>8, Writers

\* A row that is over, or whose CompleteRun has failed, is not written again.
LEMMA OverIsFinal ==
  ASSUME Typed, InProgress, Next, NEW i \in DOMAIN runs,
         runs[i].status # "running" \/ runs[i].uncommitted
  PROVE  /\ i \in DOMAIN runs' /\ runs'[i].status = runs[i].status
         /\ runs'[i].uncommitted = runs[i].uncommitted
<1>1. ASSUME NEW w \in Worker, CompleteRun(w) \/ CompleteRunFails(w)
      PROVE  i # req[w].cur
  <2>1. pc[w] \in Running
    BY <1>1 DEF CompleteRun, CompleteRunFails, Running
  <2>2. QED BY <2>1 DEF InProgress
<1>2. QED BY <1>1, RunRows

LEMMA LoggedStep ==
  Typed /\ Exclusion /\ Currency /\ InProgress /\ Logged /\ [Next]_vars => Logged'
<1> SUFFICES ASSUME Typed, Exclusion, Currency, InProgress, Logged, [Next]_vars PROVE Logged'
  OBVIOUS
<1> DEFINE Final(i) ==
             \A j \in (i + 1)..Len(events) : events[j].run # events[i].run
           RowSays(k, st) == runs[k].status = IF runs[k].uncommitted THEN "running" ELSE st
           Reported(i) ==
             /\ events[i].run \in DOMAIN runs \cup {0}
             /\ events[i].type = "run_completed" =>
                  /\ events[i].run \in DOMAIN runs /\ events[i].status # "running"
                  /\ RowSays(events[i].run, events[i].status)
                  /\ Final(i)
           Driver(w) ==
             /\ pc[w] \in Running \cup {"emitCompleted"} => Unreported(w)
             /\ pc[w] = "complete" => req[w].outcome # "running"
             /\ pc[w] = "emitCompleted" => /\ req[w].cur \in DOMAIN runs /\ req[w].outcome # "running"
                                           /\ RowSays(req[w].cur, req[w].outcome)
<1>0. /\ DOMAIN events = 1..Len(events) /\ Len(events) \in Nat
      /\ DOMAIN runs = 1..Len(runs) /\ Len(runs) \in Nat
  BY LenProperties DEF Typed, TypeOK
<1>1. Logged <=> (\A i \in DOMAIN events : Reported(i)) /\ \A w \in Worker : Driver(w)
  BY Zenon DEF Logged, EventLogIsFaithful
<1>2. Logged' <=> (\A i \in DOMAIN events' : Reported(i)') /\ \A w \in Worker : Driver(w)'
  BY Zenon DEF Logged, EventLogIsFaithful
<1>3. CASE UNCHANGED vars
  BY <1>3 DEF vars, db, Logged, EventLogIsFaithful, Unreported
<1>4. CASE Next
  <2>1. \A k \in DOMAIN runs : k \in DOMAIN runs'
    BY <1>4, RunRows
  <2>2. ASSUME NEW k \in DOMAIN runs, NEW st, st # "running", RowSays(k, st)
        PROVE  runs'[k].status = IF runs'[k].uncommitted THEN "running" ELSE st
    <3>1. runs[k].status # "running" \/ runs[k].uncommitted
      BY <2>2
    <3>2. QED BY <1>4, <2>2, <3>1, OverIsFinal
  \* Whoever emits is behind the lock, so it is the driver of the run it speaks of.
  <2>3. /\ DOMAIN events \subseteq DOMAIN events' /\ Len(events') \in {Len(events), Len(events) + 1}
        /\ \A i \in DOMAIN events : events'[i] = events[i]
        /\ DOMAIN events' = 1..Len(events') /\ Len(events') \in Nat
    <3>1. Len(events') \in Nat /\ DOMAIN events' = 1..Len(events')
      BY <1>4, TypedStep, LenProperties DEF Typed, TypeOK
    <3>2. CASE UNCHANGED events
      BY <3>1, <3>2
    <3>3. CASE /\ DOMAIN events' = DOMAIN events \cup {Len(events) + 1}
               /\ Len(events') = Len(events) + 1
               /\ \A i \in DOMAIN events : events'[i] = events[i]
      BY <3>1, <3>3
    <3>4. QED BY <1>4, <3>2, <3>3, EventRows
  <2>4. ASSUME NEW i \in DOMAIN events' \ DOMAIN events
        PROVE  /\ i = Len(events) + 1 /\ Len(events') = i
               /\ \/ events'[i].type # "run_completed" /\ events'[i].run = 0
                  \/ \E w \in Worker : /\ pc[w] \in {"emitStarted", "emitCompleted"}
                                       /\ events'[i].run = req[w].cur
                                       /\ events'[i].type = "run_completed" =>
                                            emitCompleted(w) /\ events'[i].status = req[w].outcome
    <3>1. i = Len(events) + 1 /\ Len(events') = i
      <4>1. i \in 1..Len(events') /\ i \notin 1..Len(events)
        BY <1>0, <2>3, <2>4
      <4>2. Len(events) \in Nat /\ (Len(events') = Len(events) \/ Len(events') = Len(events) + 1)
        BY <1>0, <2>3
      <4>3. QED BY <4>1, <4>2
    <3>2. PICK e \in Event :
            /\ events'[Len(events) + 1] = e
            /\ \/ e.type \notin {"run_started", "run_completed"} /\ e.run = 0
               \/ \E w \in Worker : emitStarted(w) /\ e.type = "run_started" /\ e.run = req[w].cur
               \/ \E w \in Worker : /\ emitCompleted(w) /\ e.type = "run_completed"
                                    /\ e.run = req[w].cur /\ e.status = req[w].outcome
      BY <1>4, <2>4, EventRows, Zenon
    <3>3. \A w \in Worker : /\ emitStarted(w) => pc[w] = "emitStarted"
                            /\ emitCompleted(w) => pc[w] = "emitCompleted"
      BY DEF emitStarted, emitCompleted
    <3>4. QED BY <3>1, <3>2, <3>3
  <2>5. ASSUME NEW i \in DOMAIN events PROVE Reported(i)'
    <3>1. Reported(i) /\ events'[i] = events[i]
      BY <1>1, <2>3, <2>5
    <3>2. CASE events[i].type # "run_completed"
      BY <2>1, <3>1, <3>2
    <3>3. CASE events[i].type = "run_completed"
      <4> DEFINE k == events[i].run
      <4>1. k \in DOMAIN runs /\ k # 0
        BY <1>0, <3>1, <3>3
      <4>2. runs'[k].status = IF runs'[k].uncommitted THEN "running" ELSE events[i].status
        BY <2>2, <3>1, <3>3
      <4>3. ASSUME NEW j \in (i + 1)..Len(events') PROVE events'[j].run # k
        <5>0. i \in 1..Len(events) /\ Len(events) \in Nat /\ Len(events') \in Nat
          BY <1>0, <2>3, <2>5
        <5>1. CASE j \in DOMAIN events
          <6>1. j \in (i + 1)..Len(events) /\ events'[j] = events[j]
            <7>1. j \in 1..Len(events) /\ events'[j] = events[j]
              BY <1>0, <2>3, <5>1
            <7>2. QED BY <4>3, <5>0, <7>1
          <6>2. QED BY <3>1, <3>3, <6>1
        <5>2. CASE j \notin DOMAIN events
          <6>1. j \in DOMAIN events' \ DOMAIN events
            <7>1. j \in 1..Len(events')
              BY <4>3, <5>0
            <7>2. QED BY <2>3, <5>2, <7>1
          <6>2. ASSUME NEW w \in Worker, pc[w] \in {"emitStarted", "emitCompleted"}
                PROVE  req[w].cur # k
            BY <1>1, <2>5, <3>3, <6>2 DEF Unreported, Running
          <6>3. QED BY <2>4, <4>1, <6>1, <6>2
        <5>3. QED BY <5>1, <5>2
      <4>4. QED BY <2>1, <3>1, <3>3, <4>1, <4>2, <4>3
    <3>4. QED BY <3>2, <3>3
  <2>6. ASSUME NEW i \in DOMAIN events' \ DOMAIN events PROVE Reported(i)'
    <3>1. i = Len(events) + 1 /\ Len(events') = i
      BY <2>4, <2>6
    <3>2. CASE events'[i].type # "run_completed" /\ events'[i].run = 0
      BY <3>2
    <3>3. ASSUME NEW w \in Worker, pc[w] \in {"emitStarted", "emitCompleted"},
                 events'[i].run = req[w].cur,
                 events'[i].type = "run_completed" =>
                   emitCompleted(w) /\ events'[i].status = req[w].outcome
          PROVE  Reported(i)'
      <4>1. req[w].cur \in DOMAIN runs /\ req[w].cur \in DOMAIN runs'
        BY <1>1, <2>1, <3>3 DEF InProgress, Running
      <4>2. CASE events'[i].type # "run_completed"
        BY <3>3, <4>1, <4>2
      <4>3. CASE events'[i].type = "run_completed"
        <5>1. pc[w] = "emitCompleted" /\ runs' = runs /\ events'[i].status = req[w].outcome
          BY <3>3, <4>3 DEF emitCompleted
        <5>2. RowSays(req[w].cur, req[w].outcome) /\ req[w].outcome # "running"
          BY <1>1, <5>1
        <5>3. Final(i)'
          BY <1>0, <3>1
        <5>4. QED BY <3>3, <4>1, <5>1, <5>2, <5>3
      <4>4. QED BY <4>2, <4>3
    <3>4. QED BY <2>4, <2>6, <3>2, <3>3
  <2>7. ASSUME NEW w \in Worker PROVE Driver(w)'
    <3>1. ASSUME pc'[w] \in Running \cup {"emitCompleted"} PROVE Unreported(w)'
      <4>1. CASE CreateRun(w)
        <5>1. events' = events /\ req'[w].cur = Len(runs) + 1
          BY <4>1 DEF CreateRun, Typed, TypeOK, Memory
        <5>2. Len(runs) + 1 \notin DOMAIN runs
          BY <1>0
        <5>3. QED BY <1>1, <5>1, <5>2 DEF Unreported
      <4>2. CASE pc[w] \in Running \cup {"emitCompleted"} /\ req'[w].cur = req[w].cur
        <5>1. Unreported(w) /\ pc[w] \in Locked
          BY <1>1, <4>2 DEF Running, Locked, Deciding
        <5>2. ASSUME NEW v \in Worker, emitCompleted(v) PROVE FALSE
          <6>1. v = w
            BY <5>1, <5>2 DEF emitCompleted, Exclusion, SingleDriver, Locked
          <6>2. pc'[w] \in {"release", "reload"}
            BY <5>2, <6>1 DEF emitCompleted, Goto, Typed, TypeOK
          <6>3. QED BY <3>1, <6>2 DEF Running
        <5>3. ASSUME NEW j \in DOMAIN events', events'[j].type = "run_completed"
              PROVE  events'[j].run # req[w].cur
          <6>1. j \in DOMAIN events
            BY <2>4, <5>2, <5>3
          <6>2. QED BY <2>3, <5>1, <5>3, <6>1 DEF Unreported
        <5>4. QED BY <4>2, <5>3 DEF Unreported
      <4>3. CASE pc'[w] \in Running
        BY <1>4, <4>1, <4>2, <4>3, RunningIsEntered
      <4>4. CASE pc'[w] = "emitCompleted"
        BY <1>4, <4>2, <4>4, ReportIsDue DEF CompleteRun, CompleteRunFails, Running
      <4>5. QED BY <3>1, <4>3, <4>4
    <3>2. pc'[w] = "complete" => req'[w].outcome # "running"
      BY <1>1, <1>4, ReportIsDue
    <3>3. ASSUME pc'[w] = "emitCompleted"
          PROVE  /\ req'[w].cur \in DOMAIN runs' /\ req'[w].outcome # "running"
                 /\ RowSays(req[w].cur, req[w].outcome)'
      <4>1. CASE pc[w] = "emitCompleted" /\ req'[w] = req[w]
        BY <1>1, <2>1, <2>2, <4>1
      <4>2. CASE /\ CompleteRun(w) \/ CompleteRunFails(w)
                 /\ req'[w].outcome = req[w].outcome /\ req'[w].cur = req[w].cur
        <5>1. /\ pc[w] = "complete" /\ req[w].seen = status /\ status \in Diagnosing
              /\ req[w].cur \in DOMAIN runs /\ runs[req[w].cur].status = "running"
              /\ ~runs[req[w].cur].uncommitted
          BY <4>2 DEF CompleteRun, CompleteRunFails, Currency, Typed, DriverKnowsRole, Deciding,
               InProgress, Running
        <5>2. req[w].outcome \in {"succeeded", "failed", "skipped"}
          BY <1>1, <5>1 DEF Typed, TypeOK, Memory, RunStatus
        <5>3. \/ runs' = [runs EXCEPT ![req[w].cur].status = req[w].outcome]
              \/ runs' = [runs EXCEPT ![req[w].cur].uncommitted = TRUE]
          BY <4>2, <5>1, <5>2, Chain DEF CompleteRun, CompleteRunFails
        <5>4. runs[req[w].cur] \in Run
          BY <5>1, RowsTyped
        <5>5. RowSays(req[w].cur, req[w].outcome)'
          BY <4>2, <5>1, <5>3, <5>4 DEF Run
        <5>6. QED BY <2>1, <4>2, <5>1, <5>2, <5>5
      <4>3. QED BY <1>4, <3>3, <4>1, <4>2, ReportIsDue
    <3>4. QED BY <3>1, <3>2, <3>3
  <2>8. QED BY <1>2, <2>5, <2>6, <2>7, Zenon
<1>5. QED BY <1>3, <1>4

LEMMA AlwaysLogged == Spec => []Logged
<1>1. Init => Logged
  BY DEF Init, Logged, EventLogIsFaithful, Running
<1>2. QED BY <1>1, LoggedStep, AlwaysInStep, PTL DEF Spec

\* A run_completed event says what agent_runs says of the run, ever after, and it is the
\* last event of that run, although CompleteRun and the emit are two statements and either
\* may be the request's last (aiops/workflow.go); a CompleteRun that fails to commit is the
\* one way to an event whose row never follows, and that row is left running for good.
THEOREM EventLogTellsTheTruth == Spec => []EventLogIsFaithful
<1>1. Logged => EventLogIsFaithful
  BY DEF Logged
<1>2. QED BY <1>1, AlwaysLogged, PTL

-----------------------------------------------------------------------------
(* Rows nobody will complete *)

\* A request leaves Running by its CompleteRun, done or failed, or by a fault.
LEMMA RunningIsLeft ==
  ASSUME Typed, Next, NEW w \in Worker, pc[w] \in Running
  PROVE  \/ pc'[w] \in Running /\ req'[w].cur = req[w].cur
         \/ CompleteRun(w) \/ CompleteRunFails(w) \/ Cancel(w) \/ Crash
<1> USE DEF Typed, TypeOK, Goto, Return, Running
<1>1. ASSUME NEW v \in Worker, v # w, Step(v) \/ Fails(v) \/ Request(v) \/ Cancel(v)
      PROVE  pc'[w] = pc[w] /\ req'[w] = req[w]
  BY <1>1 DEF Step, Request, Finish, acquireLock, releaseLock, checkReanalyze,
      emitReanalyze, DeleteIncidentEvidence, ResetStatus, GetIncident, ReadIncident,
      ReloadIncident, emitUpdated, NextAttempt, CreateRun, emitStarted, skipModelUnavailable,
      DeterministicTriage, BuildPrompt, Collect, CollectFails, StoreRow, StoreFails, Stored,
      ModelReplies, CompleteRun, emitCompleted, RequestRun, RequestReanalyze, Cancel, Fails, LockFails,
      StatementFails, EmitFails, AfterEmit, ListRunsFails, CompleteRunFails
<1>2. ASSUME Step(w) PROVE CompleteRun(w) \/ (pc'[w] \in Running /\ req'[w].cur = req[w].cur)
  <2>1. CASE \/ emitStarted(w) \/ skipModelUnavailable(w) \/ DeterministicTriage(w)
             \/ BuildPrompt(w) \/ Collect(w) \/ CollectFails(w) \/ StoreRow(w) \/ StoreFails(w)
             \/ Stored(w) \/ ModelReplies(w)
    BY <2>1 DEF emitStarted, skipModelUnavailable, DeterministicTriage, BuildPrompt, Collect,
         CollectFails, StoreRow, StoreFails, Stored, ModelReplies, Finish, Memory
  <2>2. CASE \/ acquireLock(w) \/ releaseLock(w) \/ checkReanalyze(w) \/ emitReanalyze(w)
             \/ DeleteIncidentEvidence(w) \/ ResetStatus(w) \/ GetIncident(w)
             \/ ReloadIncident(w) \/ emitUpdated(w) \/ NextAttempt(w) \/ CreateRun(w)
             \/ emitCompleted(w)
    BY <2>2 DEF acquireLock, releaseLock, checkReanalyze, emitReanalyze,
         DeleteIncidentEvidence, ResetStatus, GetIncident, ReloadIncident, emitUpdated,
         NextAttempt, CreateRun, emitCompleted
  <2>3. QED BY <1>2, <2>1, <2>2 DEF Step
<1>3. ~Request(w)
  BY DEF Request, RequestRun, RequestReanalyze
<1>4. Pipeline => UNCHANGED <<pc, req>>
  BY DEF Pipeline, Decide, BeginExecution, EndExecution
<1>5. ASSUME Fails(w) PROVE CompleteRunFails(w) \/ (pc'[w] \in Running /\ req'[w].cur = req[w].cur)
  BY <1>5 DEF Fails, LockFails, StatementFails, EmitFails, AfterEmit, ListRunsFails
<1>6. QED BY <1>1, <1>2, <1>3, <1>4, <1>5 DEF Next

\* CompleteRun is never refused, and ends the run it is called for.
LEMMA CompletionCommits ==
  ASSUME Typed, Currency, InProgress, Logged, NEW w \in Worker, CompleteRun(w)
  PROVE  req[w].cur \in DOMAIN runs /\ runs'[req[w].cur].status # "running"
<1>1. /\ pc[w] = "complete" /\ req[w].seen = status /\ status \in Diagnosing
      /\ req[w].cur \in DOMAIN runs
  BY DEF CompleteRun, Currency, Typed, DriverKnowsRole, Deciding, InProgress, Running
<1>2. req[w].outcome \in {"succeeded", "failed", "skipped"}
  BY <1>1 DEF Logged, Typed, TypeOK, Memory, RunStatus
<1>3. runs' = [runs EXCEPT ![req[w].cur].status = req[w].outcome]
  BY <1>1, <1>2, Chain DEF CompleteRun
<1>4. runs[req[w].cur] \in Run
  BY <1>1, RowsTyped
<1>5. QED BY <1>1, <1>2, <1>3, <1>4 DEF Run

Drives(w, i) == pc[w] \in Running /\ req[w].cur = i

\* What a step adds to the orphans: nothing, but for the one run that the request which
\* holds the lock was driving when a fault struck.
LEMMA OrphansStep ==
  ASSUME Typed, Exclusion, Currency, InProgress, Logged, Next
  PROVE  \/ Abandoned' \subseteq Abandoned
         \/ /\ \E w \in Worker : Cancel(w) \/ Crash
            /\ \E i : Abandoned' \subseteq Abandoned \cup {i}
<1> USE DEF Typed, TypeOK
<1>1. ASSUME NEW w \in Worker, Cancel(w) PROVE Abandoned' \subseteq Abandoned \cup {req[w].cur}
  <2>1. runs' = runs /\ \A v \in Worker \ {w} : pc'[v] = pc[v] /\ req'[v] = req[v]
    BY <1>1 DEF Cancel, Return, Goto, db
  <2>2. QED BY <2>1 DEF Abandoned, Orphans
<1>2. ASSUME Crash PROVE \E i : Abandoned' \subseteq Abandoned \cup {i}
  <2>1. runs' = runs
    BY <1>2 DEF Crash, db
  <2>2. CASE \E w \in Worker : pc[w] \in Running
    <3>1. PICK w \in Worker : pc[w] \in Running
      BY <2>2
    <3>2. \A v \in Worker : pc[v] \in Running => v = w
      BY <3>1 DEF Exclusion, SingleDriver, Running, Locked, Deciding
    <3>3. Abandoned' \subseteq Abandoned \cup {req[w].cur}
      BY <2>1, <3>2 DEF Abandoned, Orphans
    <3>4. QED BY <3>3
  <2>3. CASE ~\E w \in Worker : pc[w] \in Running
    BY <2>1, <2>3 DEF Abandoned, Orphans
  <2>4. QED BY <2>2, <2>3
<1>3. ASSUME ~Crash, \A w \in Worker : ~Cancel(w), NEW i \in Abandoned' PROVE i \in Abandoned
  <2>1. /\ i \in DOMAIN runs' /\ runs'[i].status = "running" /\ ~runs'[i].uncommitted
        /\ ~\E w \in Worker : Drives(w, i)'
    BY <1>3 DEF Abandoned, Orphans, Drives
  <2>2. i \in DOMAIN runs
    <3>1. ASSUME NEW w \in Worker, CreateRun(w), i = Len(runs) + 1 PROVE Drives(w, i)'
      BY <3>1, LenProperties DEF CreateRun, Drives, Running, Goto, Memory
    <3>2. QED BY <2>1, <3>1, RunRows
  <2>3. ASSUME NEW w \in Worker, CompleteRun(w) PROVE i # req[w].cur
    BY <2>1, <2>3, CompletionCommits
  <2>4. runs[i].status = "running" /\ ~runs[i].uncommitted
    BY <2>1, <2>2, <2>3, RunRows
  <2>5. ASSUME NEW w \in Worker, Drives(w, i) PROVE FALSE
    <3>1. ~CompleteRun(w) /\ ~CompleteRunFails(w)
      <4>1. ASSUME CompleteRunFails(w) PROVE FALSE
        <5>1. runs' = [runs EXCEPT ![i].uncommitted = TRUE]
          BY <2>5, <4>1 DEF CompleteRunFails, Drives
        <5>2. runs[i] \in Run
          BY <2>2, RowsTyped
        <5>3. QED BY <2>1, <2>2, <5>1, <5>2 DEF Run
      <4>2. QED BY <2>3, <2>5, <4>1 DEF Drives
    <3>2. pc'[w] \in Running /\ req'[w].cur = req[w].cur
      BY <1>3, <2>5, <3>1, RunningIsLeft DEF Drives
    <3>3. Drives(w, i)'
      BY <2>5, <3>2 DEF Drives
    <3>4. QED BY <2>1, <3>3
  <2>6. QED BY <2>2, <2>4, <2>5 DEF Abandoned, Orphans, Drives
<1>4. CASE ~Crash /\ \A w \in Worker : ~Cancel(w)
  BY <1>3, <1>4
<1>5. ASSUME Crash PROVE \E w \in Worker : Cancel(w) \/ Crash
  BY <1>5 DEF Crash
<1>6. QED BY <1>1, <1>2, <1>4, <1>5

LEMMA OrphansCounted ==
  ASSUME Typed, Exclusion, Currency, InProgress, Logged, FaultsOrphanOneRunEach,
         IsFiniteSet(Abandoned), [Next]_vars
  PROVE  FaultsOrphanOneRunEach' /\ IsFiniteSet(Abandoned)'
<1>1. CASE UNCHANGED vars
  <2>1. Abandoned' = Abandoned /\ cancels' = cancels /\ crashes' = crashes
    BY <1>1 DEF vars, db, env, Abandoned, Orphans
  <2>2. IsFiniteSet(Abandoned')
    BY <2>1
  <2>3. Cardinality(Abandoned') <= cancels' + crashes'
    BY <2>1 DEF FaultsOrphanOneRunEach
  <2>4. QED BY <2>2, <2>3 DEF FaultsOrphanOneRunEach
<1>2. CASE Next
  <2>1. cancels \in Nat /\ crashes \in Nat /\ Cardinality(Abandoned) \in Nat
    BY FS_CardinalityType DEF Typed, TypeOK
  <2>2. cancels' + crashes' >= cancels + crashes
    BY <1>2, <2>1, Writers DEF Cancel, Crash
  <2>3. CASE Abandoned' \subseteq Abandoned
    <3>1. IsFiniteSet(Abandoned') /\ Cardinality(Abandoned') <= Cardinality(Abandoned)
      BY <2>3, FS_Subset
    <3>2. Cardinality(Abandoned') \in Nat
      BY <3>1, FS_CardinalityType
    <3>3. cancels' \in Nat /\ crashes' \in Nat
      BY <1>2, <2>1, Writers DEF Cancel, Crash
    <3>4. Cardinality(Abandoned) <= cancels + crashes
      BY DEF FaultsOrphanOneRunEach
    <3>5. Cardinality(Abandoned') <= cancels' + crashes'
      <4>1. \A a, b, c, d, n, m \in Nat : m <= n /\ n <= a + b /\ c + d >= a + b => m <= c + d
        OBVIOUS
      <4>2. QED BY <2>1, <2>2, <3>1, <3>2, <3>3, <3>4, <4>1
    <3>6. QED BY <3>1, <3>5 DEF FaultsOrphanOneRunEach
  <2>4. ASSUME \E w \in Worker : Cancel(w) \/ Crash, NEW i, Abandoned' \subseteq Abandoned \cup {i}
        PROVE  FaultsOrphanOneRunEach' /\ IsFiniteSet(Abandoned)'
    <3>1. \/ cancels' = cancels + 1 /\ crashes' = crashes
          \/ cancels' = cancels /\ crashes' = crashes + 1
      BY <2>4 DEF Cancel, Crash
    <3> DEFINE S == Abandoned \cup {i}
    <3>2. IsFiniteSet(S) /\ Cardinality(S) \in Nat /\ Cardinality(S) <= Cardinality(Abandoned) + 1
      BY <2>1, FS_AddElement
    <3>3. IsFiniteSet(Abandoned') /\ Cardinality(Abandoned') <= Cardinality(S)
      BY <2>4, <3>2, FS_Subset
    <3>4. Cardinality(Abandoned') \in Nat
      BY <3>3, FS_CardinalityType
    <3> HIDE DEF S
    <3>5. QED BY <2>1, <3>1, <3>2, <3>3, <3>4 DEF FaultsOrphanOneRunEach
  <2>5. QED BY <1>2, <2>3, <2>4, OrphansStep
<1>3. QED BY <1>1, <1>2

\* Each cancelled request and each crash leaves at most one row of agent_runs in status
\* running for ever.  The only other way is a CompleteRun that fails to commit: no failing
\* read, insert, emit or release, and nothing a role may run into, leaves one.
THEOREM OrphansHaveTheirFault == Spec => []FaultsOrphanOneRunEach
<1>1. Init => FaultsOrphanOneRunEach /\ IsFiniteSet(Abandoned)
  <2> SUFFICES ASSUME Init PROVE FaultsOrphanOneRunEach /\ IsFiniteSet(Abandoned)
    OBVIOUS
  <2>1. Abandoned = {}
    BY EmptySeq DEF Init, Abandoned, Orphans
  <2>2. IsFiniteSet({}) /\ Cardinality({}) = 0
    BY FS_EmptySet
  <2>3. QED BY <2>1, <2>2 DEF Init, FaultsOrphanOneRunEach
<1>2. QED BY <1>1, OrphansCounted, AlwaysInStep, AlwaysLogged, PTL DEF Spec
=============================================================================
