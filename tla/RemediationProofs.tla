-------------------------- MODULE RemediationProofs --------------------------
(***************************************************************************)
(* Theorems of Remediation, for any number of operators' requests, any     *)
(* plans, and every value of the bounds: reanalyses, foreign writes,       *)
(* failing statements, cancelled requests and crashes in any number.       *)
(*                                                                         *)
(*   Typed        types, and that an executing request is at an action of  *)
(*                a stored plan                                            *)
(*   Exclusion    one request in the executor, and only while executing    *)
(*   Vetted       whoever is about to write has had the action allowed     *)
(*   Marked       a snapshot marks every action written or under way       *)
(*   Intents,     what a request is about to write, and that no decision   *)
(*   Decided      is about a plan to come or the one that waits for it     *)
(*   Versioned,   a snapshot is what its object was at its version, and    *)
(*   Covered      what the next write of its action replaces               *)
(*   Earned       what the executor has passed is written and audited      *)
(*   Begun        what was executed last is a stored plan                  *)
(* Together they map each step to one of ApprovalGate, or to a stutter.    *)
(***************************************************************************)
EXTENDS Remediation, SequenceTheorems, TLAPS

-----------------------------------------------------------------------------
(* Types *)

\* The labels at which a request is at one action of its plan.
AtAction == Executing \ {"end", "endCAS"}

Knows(w) ==
  /\ pc[w] \in AtAction \cup {"begin", "beginCAS"} => req[w].plan \in 1..Len(plans)
  /\ pc[w] \in AtAction => req[w].step \in 1..Len(plans[req[w].plan])
  /\ pc[w] \in {"save", "restore"} => req[w].snap \in Snapshot

RequestKnows == \A w \in Worker : Knows(w)

Typed == TypeOK /\ RequestKnows

RequestTyped == pc \in [Worker -> Label] /\ req \in [Worker -> Memory] /\ RequestKnows

\* A stored plan is one of Plan, and its steps are actions.
LEMMA StepsAreActions ==
  ASSUME TypeOK, NEW p \in 1..Len(plans), NEW i \in 1..Len(plans[p])
  PROVE  /\ plans[p] \in Plan /\ Len(plans[p]) \in Nat
         /\ plans[p][i] \in Action
         /\ plans[p][i].kind \in Kind
         /\ TargetOf(plans[p][i]) \in Target
<1>1. plans[p] \in Plan
  BY ElementOfSeq DEF TypeOK
<1>2. Len(plans[p]) \in Nat /\ DOMAIN plans[p] = 1..Len(plans[p])
  BY <1>1, PlanAssumption
<1>3. plans[p][i] \in Action
  BY <1>1, <1>2 DEF Action
<1>4. QED BY <1>1, <1>2, <1>3 DEF Kind, Target

LEMMA AtItsAction ==
  ASSUME Typed, NEW w \in Worker, pc[w] \in AtAction
  PROVE  /\ ActionOf(w) \in Action /\ ActionOf(w).kind \in Kind
         /\ TargetOf(ActionOf(w)) \in Target
         /\ Len(plans[req[w].plan]) \in Nat
BY StepsAreActions DEF Typed, RequestKnows, Knows, ActionOf

\* Plans are only ever appended.
LEMMA PlansGrow ==
  ASSUME TypeOK, Next
  PROVE  /\ plans' \in Seq(Plan)
         /\ Len(plans) \in Nat /\ Len(plans') \in Nat /\ Len(plans) <= Len(plans')
         /\ \A i \in 1..Len(plans) : plans'[i] = plans[i]
<1>1. CASE ProposePlan
  <2>1. PICK p \in Plan : plans' = Append(plans, p)
    BY <1>1 DEF ProposePlan
  <2>2. QED BY <2>1, AppendProperties, LenProperties DEF TypeOK
<1>2. CASE UNCHANGED plans
  BY <1>2, LenProperties DEF TypeOK
<1>3. UNCHANGED plans \/ ProposePlan
  BY DEF Next, Step, Fails, EndFails, RequestFails, Environment, Request, RecheckPlan, Decide,
         CheckApproved, actionsFromPlan, BeginGet, BeginCAS, CheckAction, TakeSnapshot,
         SaveSnapshot, AuditStarted, GetObject, UpdateObject, UpdateReplyLost, RolloutObserved,
         AuditSucceeded, StatementFails, WriteFails, AuditFailed, EndGet, EndCAS, FindSnapshot,
         RestoreObject, AuditRollback, Reanalyze, EndDiagnosis, ExternalWrite, Cancel, Crash,
         Local, db
<1>4. QED BY <1>1, <1>2, <1>3

LEMMA FreshTyped == Fresh \in Memory
BY DEF Fresh, Memory, Status, Diagnosing

LEMMA InitTyped == Init => Typed
<1> SUFFICES ASSUME Init PROVE Typed
  OBVIOUS
<1>1. status \in Status /\ "idle" \in Label \ AtAction
  BY DEF Init, Status, Diagnosing, Label, Executing, AtAction
<1>2. plans \in Seq(Plan) /\ writes \in Seq([plan: Nat, step: Nat, before: Content])
      /\ audit \in Seq([action: AuditAction, plan: Nat, step: Nat])
  BY DEF Init
<1>3. object \in [Target -> Object]
  BY DEF Init, Object, Content
<1>4. pc \in [Worker -> Label] /\ req \in [Worker -> Memory]
  BY <1>1, FreshTyped DEF Init
<1>5. TypeOK
  BY <1>1, <1>2, <1>3, <1>4 DEF Init, TypeOK
<1>6. RequestKnows
  BY <1>1 DEF Init, RequestKnows, Knows, AtAction, Executing
<1>7. QED BY <1>5, <1>6 DEF Typed

\* What a request knows of its plan stays true while other requests move.
LEMMA KnowsStable ==
  ASSUME TypeOK, Next, NEW v \in Worker, Knows(v), pc'[v] = pc[v], req'[v] = req[v]
  PROVE  Knows(v)'
<1>1. /\ \A i \in 1..Len(plans) : i \in 1..Len(plans') /\ plans'[i] = plans[i]
  BY PlansGrow
<1>2. QED BY <1>1 DEF Knows

\* A step of one request: the others are as they were.
LEMMA OneMoves ==
  ASSUME Typed, Next, NEW w \in Worker, NEW l \in Label, NEW m \in Memory,
         pc' = [pc EXCEPT ![w] = l], req' = [req EXCEPT ![w] = m],
         l \in AtAction \cup {"begin", "beginCAS"} => m.plan \in 1..Len(plans'),
         l \in AtAction => m.step \in 1..Len(plans'[m.plan]),
         l \in {"save", "restore"} => m.snap \in Snapshot
  PROVE  RequestTyped'
<1>1. pc' \in [Worker -> Label] /\ req' \in [Worker -> Memory]
  BY DEF Typed, TypeOK
<1>2. pc'[w] = l /\ req'[w] = m
  BY DEF Typed, TypeOK
<1>3. Knows(w)'
  BY <1>2 DEF Knows
<1>4. ASSUME NEW v \in Worker, v # w PROVE Knows(v)'
  <2>1. pc'[v] = pc[v] /\ req'[v] = req[v]
    BY <1>4 DEF Typed, TypeOK
  <2>2. QED BY <2>1, KnowsStable DEF Typed, RequestKnows
<1>5. QED BY <1>1, <1>3, <1>4 DEF RequestTyped, RequestKnows

\* Returning forgets everything.
LEMMA ReturnMoves ==
  ASSUME Typed, Next, NEW w \in Worker, Return(w)
  PROVE  RequestTyped'
<1>1. "idle" \in Label /\ "idle" \notin AtAction
  BY DEF Label, Executing, AtAction
<1>2. QED BY <1>1, FreshTyped, OneMoves DEF Return, Goto

\* Moving on within one action, or to its end.
LEMMA GotoMoves ==
  ASSUME Typed, Next, NEW w \in Worker, NEW l \in Label, Goto(w, l), UNCHANGED <<req, plans>>,
         l \notin {"begin", "beginCAS", "save", "restore"},
         l \in AtAction => pc[w] \in AtAction
  PROVE  RequestTyped'
<1>1. req' = [req EXCEPT ![w] = req[w]] /\ req[w] \in Memory
  BY DEF Typed, TypeOK
<1>2. QED BY <1>1, OneMoves DEF Goto, Typed, RequestKnows, Knows

LEMMA LeaveMoves ==
  ASSUME Typed, Next, NEW w \in Worker, NEW st \in Status, Leave(w, st)
  PROVE  RequestTyped'
<1>1. [req[w] EXCEPT !.to = st] \in Memory
  BY DEF Typed, TypeOK, Memory
<1>2. "end" \in Label /\ "end" \notin AtAction
  BY DEF Label, Executing, AtAction
<1>3. req' = [req EXCEPT ![w] = [req[w] EXCEPT !.to = st]] /\ pc' = [pc EXCEPT ![w] = "end"]
  BY DEF Leave, Goto
<1>4. QED BY <1>1, <1>2, <1>3, OneMoves

LEMMA RequestStep == Typed /\ Next => RequestTyped'
<1> SUFFICES ASSUME Typed, Next PROVE RequestTyped'
  OBVIOUS
<1> USE DEF AtAction, Executing, Label
<1>0. {"resolved", "failed", "rejected", "executing", "approved"} \subseteq Status
  BY DEF Status, Terminal
<1>1. ASSUME NEW w \in Worker, RecheckPlan(w) PROVE RequestTyped'
  <2>1. Return(w) \/ (Goto(w, "decide") /\ UNCHANGED <<req, plans>>)
    BY <1>1 DEF RecheckPlan, Local, db
  <2>2. QED BY <2>1, ReturnMoves, GotoMoves
<1>2. ASSUME NEW w \in Worker, CheckApproved(w) PROVE RequestTyped'
  <2>1. Return(w) \/ (Goto(w, "actions") /\ UNCHANGED <<req, plans>>)
    BY <1>2 DEF CheckApproved, Local, db
  <2>2. QED BY <2>1, ReturnMoves, GotoMoves
<1>3. ASSUME NEW w \in Worker, actionsFromPlan(w) PROVE RequestTyped'
  <2>1. CASE Return(w)
    BY <2>1, ReturnMoves
  <2>2. CASE /\ plans # <<>> /\ UNCHANGED plans
             /\ Goto(w, "begin") /\ req' = [req EXCEPT ![w].plan = Len(plans)]
    <3>1. Len(plans) \in 1..Len(plans) /\ Len(plans) \in Nat
      BY <2>2, LenProperties, EmptySeq DEF Typed, TypeOK
    <3>2. [req[w] EXCEPT !.plan = Len(plans)] \in Memory
      BY <3>1 DEF Typed, TypeOK, Memory
    <3>3. [req[w] EXCEPT !.plan = Len(plans)].plan = Len(plans)
      BY DEF Typed, TypeOK, Memory
    <3>4. req' = [req EXCEPT ![w] = [req[w] EXCEPT !.plan = Len(plans)]]
      BY <2>2
    <3>5. QED BY <2>2, <3>1, <3>2, <3>3, <3>4, OneMoves DEF Goto
  <2>3. QED BY <1>3, <2>1, <2>2 DEF actionsFromPlan, Local, db
<1>4. ASSUME NEW w \in Worker, BeginGet(w) PROVE RequestTyped'
  <2>1. CASE Return(w)
    BY <2>1, ReturnMoves
  <2>2. CASE Goto(w, "beginCAS") /\ req' = [req EXCEPT ![w].from = status]
    <3> DEFINE m == [req[w] EXCEPT !.from = status]
    <3>1. m \in Memory /\ m.plan = req[w].plan
      BY DEF Typed, TypeOK, Memory
    <3>2. req' = [req EXCEPT ![w] = m] /\ pc' = [pc EXCEPT ![w] = "beginCAS"]
      BY <2>2 DEF Goto
    <3>3. UNCHANGED plans /\ req[w].plan \in 1..Len(plans)
      BY <1>4 DEF BeginGet, Local, db, Typed, RequestKnows, Knows
    <3> HIDE DEF m
    <3>4. QED BY <3>1, <3>2, <3>3, OneMoves
  <2>3. QED BY <1>4, <2>1, <2>2 DEF BeginGet
<1>5. ASSUME NEW w \in Worker, BeginCAS(w) PROVE RequestTyped'
  <2>1. CASE Return(w)
    BY <2>1, ReturnMoves
  <2>2. CASE /\ Goto(w, "check")
             /\ \E i \in 1..Len(plans[req[w].plan]) : req' = [req EXCEPT ![w].step = i]
    <3>1. PICK i \in 1..Len(plans[req[w].plan]) : req' = [req EXCEPT ![w].step = i]
      BY <2>2
    <3> DEFINE m == [req[w] EXCEPT !.step = i]
    <3>2. UNCHANGED plans /\ req[w].plan \in 1..Len(plans)
      BY <1>5 DEF BeginCAS, Typed, RequestKnows, Knows
    <3>3. i \in Nat
      BY <3>2, StepsAreActions DEF Typed
    <3>4. m \in Memory /\ m.plan = req[w].plan /\ m.step = i
      BY <3>3 DEF Typed, TypeOK, Memory
    <3>5. req' = [req EXCEPT ![w] = m] /\ pc' = [pc EXCEPT ![w] = "check"]
      BY <2>2, <3>1 DEF Goto
    <3> HIDE DEF m
    <3>6. QED BY <3>2, <3>4, <3>5, OneMoves
  <2>3. QED BY <1>5, <2>1, <2>2 DEF BeginCAS
<1>6. ASSUME NEW w \in Worker, CheckAction(w) PROVE RequestTyped'
  <2>1. (Goto(w, "snapshot") /\ UNCHANGED <<req, plans>>) \/ Leave(w, "failed")
    BY <1>6 DEF CheckAction, Local, db
  <2>2. QED BY <1>0, <1>6, <2>1, GotoMoves, LeaveMoves DEF CheckAction
<1>7. ASSUME NEW w \in Worker, TakeSnapshot(w) PROVE RequestTyped'
  <2> DEFINE t == TargetOf(ActionOf(w))
             sn == [kind |-> ActionOf(w).kind, target |-> t,
                    content |-> object[t].content, version |-> object[t].version]
             m == [req[w] EXCEPT !.snap = sn]
  <2>1. pc[w] = "snapshot" /\ UNCHANGED plans
    BY <1>7 DEF TakeSnapshot, Local, db
  <2>2. ActionOf(w).kind \in Kind /\ t \in Target
    BY <2>1, AtItsAction
  <2>3. object[t] \in Object
    BY <2>2 DEF Typed, TypeOK
  <2>4. sn \in Snapshot
    BY <2>2, <2>3 DEF Snapshot, Object
  <2>5. req' = [req EXCEPT ![w] = m] /\ pc' = [pc EXCEPT ![w] = "save"]
    BY <1>7 DEF TakeSnapshot, Goto
  <2> HIDE DEF sn
  <2>6. m \in Memory /\ m.plan = req[w].plan /\ m.step = req[w].step /\ m.snap = sn
    BY <2>4 DEF Typed, TypeOK, Memory
  <2>7. req[w].plan \in 1..Len(plans) /\ req[w].step \in 1..Len(plans[req[w].plan])
    BY <2>1 DEF Typed, RequestKnows, Knows
  <2> HIDE DEF m
  <2>8. QED BY <2>1, <2>4, <2>5, <2>6, <2>7, OneMoves
<1>8. ASSUME NEW w \in Worker, SaveSnapshot(w) PROVE RequestTyped'
  BY <1>8, GotoMoves DEF SaveSnapshot
<1>9. ASSUME NEW w \in Worker, AuditStarted(w) PROVE RequestTyped'
  BY <1>9, GotoMoves DEF AuditStarted
<1>10. ASSUME NEW w \in Worker, GetObject(w) PROVE RequestTyped'
  <2> DEFINE v == object[TargetOf(ActionOf(w))].version
             m == [req[w] EXCEPT !.version = v]
  <2>1. pc[w] = "get" /\ UNCHANGED plans
    BY <1>10 DEF GetObject, Local, db
  <2>2. TargetOf(ActionOf(w)) \in Target
    BY <2>1, AtItsAction
  <2>3. v \in Nat
    BY <2>2 DEF Typed, TypeOK, Object
  <2>4. req' = [req EXCEPT ![w] = m] /\ pc' = [pc EXCEPT ![w] = "update"]
    BY <1>10 DEF GetObject, Goto
  <2> HIDE DEF v
  <2>5. m \in Memory /\ m.plan = req[w].plan /\ m.step = req[w].step
    BY <2>3 DEF Typed, TypeOK, Memory
  <2>6. req[w].plan \in 1..Len(plans) /\ req[w].step \in 1..Len(plans[req[w].plan])
    BY <2>1 DEF Typed, RequestKnows, Knows
  <2> HIDE DEF m
  <2>7. QED BY <2>1, <2>4, <2>5, <2>6, OneMoves
<1>11. ASSUME NEW w \in Worker, UpdateObject(w) PROVE RequestTyped'
  <2>1. PICK l \in {"wait", "auditSucceeded", "auditFailed"} : Goto(w, l)
    BY <1>11 DEF UpdateObject
  <2>2. QED BY <1>11, <2>1, GotoMoves DEF UpdateObject, db
<1>12. ASSUME NEW w \in Worker, UpdateReplyLost(w) PROVE RequestTyped'
  BY <1>12, GotoMoves DEF UpdateReplyLost, db
<1>13. ASSUME NEW w \in Worker, RolloutObserved(w) PROVE RequestTyped'
  BY <1>13, GotoMoves DEF RolloutObserved, Local, db
<1>14. ASSUME NEW w \in Worker, AuditSucceeded(w) PROVE RequestTyped'
  <2>1. PICK i \in 0..Len(plans[req[w].plan]) :
          IF i # 0 THEN Goto(w, "check") /\ req' = [req EXCEPT ![w].step = i]
                   ELSE Leave(w, "resolved")
    BY <1>14 DEF AuditSucceeded
  <2>2. CASE i = 0
    BY <1>0, <2>1, <2>2, LeaveMoves
  <2>3. CASE i # 0
    <3> DEFINE m == [req[w] EXCEPT !.step = i]
    <3>1. pc[w] = "auditSucceeded" /\ UNCHANGED plans
      BY <1>14 DEF AuditSucceeded
    <3>2. i \in 1..Len(plans[req[w].plan]) /\ req[w].plan \in 1..Len(plans) /\ i \in Nat
      BY <2>3, <3>1, AtItsAction DEF Typed, RequestKnows, Knows
    <3>3. m \in Memory /\ m.plan = req[w].plan /\ m.step = i
      BY <3>2 DEF Typed, TypeOK, Memory
    <3>4. req' = [req EXCEPT ![w] = m] /\ pc' = [pc EXCEPT ![w] = "check"]
      BY <2>1, <2>3 DEF Goto
    <3> HIDE DEF m
    <3>5. QED BY <3>1, <3>2, <3>3, <3>4, OneMoves
  <2>4. QED BY <2>2, <2>3
<1>15. ASSUME NEW w \in Worker, StatementFails(w) PROVE RequestTyped'
  BY <1>0, <1>15, LeaveMoves DEF StatementFails
<1>16. ASSUME NEW w \in Worker, WriteFails(w) PROVE RequestTyped'
  BY <1>16, GotoMoves DEF WriteFails, Local, db
<1>17. ASSUME NEW w \in Worker, AuditFailed(w) PROVE RequestTyped'
  BY <1>0, <1>17, LeaveMoves DEF AuditFailed
<1>18. ASSUME NEW w \in Worker, EndGet(w) PROVE RequestTyped'
  <2>1. CASE Return(w)
    BY <2>1, ReturnMoves
  <2>2. CASE Goto(w, "endCAS") /\ req' = [req EXCEPT ![w].from = status]
    <3>1. [req[w] EXCEPT !.from = status] \in Memory
      BY DEF Typed, TypeOK, Memory
    <3>2. req' = [req EXCEPT ![w] = [req[w] EXCEPT !.from = status]]
      BY <2>2
    <3>3. QED BY <2>2, <3>1, <3>2, OneMoves DEF Goto
  <2>3. QED BY <1>18, <2>1, <2>2 DEF EndGet
<1>19. ASSUME NEW w \in Worker, FindSnapshot(w) PROVE RequestTyped'
  <2>1. CASE Return(w)
    BY <2>1, ReturnMoves
  <2>2. CASE \E sn \in snapshots : Goto(w, "restore") /\ req' = [req EXCEPT ![w].snap = sn]
    <3>1. PICK sn \in snapshots : Goto(w, "restore") /\ req' = [req EXCEPT ![w].snap = sn]
      BY <2>2
    <3>2. sn \in Snapshot
      BY DEF Typed, TypeOK
    <3>3. [req[w] EXCEPT !.snap = sn] \in Memory /\ [req[w] EXCEPT !.snap = sn].snap = sn
      BY <3>2 DEF Typed, TypeOK, Memory
    <3>4. req' = [req EXCEPT ![w] = [req[w] EXCEPT !.snap = sn]]
      BY <3>1
    <3>5. QED BY <3>1, <3>2, <3>3, <3>4, OneMoves DEF Goto
  <2>3. QED BY <1>19, <2>1, <2>2 DEF FindSnapshot
<1>20. ASSUME NEW w \in Worker, RestoreObject(w) PROVE RequestTyped'
  <2>1. Return(w) \/ (Goto(w, "auditRollback") /\ UNCHANGED <<req, plans>>)
    BY <1>20 DEF RestoreObject, db
  <2>2. QED BY <2>1, ReturnMoves, GotoMoves
<1>21. ASSUME NEW w \in Worker,
              Decide(w) \/ EndCAS(w) \/ AuditRollback(w) \/ Fails(w) \/ Cancel(w)
       PROVE  RequestTyped'
  BY <1>21, ReturnMoves DEF Decide, EndCAS, AuditRollback, Fails, EndFails, RequestFails, Cancel
<1>22. ASSUME NEW w \in Worker, Request(w) PROVE RequestTyped'
  <2>1. CASE \E l \in {"approve", "execute", "rollback"} : Goto(w, l) /\ UNCHANGED req
    BY <1>22, <2>1, GotoMoves DEF Request, db
  <2>2. CASE Goto(w, "decide") /\ req' = [req EXCEPT ![w].to = "rejected"]
    <3>1. [req[w] EXCEPT !.to = "rejected"] \in Memory
      BY <1>0 DEF Typed, TypeOK, Memory
    <3>2. req' = [req EXCEPT ![w] = [req[w] EXCEPT !.to = "rejected"]]
      BY <2>2
    <3>3. QED BY <2>2, <3>1, <3>2, OneMoves DEF Goto
  <2>3. QED BY <1>22, <2>1, <2>2 DEF Request
<1>23. CASE Crash
  <2>1. \A w \in Worker : pc'[w] = "idle"
    BY <1>23 DEF Crash
  <2>2. RequestKnows'
    BY <2>1 DEF RequestKnows, Knows
  <2>3. pc' \in [Worker -> Label] /\ req' \in [Worker -> Memory]
    BY <1>23, FreshTyped DEF Crash
  <2>4. QED BY <2>2, <2>3 DEF RequestTyped
<1>24. CASE Environment
  <2>1. UNCHANGED <<pc, req>>
    BY <1>24 DEF Environment, Reanalyze, ProposePlan, EndDiagnosis, ExternalWrite
  <2>2. QED BY <2>1, KnowsStable DEF Typed, TypeOK, RequestTyped, RequestKnows
<1>25. QED
  BY <1>1, <1>2, <1>3, <1>4, <1>5, <1>6, <1>7, <1>8, <1>9, <1>10, <1>11, <1>12, <1>13, <1>14,
     <1>15, <1>16, <1>17, <1>18, <1>19, <1>20, <1>21, <1>22, <1>23, <1>24 DEF Next, Step

\* Which statement writes which variable; everything else leaves it alone.
LEMMA Writers ==
  ASSUME Next
  PROVE  /\ \/ UNCHANGED status \/ Reanalyze \/ ProposePlan \/ EndDiagnosis
            \/ \E w \in Worker : Decide(w) \/ BeginCAS(w) \/ EndCAS(w)
         /\ UNCHANGED snapshots \/ \E w \in Worker : SaveSnapshot(w)
         /\ \/ UNCHANGED audit
            \/ \E w \in Worker : \/ Decide(w) \/ AuditStarted(w) \/ AuditSucceeded(w)
                                 \/ AuditFailed(w) \/ AuditRollback(w)
         /\ \/ UNCHANGED object \/ ExternalWrite
            \/ \E w \in Worker : UpdateObject(w) \/ UpdateReplyLost(w) \/ RestoreObject(w)
         /\ UNCHANGED writes \/ \E w \in Worker : UpdateObject(w) \/ UpdateReplyLost(w)
         /\ UNCHANGED executed \/ \E w \in Worker : BeginCAS(w)
         /\ UNCHANGED requests \/ \E w \in Worker : Request(w)
         /\ UNCHANGED externals \/ ExternalWrite
         /\ UNCHANGED faults \/ Crash \/ \E w \in Worker : Cancel(w)
<1>1. \/ UNCHANGED status \/ Reanalyze \/ ProposePlan \/ EndDiagnosis
     \/ \E w \in Worker : Decide(w) \/ BeginCAS(w) \/ EndCAS(w)
  BY DEF Next, Step, Fails, EndFails, RequestFails, Environment, RecheckPlan, CheckApproved,
         actionsFromPlan, BeginGet, CheckAction, TakeSnapshot, SaveSnapshot, AuditStarted,
         GetObject, UpdateObject, UpdateReplyLost, RolloutObserved, AuditSucceeded,
         StatementFails, WriteFails, AuditFailed, EndGet, FindSnapshot, RestoreObject,
         AuditRollback, ExternalWrite, Request, Cancel, Crash, Local, db, hist, env
<1>2. UNCHANGED snapshots \/ \E w \in Worker : SaveSnapshot(w)
  BY DEF Next, Step, Fails, EndFails, RequestFails, Environment, RecheckPlan, Decide,
         CheckApproved, actionsFromPlan, BeginGet, BeginCAS, CheckAction, TakeSnapshot,
         AuditStarted, GetObject, UpdateObject, UpdateReplyLost, RolloutObserved, AuditSucceeded,
         StatementFails, WriteFails, AuditFailed, EndGet, EndCAS, FindSnapshot, RestoreObject,
         AuditRollback, Reanalyze, ProposePlan, EndDiagnosis, ExternalWrite, Request, Cancel,
         Crash, Local, db, hist, env
<1>3. \/ UNCHANGED audit
     \/ \E w \in Worker : \/ Decide(w) \/ AuditStarted(w) \/ AuditSucceeded(w)
                          \/ AuditFailed(w) \/ AuditRollback(w)
  BY DEF Next, Step, Fails, EndFails, RequestFails, Environment, RecheckPlan, CheckApproved,
         actionsFromPlan, BeginGet, BeginCAS, CheckAction, TakeSnapshot, SaveSnapshot, GetObject,
         UpdateObject, UpdateReplyLost, RolloutObserved, StatementFails, WriteFails, EndGet,
         EndCAS, FindSnapshot, RestoreObject, Reanalyze, ProposePlan, EndDiagnosis,
         ExternalWrite, Request, Cancel, Crash, Local, db, hist, env
<1>4. \/ UNCHANGED object \/ ExternalWrite
     \/ \E w \in Worker : UpdateObject(w) \/ UpdateReplyLost(w) \/ RestoreObject(w)
  BY DEF Next, Step, Fails, EndFails, RequestFails, Environment, RecheckPlan, Decide,
         CheckApproved, actionsFromPlan, BeginGet, BeginCAS, CheckAction, TakeSnapshot,
         SaveSnapshot, AuditStarted, GetObject, RolloutObserved, AuditSucceeded, StatementFails,
         WriteFails, AuditFailed, EndGet, EndCAS, FindSnapshot, AuditRollback, Reanalyze,
         ProposePlan, EndDiagnosis, Request, Cancel, Crash, Local, db, hist, env
<1>5. UNCHANGED writes \/ \E w \in Worker : UpdateObject(w) \/ UpdateReplyLost(w)
  BY DEF Next, Step, Fails, EndFails, RequestFails, Environment, RecheckPlan, Decide,
         CheckApproved, actionsFromPlan, BeginGet, BeginCAS, CheckAction, TakeSnapshot,
         SaveSnapshot, AuditStarted, GetObject, RolloutObserved, AuditSucceeded, StatementFails,
         WriteFails, AuditFailed, EndGet, EndCAS, FindSnapshot, RestoreObject, AuditRollback,
         Reanalyze, ProposePlan, EndDiagnosis, ExternalWrite, Request, Cancel, Crash, Local, db,
         hist, env
<1>6. UNCHANGED executed \/ \E w \in Worker : BeginCAS(w)
  BY DEF Next, Step, Fails, EndFails, RequestFails, Environment, RecheckPlan, Decide,
         CheckApproved, actionsFromPlan, BeginGet, CheckAction, TakeSnapshot, SaveSnapshot,
         AuditStarted, GetObject, UpdateObject, UpdateReplyLost, RolloutObserved, AuditSucceeded,
         StatementFails, WriteFails, AuditFailed, EndGet, EndCAS, FindSnapshot, RestoreObject,
         AuditRollback, Reanalyze, ProposePlan, EndDiagnosis, ExternalWrite, Request, Cancel,
         Crash, Local, db, hist, env
<1>7. UNCHANGED requests \/ \E w \in Worker : Request(w)
  BY DEF Next, Step, Fails, EndFails, RequestFails, Environment, RecheckPlan, Decide,
         CheckApproved, actionsFromPlan, BeginGet, BeginCAS, CheckAction, TakeSnapshot,
         SaveSnapshot, AuditStarted, GetObject, UpdateObject, UpdateReplyLost, RolloutObserved,
         AuditSucceeded, StatementFails, WriteFails, AuditFailed, EndGet, EndCAS, FindSnapshot,
         RestoreObject, AuditRollback, Reanalyze, ProposePlan, EndDiagnosis, ExternalWrite,
         Cancel, Crash, Local, db, hist, env
<1>8. UNCHANGED externals \/ ExternalWrite
  BY DEF Next, Step, Fails, EndFails, RequestFails, Environment, RecheckPlan, Decide,
         CheckApproved, actionsFromPlan, BeginGet, BeginCAS, CheckAction, TakeSnapshot,
         SaveSnapshot, AuditStarted, GetObject, UpdateObject, UpdateReplyLost, RolloutObserved,
         AuditSucceeded, StatementFails, WriteFails, AuditFailed, EndGet, EndCAS, FindSnapshot,
         RestoreObject, AuditRollback, Reanalyze, ProposePlan, EndDiagnosis, Request, Cancel,
         Crash, Local, db, hist, env
<1>9. UNCHANGED faults \/ Crash \/ \E w \in Worker : Cancel(w)
  BY DEF Next, Step, Fails, EndFails, RequestFails, Environment, RecheckPlan, Decide,
         CheckApproved, actionsFromPlan, BeginGet, BeginCAS, CheckAction, TakeSnapshot,
         SaveSnapshot, AuditStarted, GetObject, UpdateObject, UpdateReplyLost, RolloutObserved,
         AuditSucceeded, StatementFails, WriteFails, AuditFailed, EndGet, EndCAS, FindSnapshot,
         RestoreObject, AuditRollback, Reanalyze, ProposePlan, EndDiagnosis, ExternalWrite,
         Request, Local, db, hist, env
<1>10. QED BY <1>1, <1>2, <1>3, <1>4, <1>5, <1>6, <1>7, <1>8, <1>9

\* What went wrong at the end of an execution is not forgotten.
LEMMA UnclosedStep ==
  ASSUME Next
  PROVE  UNCHANGED unclosed \/ unclosed' = TRUE
BY DEF Next, Step, Fails, EndFails, RequestFails, Environment, RecheckPlan, Decide,
       CheckApproved, actionsFromPlan, BeginGet,
       BeginCAS, CheckAction, TakeSnapshot, SaveSnapshot, AuditStarted, GetObject,
       UpdateObject, UpdateReplyLost, RolloutObserved, AuditSucceeded, StatementFails,
       WriteFails, AuditFailed, EndGet, EndCAS, FindSnapshot, RestoreObject, AuditRollback,
       Reanalyze, ProposePlan, EndDiagnosis, ExternalWrite, Request, Cancel, Crash, Local, db,
       hist, env

\* Record appends one well-formed audit record.
LEMMA RecordTyped ==
  ASSUME TypeOK, NEW a \in AuditAction, NEW p \in Nat, NEW i \in Nat, Record(a, p, i)
  PROVE  audit' \in Seq([action: AuditAction, plan: Nat, step: Nat])
BY AppendProperties DEF TypeOK, Record

\* A write of the executor leaves an object of the cluster, and is recorded.
LEMMA WriteTyped ==
  ASSUME Typed, NEW w \in Worker, pc[w] \in AtAction, Write(w)
  PROVE  /\ object' \in [Target -> Object]
         /\ writes' \in Seq([plan: Nat, step: Nat, before: Content])
<1> DEFINE t == TargetOf(ActionOf(w))
<1>1. t \in Target /\ ActionOf(w).kind \in Kind
  BY AtItsAction
<1>2. object[t] \in Object
  BY <1>1 DEF Typed, TypeOK
<1>3. [content |-> ActionOf(w).kind, version |-> object[t].version + 1] \in Object
  BY <1>1, <1>2 DEF Object, Content
<1>4. object' \in [Target -> Object]
  BY <1>1, <1>3 DEF Write, Typed, TypeOK
<1>5. req[w].plan \in Nat /\ req[w].step \in Nat
  BY DEF Typed, TypeOK, Memory
<1>6. [plan |-> req[w].plan, step |-> req[w].step, before |-> object[t].content]
        \in [plan: Nat, step: Nat, before: Content]
  BY <1>2, <1>5 DEF Object
<1>7. QED BY <1>4, <1>6, AppendProperties DEF Write, Typed, TypeOK

LEMMA TypeStep == Typed /\ Next => TypeOK'
<1> SUFFICES ASSUME Typed, Next PROVE TypeOK'
  OBVIOUS
<1>1. pc' \in [Worker -> Label] /\ req' \in [Worker -> Memory]
  BY RequestStep DEF RequestTyped
<1>2. plans' \in Seq(Plan)
  BY PlansGrow DEF Typed
<1>3. status' \in Status
  <2>1. ASSUME NEW w \in Worker, Decide(w) \/ EndCAS(w) PROVE status' \in Status
    <3>1. req[w].to \in Status
      BY DEF Typed, TypeOK, Memory
    <3>2. QED BY <2>1, <3>1 DEF Decide, EndCAS, Typed, TypeOK
  <2>2. ASSUME NEW w \in Worker, BeginCAS(w) PROVE status' \in Status
    BY <2>2 DEF BeginCAS, Typed, TypeOK, Status
  <2>3. ASSUME Reanalyze \/ ProposePlan \/ EndDiagnosis PROVE status' \in Status
    BY <2>3 DEF Reanalyze, ProposePlan, EndDiagnosis, Status, Diagnosing, Terminal
  <2>4. QED BY <2>1, <2>2, <2>3, Writers DEF Typed, TypeOK
<1>4. snapshots' \subseteq Snapshot
  <2>1. ASSUME NEW w \in Worker, SaveSnapshot(w) PROVE snapshots' \subseteq Snapshot
    BY <2>1 DEF SaveSnapshot, Typed, TypeOK, RequestKnows, Knows
  <2>2. QED BY <2>1, Writers DEF Typed, TypeOK
<1>5. audit' \in Seq([action: AuditAction, plan: Nat, step: Nat])
  <2>0. /\ \A w \in Worker : req[w].plan \in Nat /\ req[w].step \in Nat
        /\ 0 \in Nat /\ Len(plans) \in Nat
    BY LenProperties DEF Typed, TypeOK, Memory
  <2>1. ASSUME NEW w \in Worker, Decide(w)
        PROVE  audit' \in Seq([action: AuditAction, plan: Nat, step: Nat])
    <3>1. \/ UNCHANGED audit
          \/ \E a \in {"approve-remediation", "reject-remediation"} : Record(a, Len(plans), 0)
      BY <2>1 DEF Decide
    <3>2. QED BY <2>0, <3>1, RecordTyped DEF Typed, TypeOK, AuditAction
  <2>2. ASSUME NEW w \in Worker, AuditStarted(w) \/ AuditSucceeded(w) \/ AuditFailed(w)
        PROVE  audit' \in Seq([action: AuditAction, plan: Nat, step: Nat])
    <3>1. \/ UNCHANGED audit
          \/ \E a \in {"execution_started", "execution_succeeded", "execution_failed"} :
               Record(a, req[w].plan, req[w].step)
      BY <2>2 DEF AuditStarted, AuditSucceeded, AuditFailed
    <3>2. QED BY <2>0, <3>1, RecordTyped DEF Typed, TypeOK, AuditAction
  <2>3. ASSUME NEW w \in Worker, AuditRollback(w)
        PROVE  audit' \in Seq([action: AuditAction, plan: Nat, step: Nat])
    BY <2>0, <2>3, RecordTyped DEF AuditRollback, Typed, TypeOK, AuditAction
  <2>4. QED BY <2>1, <2>2, <2>3, Writers DEF Typed, TypeOK
<1>6. object' \in [Target -> Object] /\ writes' \in Seq([plan: Nat, step: Nat, before: Content])
  <2>1. ASSUME NEW w \in Worker, UpdateObject(w) \/ UpdateReplyLost(w)
        PROVE  /\ object' \in [Target -> Object]
               /\ writes' \in Seq([plan: Nat, step: Nat, before: Content])
    <3>1. pc[w] \in AtAction
      BY <2>1 DEF UpdateObject, UpdateReplyLost, AtAction, Executing
    <3>2. Write(w) \/ UNCHANGED <<object, writes>>
      BY <2>1 DEF UpdateObject, UpdateReplyLost
    <3>3. QED BY <3>1, <3>2, WriteTyped DEF Typed, TypeOK
  <2>2. ASSUME NEW w \in Worker, RestoreObject(w)
        PROVE  object' \in [Target -> Object]
    <3> DEFINE s == req[w].snap
    <3>1. s \in Snapshot
      BY <2>2 DEF RestoreObject, Typed, RequestKnows, Knows
    <3>2. object[s.target] \in Object
      BY <3>1 DEF Snapshot, Typed, TypeOK
    <3>3. [content |-> s.content, version |-> object[s.target].version + 1] \in Object
      BY <3>1, <3>2 DEF Snapshot, Object
    <3>4. QED BY <2>2, <3>1, <3>3 DEF RestoreObject, Typed, TypeOK
  <2>3. ASSUME ExternalWrite PROVE object' \in [Target -> Object]
    <3>1. PICK t \in Target :
            object' = [object EXCEPT ![t] = [content |-> "external", version |-> @.version + 1]]
      BY <2>3 DEF ExternalWrite
    <3>2. object[t] \in Object
      BY DEF Typed, TypeOK
    <3>3. [content |-> "external", version |-> object[t].version + 1] \in Object
      BY <3>2 DEF Object, Content
    <3>4. QED BY <3>1, <3>3 DEF Typed, TypeOK
  <2>4. QED BY <2>1, <2>2, <2>3, Writers DEF Typed, TypeOK
<1>7. executed' \in Nat
  <2>1. ASSUME NEW w \in Worker, BeginCAS(w) PROVE executed' \in Nat
    BY <2>1 DEF BeginCAS, Typed, TypeOK, Memory
  <2>2. QED BY <2>1, Writers DEF Typed, TypeOK
<1>8. requests' \in Nat /\ externals' \in Nat /\ faults' \in Nat
  BY Writers DEF Typed, TypeOK, Request, ExternalWrite, Crash, Cancel
<1>9. unclosed' \in BOOLEAN
  BY UnclosedStep DEF Typed, TypeOK
<1>10. QED BY <1>1, <1>2, <1>3, <1>4, <1>5, <1>6, <1>7, <1>8, <1>9 DEF TypeOK

LEMMA TypedInvariant == Spec => []Typed
<1>1. Typed /\ Next => Typed'
  BY RequestStep, TypeStep DEF Typed, RequestTyped
<1>2. Typed /\ UNCHANGED vars => Typed'
  BY DEF Typed, TypeOK, RequestKnows, Knows, vars, db, hist, env
<1>3. QED BY InitTyped, <1>1, <1>2, PTL DEF Spec

\* Every reachable state of the remediation service, its audit trail and the
\* cluster it writes to is well typed.
THEOREM TypeCorrect == Spec => []TypeOK
BY TypedInvariant, PTL DEF Typed

-----------------------------------------------------------------------------
(* How one request moves *)

\* From the checks of an action to its write.
Guarding == {"snapshot", "save", "auditStarted", "get", "update"}

\* To the next statement between the checks of an action and its write.
Guards(w) ==
  /\ \/ TakeSnapshot(w) /\ pc[w] = "snapshot" /\ pc'[w] = "save"
     \/ SaveSnapshot(w) /\ pc[w] = "save" /\ pc'[w] = "auditStarted"
     \/ AuditStarted(w) /\ pc[w] = "auditStarted" /\ pc'[w] = "get"
     \/ GetObject(w) /\ pc[w] = "get" /\ pc'[w] = "update"
  /\ req'[w].plan = req[w].plan /\ req'[w].step = req[w].step

\* Into, within and out of the executor.
Moves(w) ==
  \/ pc'[w] = pc[w] /\ req'[w] = req[w]
  \/ pc'[w] \notin Executing \cup {"beginCAS"}
  \/ pc'[w] = "beginCAS" /\ req'[w].from = status /\ CanTransition(status, "executing")
  \/ BeginCAS(w) /\ status = req[w].from /\ pc[w] = "beginCAS" /\ pc'[w] = "check"
  \/ pc[w] \in Executing /\ pc'[w] \in Executing \ Guarding
  \/ CheckAction(w) /\ pc[w] = "check" /\ pc'[w] = "snapshot" /\ req'[w] = req[w]
     /\ Evaluate(ActionOf(w)).allowed /\ ~HasExecuted(ActionOf(w))
  \/ Guards(w)

LEMMA StepMoves ==
  ASSUME Typed, NEW w \in Worker, Step(w) \/ Fails(w) \/ Request(w) \/ Cancel(w)
  PROVE  Moves(w)
<1> USE DEF Executing, Guarding
<1>0. pc \in [Worker -> Label] /\ req \in [Worker -> Memory]
  BY DEF Typed, TypeOK
<1>1. ASSUME Return(w) PROVE Moves(w)
  BY <1>0, <1>1 DEF Return, Goto, Moves
<1>2. ASSUME NEW l \in Label \ (Executing \cup {"beginCAS"}), Goto(w, l) PROVE Moves(w)
  BY <1>0, <1>2 DEF Goto, Moves
<1>3. ASSUME NEW l \in Executing \ Guarding, pc[w] \in Executing, Goto(w, l) PROVE Moves(w)
  BY <1>0, <1>3 DEF Goto, Moves
<1>4. CASE Request(w)
  BY <1>2, <1>4 DEF Request, Label
<1>5. CASE Fails(w) \/ Cancel(w)
  BY <1>1, <1>5 DEF Fails, EndFails, RequestFails, Cancel
<1>6. CASE RecheckPlan(w) \/ Decide(w) \/ CheckApproved(w) \/ actionsFromPlan(w)
  BY <1>1, <1>2, <1>6 DEF RecheckPlan, Decide, CheckApproved, actionsFromPlan, Label
<1>7. CASE BeginGet(w)
  <2>1. CASE Goto(w, "beginCAS") /\ req' = [req EXCEPT ![w].from = status]
             /\ CanTransition(status, "executing")
    BY <1>0, <2>1 DEF Goto, Moves, Memory
  <2>2. QED BY <1>1, <1>7, <2>1 DEF BeginGet
<1>8. CASE BeginCAS(w)
  <2>1. CASE status = req[w].from /\ Goto(w, "check")
    BY <1>0, <1>8, <2>1 DEF Goto, Moves, BeginCAS
  <2>2. QED BY <1>1, <1>8, <2>1 DEF BeginCAS
<1>9. CASE CheckAction(w)
  <2>1. CASE Goto(w, "snapshot") /\ UNCHANGED req
             /\ Evaluate(ActionOf(w)).allowed /\ ~HasExecuted(ActionOf(w))
    BY <1>0, <1>9, <2>1 DEF Goto, Moves, CheckAction
  <2>2. QED BY <1>3, <1>9, <2>1 DEF CheckAction, Leave
<1>10. CASE TakeSnapshot(w) \/ SaveSnapshot(w) \/ AuditStarted(w) \/ GetObject(w)
  <2>1. req'[w].plan = req[w].plan /\ req'[w].step = req[w].step
    BY <1>0, <1>10 DEF TakeSnapshot, SaveSnapshot, AuditStarted, GetObject, Memory
  <2>2. \/ TakeSnapshot(w) /\ pc[w] = "snapshot" /\ pc'[w] = "save"
        \/ SaveSnapshot(w) /\ pc[w] = "save" /\ pc'[w] = "auditStarted"
        \/ AuditStarted(w) /\ pc[w] = "auditStarted" /\ pc'[w] = "get"
        \/ GetObject(w) /\ pc[w] = "get" /\ pc'[w] = "update"
    <3>1. CASE TakeSnapshot(w) BY <1>0, <3>1 DEF TakeSnapshot, Goto
    <3>2. CASE SaveSnapshot(w) BY <1>0, <3>2 DEF SaveSnapshot, Goto
    <3>3. CASE AuditStarted(w) BY <1>0, <3>3 DEF AuditStarted, Goto
    <3>4. CASE GetObject(w) BY <1>0, <3>4 DEF GetObject, Goto
    <3>5. QED BY <1>10, <3>1, <3>2, <3>3, <3>4
  <2>3. QED BY <2>1, <2>2 DEF Guards, Moves
<1>11. CASE UpdateObject(w) \/ UpdateReplyLost(w) \/ RolloutObserved(w) \/ WriteFails(w)
  BY <1>3, <1>11 DEF UpdateObject, UpdateReplyLost, RolloutObserved, WriteFails
<1>12. CASE AuditSucceeded(w) \/ StatementFails(w) \/ AuditFailed(w)
  BY <1>3, <1>12 DEF AuditSucceeded, StatementFails, AuditFailed, Leave
<1>13. CASE EndGet(w) \/ EndCAS(w)
  BY <1>1, <1>3, <1>13 DEF EndGet, EndCAS
<1>14. CASE FindSnapshot(w) \/ RestoreObject(w) \/ AuditRollback(w)
  BY <1>1, <1>2, <1>14 DEF FindSnapshot, RestoreObject, AuditRollback, Label
<1>15. QED
  BY <1>4, <1>5, <1>6, <1>7, <1>8, <1>9, <1>10, <1>11, <1>12, <1>13, <1>14 DEF Step

\* A request stays where it is while another one moves.
LEMMA OthersStay ==
  ASSUME Typed, NEW v \in Worker, NEW w \in Worker, v # w,
         Step(w) \/ Fails(w) \/ Request(w) \/ Cancel(w)
  PROVE  pc'[v] = pc[v] /\ req'[v] = req[v]
BY DEF Typed, TypeOK, Step, Request, RecheckPlan, Decide, CheckApproved, actionsFromPlan,
       BeginGet, BeginCAS, CheckAction, TakeSnapshot, SaveSnapshot, AuditStarted, GetObject,
       UpdateObject, UpdateReplyLost, RolloutObserved, AuditSucceeded, StatementFails,
       WriteFails, AuditFailed, EndGet, EndCAS, FindSnapshot, RestoreObject, AuditRollback,
       Fails, EndFails, RequestFails, Cancel, Goto, Return, Leave

LEMMA AllMove ==
  ASSUME Typed, [Next]_vars
  PROVE  \A w \in Worker : Moves(w)
<1> SUFFICES ASSUME NEW w \in Worker PROVE Moves(w)
  OBVIOUS
<1>1. ASSUME UNCHANGED <<pc, req>> PROVE Moves(w)
  BY <1>1 DEF Moves
<1>2. ASSUME NEW v \in Worker, Step(v) \/ Fails(v) \/ Request(v) \/ Cancel(v) PROVE Moves(w)
  <2>1. CASE v = w
    BY <1>2, <2>1, StepMoves
  <2>2. CASE v # w
    BY <1>2, <2>2, OthersStay DEF Moves
  <2>3. QED BY <2>1, <2>2
<1>3. CASE Crash
  BY <1>3 DEF Crash, Moves, Executing
<1>4. CASE Environment \/ UNCHANGED vars
  BY <1>1, <1>4 DEF Environment, Reanalyze, ProposePlan, EndDiagnosis, ExternalWrite, vars
<1>5. QED BY <1>2, <1>3, <1>4 DEF Next

-----------------------------------------------------------------------------
(* One request in the executor *)

\* Advance(executing) only ever starts from approved, so whoever wins the
\* compare-and-swap found nobody in the executor.
Exclusion ==
  /\ SingleExecutor
  /\ \A w \in Worker : pc[w] = "beginCAS" => req[w].from = "approved"

LEMMA OnlyFromApproved ==
  ASSUME NEW st \in Status, CanTransition(st, "executing") PROVE st = "approved"
BY DEF CanTransition, transitions, Status, Diagnosing, Terminal

\* The status leaves executing through the executor's own last statement only.
LEMMA ExecutingLasts ==
  ASSUME Typed, Exclusion, [Next]_vars, NEW w \in Worker, pc[w] \in Executing,
         pc'[w] \in Executing
  PROVE  status' = "executing"
<1>1. status = "executing"
  BY DEF Exclusion, SingleExecutor
<1>2. ~(Reanalyze \/ ProposePlan \/ EndDiagnosis) /\ \A v \in Worker : Decide(v) => UNCHANGED status
  BY <1>1 DEF Reanalyze, ProposePlan, EndDiagnosis, Decide, Terminal
<1>3. ASSUME NEW v \in Worker, EndCAS(v) PROVE FALSE
  <2>1. pc[v] \in Executing
    BY <1>3 DEF EndCAS, Executing
  <2>2. v = w
    BY <2>1 DEF Exclusion, SingleExecutor
  <2>3. QED BY <1>3, <2>2 DEF EndCAS, Return, Goto, Typed, TypeOK, Executing
<1>4. ASSUME NEW v \in Worker, BeginCAS(v) PROVE status' = "executing"
  BY <1>1, <1>4 DEF BeginCAS
<1>5. UNCHANGED vars => UNCHANGED status
  BY DEF vars, db
<1>6. QED BY <1>1, <1>2, <1>3, <1>4, <1>5, Writers

LEMMA ExclusionStep == Typed /\ Exclusion /\ [Next]_vars => Exclusion'
<1> SUFFICES ASSUME Typed, Exclusion, [Next]_vars PROVE Exclusion'
  OBVIOUS
<1>0. status \in Status /\ \A w \in Worker : Moves(w)
  BY AllMove DEF Typed, TypeOK
<1>1. ASSUME NEW w \in Worker, pc'[w] = "beginCAS" PROVE req'[w].from = "approved"
  <2>1. \/ pc[w] = "beginCAS" /\ req'[w] = req[w]
        \/ req'[w].from = status /\ CanTransition(status, "executing")
    BY <1>0, <1>1 DEF Moves, Guards, Executing
  <2>2. QED BY <1>0, <2>1, OnlyFromApproved DEF Exclusion
  \* Whoever is in the executor was there, or has just won the compare-and-swap.
<1>2. ASSUME NEW w \in Worker, pc'[w] \in Executing
      PROVE  \/ pc[w] \in Executing
             \/ BeginCAS(w) /\ status = "approved" /\ pc'[w] = "check" /\ pc[w] = "beginCAS"
  BY <1>0, <1>2 DEF Moves, Guards, Executing, Exclusion
<1>3. ASSUME NEW w \in Worker, pc'[w] \in Executing PROVE status' = "executing"
  <2>1. CASE pc[w] \in Executing
    BY <1>3, <2>1, ExecutingLasts
  <2>2. CASE BeginCAS(w) /\ status = "approved" /\ pc'[w] = "check" /\ pc[w] = "beginCAS"
    BY <2>2 DEF BeginCAS, Return, Goto, Typed, TypeOK
  <2>3. QED BY <1>2, <1>3, <2>1, <2>2
<1>4. ASSUME NEW v \in Worker, NEW w \in Worker, pc'[v] \in Executing, pc'[w] \in Executing, v # w
      PROVE  FALSE
  <2>1. CASE pc[v] \in Executing /\ pc[w] \in Executing
    BY <1>4, <2>1 DEF Exclusion, SingleExecutor
  <2>2. CASE status = "approved" /\ (pc[v] \in Executing \/ pc[w] \in Executing)
    BY <2>2 DEF Exclusion, SingleExecutor
  <2>3. CASE BeginCAS(v) /\ pc[v] = "beginCAS" /\ pc[w] = "beginCAS" /\ pc'[w] = "check"
    BY <1>4, <2>3, OthersStay DEF Step
  <2>4. QED BY <1>2, <1>4, <2>1, <2>2, <2>3
<1>5. QED BY <1>1, <1>3, <1>4 DEF Exclusion, SingleExecutor

LEMMA ExclusionInvariant == Spec => []Exclusion
<1>1. Init => Exclusion
  BY DEF Init, Exclusion, SingleExecutor, Executing
<1>2. QED BY <1>1, ExclusionStep, TypedInvariant, PTL DEF Spec

\* However many operators press Execute, and whatever else they or a crash do
\* in between: at most one request is in the executor, and only as long as the
\* incident is executing.
THEOREM OneExecutor == Spec => []SingleExecutor
BY ExclusionInvariant, PTL DEF Exclusion

-----------------------------------------------------------------------------
(* No write without the policy's consent *)

WrittenAction(i) == plans[writes[i].plan][writes[i].step]

\* From the checks to the write the action at hand stays allowed, and every write
\* is that of an action of a stored plan.
Vetted ==
  /\ \A w \in Worker : pc[w] \in Guarding => Evaluate(ActionOf(w)).allowed
  /\ \A i \in DOMAIN writes : /\ writes[i].plan \in 1..Len(plans)
                              /\ writes[i].step \in 1..Len(plans[writes[i].plan])
                              /\ Evaluate(WrittenAction(i)).allowed

LEMMA ActionStays ==
  ASSUME Typed, [Next]_vars, NEW w \in Worker, pc[w] \in AtAction,
         req'[w].plan = req[w].plan, req'[w].step = req[w].step
  PROVE  ActionOf(w)' = ActionOf(w)
<1>1. req[w].plan \in 1..Len(plans)
  BY DEF Typed, RequestKnows, Knows
<1>2. plans'[req[w].plan] = plans[req[w].plan]
  BY <1>1, PlansGrow DEF Typed, vars, db
<1>3. QED BY <1>2 DEF ActionOf

\* At the next statement of an action whose checks it passed, or at the first.
LEMMA GuardingStep ==
  ASSUME Typed, [Next]_vars, NEW w \in Worker, pc'[w] \in Guarding
  PROVE  /\ ActionOf(w)' = ActionOf(w)
         /\ \/ pc'[w] = pc[w] /\ req'[w] = req[w]
            \/ pc[w] = "check" /\ pc'[w] = "snapshot"
               /\ Evaluate(ActionOf(w)).allowed /\ ~HasExecuted(ActionOf(w))
            \/ Guards(w)
<1> USE DEF Guarding, AtAction, Executing
<1>1. \/ pc'[w] = pc[w] /\ req'[w] = req[w]
      \/ /\ pc[w] = "check" /\ pc'[w] = "snapshot" /\ req'[w] = req[w]
         /\ Evaluate(ActionOf(w)).allowed /\ ~HasExecuted(ActionOf(w))
      \/ Guards(w)
  BY AllMove DEF Moves
<1>2. pc[w] \in AtAction /\ req'[w].plan = req[w].plan /\ req'[w].step = req[w].step
  BY <1>1 DEF Guards
<1>3. QED BY <1>1, <1>2, ActionStays

\* The executor's write, and what it records.
Writes(w) ==
  /\ pc[w] = "update" /\ pc'[w] \notin Guarding
  /\ UNCHANGED <<plans, snapshots>>
  /\ DOMAIN writes' = DOMAIN writes \cup {Len(writes) + 1}
  /\ \A i \in DOMAIN writes : i # Len(writes) + 1 /\ writes'[i] = writes[i]
  /\ writes'[Len(writes) + 1].plan = req[w].plan
  /\ writes'[Len(writes) + 1].step = req[w].step
  /\ writes'[Len(writes) + 1].before = object[TargetOf(ActionOf(w))].content

LEMMA WriteAppends ==
  ASSUME Typed, NEW w \in Worker, UpdateObject(w) \/ UpdateReplyLost(w), Write(w)
  PROVE  Writes(w)
<1>1. /\ pc[w] = "update"
      /\ \E l \in {"wait", "auditSucceeded", "auditFailed"} : Goto(w, l)
      /\ UNCHANGED <<plans, snapshots>>
  BY DEF UpdateObject, UpdateReplyLost, db
<1>2. pc'[w] \notin Guarding
  BY <1>1 DEF Goto, Guarding, Typed, TypeOK
<1> DEFINE x == [plan |-> req[w].plan, step |-> req[w].step,
                 before |-> object[TargetOf(ActionOf(w))].content]
           R == [plan: Nat, step: Nat, before: Content]
<1>3. writes \in Seq(R) /\ writes' \in Seq(R) /\ writes' = Append(writes, x)
  <2>1. pc[w] \in AtAction
    BY <1>1 DEF AtAction, Executing
  <2>2. QED BY <2>1, WriteTyped DEF Write, Typed, TypeOK
<1>4. x \in R
  <2>1. TargetOf(ActionOf(w)) \in Target
    BY <1>1, AtItsAction DEF AtAction, Executing
  <2>2. QED BY <2>1 DEF Typed, TypeOK, Object, Memory
<1>5. /\ x.plan = req[w].plan /\ x.step = req[w].step
      /\ x.before = object[TargetOf(ActionOf(w))].content
  OBVIOUS
<1> HIDE DEF x, R
<1>6. /\ Len(writes) \in Nat /\ DOMAIN writes = 1..Len(writes)
      /\ DOMAIN writes' = 1..(Len(writes) + 1)
      /\ \A i \in 1..Len(writes) : writes'[i] = writes[i]
      /\ writes'[Len(writes) + 1] = x
  BY <1>3, <1>4, AppendProperties, LenProperties
<1>7. QED BY <1>1, <1>2, <1>5, <1>6 DEF Writes

LEMMA WritesStep ==
  ASSUME Typed, [Next]_vars
  PROVE  UNCHANGED writes \/ \E w \in Worker : Writes(w)
<1>1. ASSUME NEW w \in Worker, UpdateObject(w) \/ UpdateReplyLost(w)
      PROVE  UNCHANGED writes \/ Writes(w)
  BY <1>1, WriteAppends DEF UpdateObject, UpdateReplyLost
<1>2. QED BY <1>1, Writers DEF vars, hist

\* What was written stays what it was.
LEMMA WrittenStays ==
  ASSUME Typed, Vetted, [Next]_vars, NEW i \in DOMAIN writes
  PROVE  /\ i \in DOMAIN writes' /\ writes'[i] = writes[i]
         /\ WrittenAction(i)' = WrittenAction(i)
         /\ writes[i].plan \in 1..Len(plans')
         /\ plans'[writes[i].plan] = plans[writes[i].plan]
<1>1. i \in DOMAIN writes' /\ writes'[i] = writes[i]
  BY WritesStep DEF Writes
<1>2. writes[i].plan \in 1..Len(plans)
  BY DEF Vetted
<1>3. writes[i].plan \in 1..Len(plans') /\ plans'[writes[i].plan] = plans[writes[i].plan]
  BY <1>2, PlansGrow DEF Typed, vars, db
<1>4. QED BY <1>1, <1>3 DEF WrittenAction

LEMMA NewlyWritten ==
  ASSUME Typed, NEW w \in Worker, Writes(w), NEW n, n = Len(writes) + 1
  PROVE  WrittenAction(n)' = ActionOf(w)
BY DEF Writes, WrittenAction, ActionOf, Typed, TypeOK

LEMMA VettedStep == Typed /\ Vetted /\ [Next]_vars => Vetted'
<1> SUFFICES ASSUME Typed, Vetted, [Next]_vars PROVE Vetted'
  OBVIOUS
<1>1. ASSUME NEW w \in Worker, pc'[w] \in Guarding PROVE Evaluate(ActionOf(w)').allowed
  <2>1. Evaluate(ActionOf(w)).allowed
    BY <1>1, GuardingStep DEF Guards, Guarding, Vetted
  <2>2. QED BY <1>1, <2>1, GuardingStep
<1>2. ASSUME NEW i \in DOMAIN writes'
      PROVE  /\ writes'[i].plan \in 1..Len(plans')
             /\ writes'[i].step \in 1..Len(plans'[writes'[i].plan])
             /\ Evaluate(WrittenAction(i)').allowed
  <2>1. CASE i \in DOMAIN writes
    BY <2>1, WrittenStays DEF Vetted
  <2>2. CASE i \notin DOMAIN writes
    <3>1. PICK w \in Worker : Writes(w) /\ i = Len(writes) + 1
      BY <1>2, <2>2, WritesStep DEF Writes
    <3>2. req[w].plan \in 1..Len(plans) /\ req[w].step \in 1..Len(plans[req[w].plan])
      BY <3>1 DEF Writes, Typed, RequestKnows, Knows, AtAction, Executing
    <3>3. Evaluate(ActionOf(w)).allowed
      BY <3>1 DEF Writes, Vetted, Guarding
    <3>4. WrittenAction(i)' = ActionOf(w)
      BY <3>1, NewlyWritten
    <3>5. QED BY <3>1, <3>2, <3>3, <3>4 DEF Writes
  <2>3. QED BY <2>1, <2>2
<1>3. QED BY <1>1, <1>2 DEF Vetted

LEMMA VettedInvariant == Spec => []Vetted
<1>1. Init => Vetted
  BY DEF Init, Vetted, Guarding
<1>2. QED BY <1>1, VettedStep, TypedInvariant, PTL DEF Spec

\* Whatever was approved, by whom, and on whatever stale reading of the plan: the
\* executor applies no action that policy denies.
THEOREM NoDeniedWrite == Spec => []DeniedNeverWritten
<1>1. Vetted => DeniedNeverWritten
  BY DEF Vetted, DeniedNeverWritten, WrittenAction
<1>2. QED BY <1>1, VettedInvariant, PTL

-----------------------------------------------------------------------------
(* No action twice *)

Marks(s, action) == s.kind = action.kind /\ s.target[2] = action.name

\* What is written has its snapshot; until a request has stored one, its action is
\* not marked, and until it writes, its action is not written.
Marked ==
  /\ \A i \in DOMAIN writes : HasExecuted(WrittenAction(i))
  /\ \A w \in Worker :
       /\ pc[w] \in {"snapshot", "save"} => ~HasExecuted(ActionOf(w))
       /\ pc[w] = "save" => Marks(req[w].snap, ActionOf(w))
       /\ pc[w] \in {"auditStarted", "get", "update"} =>
            /\ HasExecuted(ActionOf(w))
            /\ \A i \in DOMAIN writes : ~ /\ WrittenAction(i).kind = ActionOf(w).kind
                                          /\ WrittenAction(i).name = ActionOf(w).name
  /\ NoDoubleWrite

LEMMA SnapshotsStep ==
  ASSUME [Next]_vars
  PROVE  /\ UNCHANGED snapshots \/ \E w \in Worker : SaveSnapshot(w)
         /\ snapshots \subseteq snapshots'
<1>1. UNCHANGED snapshots \/ \E w \in Worker : SaveSnapshot(w)
  BY Writers DEF vars, db
<1>2. QED BY <1>1 DEF SaveSnapshot

\* Between its checks and its write a request is alone: nobody else stores a
\* snapshot or writes.
LEMMA Undisturbed ==
  ASSUME Typed, Exclusion, [Next]_vars, NEW w \in Worker, pc'[w] \in Guarding
  PROVE  /\ UNCHANGED writes
         /\ UNCHANGED snapshots \/ (SaveSnapshot(w) /\ pc[w] = "save" /\ pc'[w] = "auditStarted")
<1>1. pc[w] \in Executing
  BY GuardingStep DEF Guards, Guarding, Executing
<1>2. ASSUME NEW v \in Worker, pc[v] \in Executing PROVE v = w
  BY <1>1, <1>2 DEF Exclusion, SingleExecutor
<1>3. UNCHANGED writes
  <2>1. ASSUME NEW v \in Worker, Writes(v) PROVE FALSE
    BY <1>2, <2>1 DEF Writes, Executing
  <2>2. QED BY <2>1, WritesStep
<1>4. ASSUME NEW v \in Worker, SaveSnapshot(v)
      PROVE  SaveSnapshot(w) /\ pc[w] = "save" /\ pc'[w] = "auditStarted"
  <2>1. v = w
    BY <1>2, <1>4 DEF SaveSnapshot, Executing
  <2>2. QED BY <1>4, <2>1 DEF SaveSnapshot, Goto, Typed, TypeOK
<1>5. QED BY <1>3, <1>4, SnapshotsStep

LEMMA MarkedStep ==
  Typed /\ Exclusion /\ Vetted /\ Marked /\ [Next]_vars => Marked'
<1> SUFFICES ASSUME Typed, Exclusion, Vetted, Marked, [Next]_vars PROVE Marked'
  OBVIOUS
<1>1. ASSUME NEW a, HasExecuted(a) PROVE \E s \in snapshots' : Marks(s, a)
  BY <1>1, SnapshotsStep DEF HasExecuted, Marks
<1>2. ASSUME NEW i \in DOMAIN writes' PROVE HasExecuted(WrittenAction(i))'
  <2>1. CASE i \in DOMAIN writes
    BY <1>1, <2>1, WrittenStays DEF Marked, HasExecuted, Marks
  <2>2. CASE i \notin DOMAIN writes
    <3>1. PICK w \in Worker : Writes(w) /\ i = Len(writes) + 1
      BY <1>2, <2>2, WritesStep DEF Writes
    <3>2. HasExecuted(ActionOf(w))
      BY <3>1 DEF Writes, Marked
    <3>3. WrittenAction(i)' = ActionOf(w)
      BY <3>1, NewlyWritten
    <3>4. QED BY <1>1, <3>2, <3>3 DEF HasExecuted, Marks
  <2>3. QED BY <2>1, <2>2
<1>3. ASSUME NEW w \in Worker, pc'[w] \in {"snapshot", "save"} PROVE ~HasExecuted(ActionOf(w))'
  <2>1. pc'[w] \in Guarding
    BY <1>3 DEF Guarding
  <2>2. ~HasExecuted(ActionOf(w))
    BY <1>3, <2>1, GuardingStep DEF Guards, Marked
  <2>3. UNCHANGED snapshots /\ ActionOf(w)' = ActionOf(w)
    BY <1>3, <2>1, Undisturbed, GuardingStep
  <2>4. QED BY <2>2, <2>3 DEF HasExecuted
<1>4. ASSUME NEW w \in Worker, pc'[w] = "save" PROVE Marks(req'[w].snap, ActionOf(w)')
  <2>1. ActionOf(w)' = ActionOf(w)
    BY <1>4, GuardingStep DEF Guarding
  <2>2. CASE pc[w] = "save" /\ req'[w] = req[w]
    BY <2>1, <2>2 DEF Marked
  <2>3. CASE TakeSnapshot(w)
    <3>1. /\ req'[w].snap.kind = ActionOf(w).kind
          /\ req'[w].snap.target = TargetOf(ActionOf(w))
      BY <2>3 DEF TakeSnapshot, Typed, TypeOK, Memory
    <3>2. QED BY <2>1, <3>1 DEF Marks, TargetOf
  <2>4. QED BY <1>4, <2>2, <2>3, GuardingStep DEF Guards, Guarding
<1>5. ASSUME NEW w \in Worker, pc'[w] \in {"auditStarted", "get", "update"}
      PROVE  /\ HasExecuted(ActionOf(w))'
             /\ \A i \in DOMAIN writes' : ~ /\ WrittenAction(i)'.kind = ActionOf(w)'.kind
                                            /\ WrittenAction(i)'.name = ActionOf(w)'.name
  <2>1. ActionOf(w)' = ActionOf(w) /\ UNCHANGED writes
    BY <1>5, GuardingStep, Undisturbed DEF Guarding
  <2>2. ASSUME NEW i \in DOMAIN writes PROVE WrittenAction(i)' = WrittenAction(i)
    BY WrittenStays
  <2>3. CASE pc[w] \in {"auditStarted", "get", "update"}
    BY <1>1, <2>1, <2>2, <2>3 DEF Marked, HasExecuted, Marks
  <2>4. CASE SaveSnapshot(w)
    <3>1. pc[w] = "save" /\ req[w].snap \in snapshots'
      BY <2>4 DEF SaveSnapshot
    <3>2. Marks(req[w].snap, ActionOf(w)) /\ ~HasExecuted(ActionOf(w))
      BY <3>1 DEF Marked
    <3>3. HasExecuted(ActionOf(w))'
      BY <2>1, <3>1, <3>2 DEF HasExecuted, Marks
    <3>4. ASSUME NEW i \in DOMAIN writes, WrittenAction(i).kind = ActionOf(w).kind,
                 WrittenAction(i).name = ActionOf(w).name
          PROVE  FALSE
      BY <3>2, <3>4 DEF Marked, HasExecuted
    <3>5. QED BY <2>1, <2>2, <3>3, <3>4
  <2>5. QED BY <1>5, <2>3, <2>4, GuardingStep DEF Guards, Guarding
<1>6. ASSUME NEW i \in DOMAIN writes', NEW j \in DOMAIN writes',
             WrittenAction(i)'.kind = WrittenAction(j)'.kind,
             TargetOf(WrittenAction(i)') = TargetOf(WrittenAction(j)')
      PROVE  i = j
  <2>1. CASE i \in DOMAIN writes /\ j \in DOMAIN writes
    BY <1>6, <2>1, WrittenStays DEF Marked, NoDoubleWrite, WrittenAction
  <2>2. CASE i \notin DOMAIN writes /\ j \notin DOMAIN writes
    BY <1>6, <2>2, WritesStep DEF Writes
  \* The one just written has the name and kind of no other.
  <2>3. ASSUME NEW k \in DOMAIN writes, NEW n \in DOMAIN writes', n \notin DOMAIN writes
        PROVE  ~ /\ WrittenAction(k)'.kind = WrittenAction(n)'.kind
                 /\ WrittenAction(k)'.name = WrittenAction(n)'.name
    <3>1. PICK w \in Worker : Writes(w) /\ n = Len(writes) + 1
      BY <2>3, WritesStep DEF Writes
    <3>2. WrittenAction(n)' = ActionOf(w) /\ WrittenAction(k)' = WrittenAction(k)
      BY <3>1, NewlyWritten, WrittenStays
    <3>3. QED BY <3>1, <3>2 DEF Writes, Marked
  <2>4. WrittenAction(i)'.name = WrittenAction(j)'.name
    BY <1>6 DEF TargetOf
  <2>5. QED BY <1>6, <2>1, <2>2, <2>3, <2>4
<1>7. NoDoubleWrite'
  BY <1>6 DEF NoDoubleWrite, WrittenAction
<1>8. QED BY <1>2, <1>3, <1>4, <1>5, <1>7 DEF Marked

LEMMA MarkedInvariant == Spec => []Marked
<1>1. Init => Marked
  BY DEF Init, Marked, NoDoubleWrite
<1>2. QED BY <1>1, MarkedStep, TypedInvariant, ExclusionInvariant, VettedInvariant, PTL DEF Spec

\* HasExecuted, Save and the write are three statements of the executor; still no
\* action is applied twice to one object, through faults, cancelled requests,
\* reanalyses and second approvals.
THEOREM NothingWrittenTwice == Spec => []NoDoubleWrite
BY MarkedInvariant, PTL DEF Marked

-----------------------------------------------------------------------------
(* One decision for one plan *)

Decision == {"approve-remediation", "reject-remediation"}

\* The status a request is about to write, if it comes to that.
Intent(w) ==
  /\ pc[w] \in {"idle", "approve"} => req[w].to = "approved"
  /\ pc[w] = "decide" => req[w].to \in {"approved", "rejected"}
  /\ pc[w] \in {"end", "endCAS"} => req[w].to \in {"failed", "resolved"}

Intents == \A w \in Worker : Intent(w)

LEMMA IntentsStep == Typed /\ Intents /\ [Next]_vars => Intents'
<1> SUFFICES ASSUME Typed, Intents, [Next]_vars PROVE Intents'
  OBVIOUS
<1>0. pc \in [Worker -> Label] /\ req \in [Worker -> Memory]
  BY DEF Typed, TypeOK
<1>1. ASSUME NEW w \in Worker, Step(w) \/ Fails(w) \/ Request(w) \/ Cancel(w) PROVE Intent(w)'
  <2>1. ASSUME Return(w) PROVE Intent(w)'
    BY <1>0, <2>1 DEF Return, Goto, Intent, Fresh
  <2>2. ASSUME NEW st \in {"failed", "resolved"}, Leave(w, st) PROVE Intent(w)'
    BY <1>0, <2>2 DEF Leave, Goto, Intent, Memory
  <2>3. ASSUME NEW l \in Label \ {"idle", "approve", "decide", "end", "endCAS"}, Goto(w, l)
        PROVE  Intent(w)'
    BY <1>0, <2>3 DEF Goto, Intent
  <2>4. CASE Request(w)
    BY <1>0, <2>4 DEF Request, Goto, Intents, Intent, Memory
  <2>5. CASE RecheckPlan(w)
    <3>1. CASE pc[w] = "approve" /\ Goto(w, "decide") /\ UNCHANGED req
      BY <1>0, <3>1 DEF Goto, Intents, Intent
    <3>2. QED BY <2>1, <2>5, <3>1 DEF RecheckPlan
  <2>6. CASE EndGet(w)
    <3>1. CASE pc[w] = "end" /\ Goto(w, "endCAS") /\ req' = [req EXCEPT ![w].from = status]
      BY <1>0, <3>1 DEF Goto, Intents, Intent, Memory
    <3>2. QED BY <2>1, <2>6, <3>1 DEF EndGet
  <2>7. CASE Decide(w) \/ EndCAS(w) \/ AuditRollback(w) \/ Fails(w) \/ Cancel(w)
    BY <2>1, <2>7 DEF Decide, EndCAS, AuditRollback, Fails, EndFails, RequestFails, Cancel
  <2>8. CASE CheckApproved(w) \/ actionsFromPlan(w) \/ BeginGet(w) \/ BeginCAS(w)
    BY <2>1, <2>3, <2>8 DEF CheckApproved, actionsFromPlan, BeginGet, BeginCAS, Label, Executing
  <2>9. CASE \/ CheckAction(w) \/ TakeSnapshot(w) \/ SaveSnapshot(w) \/ AuditStarted(w)
             \/ GetObject(w) \/ UpdateObject(w) \/ UpdateReplyLost(w) \/ RolloutObserved(w)
    BY <2>2, <2>3, <2>9 DEF CheckAction, TakeSnapshot, SaveSnapshot, AuditStarted, GetObject,
         UpdateObject, UpdateReplyLost, RolloutObserved, Label, Executing
  <2>10. CASE AuditSucceeded(w) \/ StatementFails(w) \/ WriteFails(w) \/ AuditFailed(w)
    BY <2>2, <2>3, <2>10 DEF AuditSucceeded, StatementFails, WriteFails, AuditFailed, Label,
         Executing
  <2>11. CASE FindSnapshot(w) \/ RestoreObject(w)
    BY <2>1, <2>3, <2>11 DEF FindSnapshot, RestoreObject, Label
  <2>12. QED
    BY <1>1, <2>4, <2>5, <2>6, <2>7, <2>8, <2>9, <2>10, <2>11 DEF Step
<1>2. ASSUME NEW v \in Worker, pc'[v] = pc[v], req'[v] = req[v] PROVE Intent(v)'
  BY <1>2 DEF Intents, Intent
<1>3. ASSUME NEW w \in Worker, Step(w) \/ Fails(w) \/ Request(w) \/ Cancel(w) PROVE Intents'
  BY <1>1, <1>2, <1>3, OthersStay DEF Intents
<1>4. CASE Crash
  BY <1>4 DEF Crash, Intents, Intent, Fresh
<1>5. CASE Environment \/ UNCHANGED vars
  BY <1>2, <1>5 DEF Environment, Reanalyze, ProposePlan, EndDiagnosis, ExternalWrite, vars, Intents
<1>6. QED BY <1>3, <1>4, <1>5 DEF Next

LEMMA RecordAppends ==
  ASSUME TypeOK, NEW a \in AuditAction, NEW p \in Nat, NEW i \in Nat, Record(a, p, i)
  PROVE  /\ DOMAIN audit' = DOMAIN audit \cup {Len(audit) + 1}
         /\ Len(audit) + 1 \notin DOMAIN audit
         /\ \A k \in DOMAIN audit : audit'[k] = audit[k]
         /\ audit'[Len(audit) + 1] = [action |-> a, plan |-> p, step |-> i]
<1> DEFINE e == [action |-> a, plan |-> p, step |-> i]
           R == [action: AuditAction, plan: Nat, step: Nat]
<1>1. e \in R /\ audit \in Seq(R) /\ audit' = Append(audit, e)
  BY DEF TypeOK, Record
<1> HIDE DEF e, R
<1>2. /\ DOMAIN audit = 1..Len(audit) /\ Len(audit) \in Nat
      /\ DOMAIN audit' = 1..(Len(audit) + 1)
      /\ \A k \in 1..Len(audit) : audit'[k] = audit[k]
      /\ audit'[Len(audit) + 1] = e
  BY <1>1, AppendProperties, LenProperties
<1>3. QED BY <1>2 DEF e

\* The audit chain grows by one record at a time.  One that is no decision reports what
\* its request did.
LEMMA AuditStep ==
  ASSUME Typed, Intents, [Next]_vars
  PROVE  \/ UNCHANGED audit
         \/ /\ DOMAIN audit' = DOMAIN audit \cup {Len(audit) + 1}
            /\ Len(audit) + 1 \notin DOMAIN audit
            /\ \A k \in DOMAIN audit : audit'[k] = audit[k]
            /\ \/ audit'[Len(audit) + 1].action \notin Decision
               \/ \E w \in Worker :
                    /\ Decide(w) /\ status = "awaiting_approval"
                    /\ status' \in {"approved", "rejected"}
                    /\ audit'[Len(audit) + 1].plan = Len(plans)
                    /\ status' = "approved" =>
                         audit'[Len(audit) + 1].action = "approve-remediation"
<1>0. /\ \A w \in Worker : req[w].plan \in Nat /\ req[w].step \in Nat
      /\ 0 \in Nat /\ Len(plans) \in Nat /\ TypeOK
  BY LenProperties DEF Typed, TypeOK, Memory
<1>1. ASSUME NEW w \in Worker, Decide(w), audit' # audit
      PROVE  \E a \in Decision :
               /\ Record(a, Len(plans), 0) /\ status = "awaiting_approval"
               /\ status' \in {"approved", "rejected"}
               /\ status' = "approved" => a = "approve-remediation"
  BY <1>1 DEF Decide, Intents, Intent, Decision
<1>2. ASSUME NEW w \in Worker, AuditStarted(w) \/ AuditSucceeded(w) \/ AuditFailed(w),
             audit' # audit
      PROVE  \E a \in AuditAction \ Decision : Record(a, req[w].plan, req[w].step)
  BY <1>2 DEF AuditStarted, AuditSucceeded, AuditFailed, AuditAction, Decision
<1>3. ASSUME NEW w \in Worker, AuditRollback(w), audit' # audit
      PROVE  \E a \in AuditAction \ Decision : Record(a, 0, 0)
  BY <1>3 DEF AuditRollback, AuditAction, Decision
<1>4. Decision \subseteq AuditAction
  BY DEF Decision, AuditAction
<1>5. ASSUME NEW w \in Worker, Decide(w), audit' # audit
      PROVE  \E a \in Decision :
               /\ DOMAIN audit' = DOMAIN audit \cup {Len(audit) + 1}
               /\ Len(audit) + 1 \notin DOMAIN audit
               /\ \A k \in DOMAIN audit : audit'[k] = audit[k]
               /\ audit'[Len(audit) + 1].plan = Len(plans)
               /\ audit'[Len(audit) + 1].action = a
               /\ status' = "approved" => a = "approve-remediation"
  <2>1. PICK a \in Decision : Record(a, Len(plans), 0)
                             /\ (status' = "approved" => a = "approve-remediation")
    BY <1>1, <1>5
  <2>2. a \in AuditAction
    BY <1>4
  <2>3. /\ DOMAIN audit' = DOMAIN audit \cup {Len(audit) + 1}
        /\ Len(audit) + 1 \notin DOMAIN audit
        /\ \A k \in DOMAIN audit : audit'[k] = audit[k]
        /\ audit'[Len(audit) + 1] = [action |-> a, plan |-> Len(plans), step |-> 0]
    BY <1>0, <2>1, <2>2, RecordAppends
  <2>4. QED BY <2>1, <2>3
<1>6. ASSUME NEW a \in AuditAction \ Decision, NEW p \in Nat, NEW i \in Nat, Record(a, p, i)
      PROVE  /\ DOMAIN audit' = DOMAIN audit \cup {Len(audit) + 1}
             /\ Len(audit) + 1 \notin DOMAIN audit
             /\ \A k \in DOMAIN audit : audit'[k] = audit[k]
             /\ audit'[Len(audit) + 1].action \notin Decision
  <2>1. a \in AuditAction
    BY <1>6
  <2>2. /\ DOMAIN audit' = DOMAIN audit \cup {Len(audit) + 1}
        /\ Len(audit) + 1 \notin DOMAIN audit
        /\ \A k \in DOMAIN audit : audit'[k] = audit[k]
        /\ audit'[Len(audit) + 1] = [action |-> a, plan |-> p, step |-> i]
    BY <1>0, <1>6, <2>1, RecordAppends
  <2>3. QED BY <1>6, <2>2
<1>7. CASE \E w \in Worker : Decide(w)
  BY <1>1, <1>5, <1>7
<1>8. CASE \E w \in Worker : \/ AuditStarted(w) \/ AuditSucceeded(w)
                            \/ AuditFailed(w) \/ AuditRollback(w)
  <2>1. CASE UNCHANGED audit
    BY <2>1
  <2>2. CASE ~UNCHANGED audit
    <3>1. \E a \in AuditAction \ Decision, p \in Nat, i \in Nat : Record(a, p, i)
      BY <1>0, <1>2, <1>3, <1>8, <2>2
    <3>2. QED BY <1>6, <3>1
  <2>3. QED BY <2>1, <2>2
<1>9. QED BY <1>7, <1>8, Writers DEF vars, db

\* With DecidedOnce: no decision is about a plan to come, and none about the one that
\* waits for its decision.
Decided ==
  /\ DecidedOnce
  /\ \A k \in DOMAIN audit : audit[k].action \in Decision =>
       /\ audit[k].plan <= Len(plans)
       /\ status \in {"proposing", "awaiting_approval"} => audit[k].plan # Len(plans)

\* How the status and the plans move, for the one who counts decisions.
LEMMA StatusStep ==
  ASSUME Typed, Exclusion, Intents, [Next]_vars
  PROVE  \/ UNCHANGED <<status, plans>>
         \/ UNCHANGED plans /\ status' \in {"received", "failed"}
         \/ UNCHANGED plans /\ status = "proposing" /\ status' = "awaiting_approval"
         \/ UNCHANGED plans /\ status = "approved" /\ status' = "executing"
         \/ UNCHANGED plans /\ status = "executing" /\ status' = "resolved"
         \/ UNCHANGED plans /\ status = "awaiting_approval"
            /\ status' \in {"approved", "rejected"} /\ \E w \in Worker : Decide(w)
         \/ status' = "proposing" /\ Len(plans') = Len(plans) + 1
<1>0. UNCHANGED status => UNCHANGED plans
  <2>1. ProposePlan => status' # status
    BY DEF ProposePlan
  <2>2. UNCHANGED plans \/ ProposePlan
  BY DEF Next, Step, Fails, EndFails, RequestFails, Environment, Request, RecheckPlan, Decide,
         CheckApproved, actionsFromPlan, BeginGet, BeginCAS, CheckAction, TakeSnapshot,
         SaveSnapshot, AuditStarted, GetObject, UpdateObject, UpdateReplyLost, RolloutObserved,
         AuditSucceeded, StatementFails, WriteFails, AuditFailed, EndGet, EndCAS, FindSnapshot,
         RestoreObject, AuditRollback, Reanalyze, EndDiagnosis, ExternalWrite, Cancel, Crash,
         Local, db, vars
  <2>3. QED BY <2>1, <2>2
<1>1. CASE Reanalyze \/ EndDiagnosis
  BY <1>1 DEF Reanalyze, EndDiagnosis
<1>2. CASE ProposePlan
  <2>1. PICK p \in Plan : plans' = Append(plans, p) /\ status' = "proposing"
    BY <1>2 DEF ProposePlan
  <2>2. QED BY <2>1, AppendProperties DEF Typed, TypeOK
<1>3. ASSUME NEW w \in Worker, Decide(w), status' # status
      PROVE  /\ UNCHANGED plans /\ status = "awaiting_approval"
             /\ status' \in {"approved", "rejected"}
  BY <1>3 DEF Decide, Intents, Intent
<1>4. ASSUME NEW w \in Worker, BeginCAS(w), status' # status
      PROVE  UNCHANGED plans /\ status = "approved" /\ status' = "executing"
  BY <1>4 DEF BeginCAS, Exclusion
<1>5. ASSUME NEW w \in Worker, EndCAS(w), status' # status
      PROVE  UNCHANGED plans /\ status = "executing" /\ status' \in {"failed", "resolved"}
  BY <1>5 DEF EndCAS, Intents, Intent, Exclusion, SingleExecutor, Executing
<1>6. QED BY <1>0, <1>1, <1>2, <1>3, <1>4, <1>5, Writers DEF vars, db

LEMMA DecidedStep == Typed /\ Exclusion /\ Intents /\ Decided /\ [Next]_vars => Decided'
<1> SUFFICES ASSUME Typed, Exclusion, Intents, Decided, [Next]_vars PROVE Decided'
  OBVIOUS
<1> DEFINE n == Len(audit) + 1
<1>0. /\ Len(plans) \in Nat /\ Len(plans') \in Nat /\ Len(plans) <= Len(plans')
      /\ DOMAIN plans = 1..Len(plans) /\ DOMAIN plans' = 1..Len(plans')
      /\ \A k \in DOMAIN audit : audit[k].plan \in Nat
  <2>1. Len(plans) \in Nat /\ DOMAIN plans = 1..Len(plans)
    BY LenProperties DEF Typed, TypeOK
  <2>2. plans' \in Seq(Plan) /\ Len(plans) <= Len(plans')
    <3>1. CASE Next
      BY <3>1, PlansGrow DEF Typed
    <3>2. CASE UNCHANGED vars
      BY <2>1, <3>2 DEF vars, db, Typed, TypeOK
    <3>3. QED BY <3>1, <3>2
  <2>3. \A k \in DOMAIN audit : audit[k] \in [action: AuditAction, plan: Nat, step: Nat]
    BY LenProperties, ElementOfSeq DEF Typed, TypeOK
  <2>4. QED BY <2>1, <2>2, <2>3, LenProperties
<1>1. DOMAIN audit \subseteq DOMAIN audit' /\ \A k \in DOMAIN audit : audit'[k] = audit[k]
  BY AuditStep
<1>2. ASSUME NEW k \in DOMAIN audit', k \notin DOMAIN audit, audit'[k].action \in Decision
      PROVE  /\ k = n /\ audit'[k].plan = Len(plans) /\ UNCHANGED plans
             /\ status = "awaiting_approval" /\ status' \in {"approved", "rejected"}
             /\ status' = "approved" => audit'[k].action = "approve-remediation"
  BY <1>2, AuditStep DEF Decide
<1>3. ASSUME NEW j \in DOMAIN audit', NEW k \in DOMAIN audit', audit'[j].plan = audit'[k].plan,
             audit'[j].action \in Decision, audit'[k].action \in Decision,
             audit'[j].plan \in DOMAIN plans'
      PROVE  j = k
  <2>1. CASE j \in DOMAIN audit /\ k \in DOMAIN audit
    <3>1. audit[j].plan \in DOMAIN plans
      BY <1>0, <1>1, <1>3, <2>1 DEF Decided
    <3>2. QED BY <1>1, <1>3, <2>1, <3>1 DEF Decided, DecidedOnce, Decision
  <2>2. CASE j \notin DOMAIN audit /\ k \notin DOMAIN audit
    BY <1>2, <1>3, <2>2
  <2>3. CASE j \in DOMAIN audit /\ k \notin DOMAIN audit
    BY <1>1, <1>2, <1>3, <2>3 DEF Decided
  <2>4. CASE j \notin DOMAIN audit /\ k \in DOMAIN audit
    BY <1>1, <1>2, <1>3, <2>4 DEF Decided
  <2>5. QED BY <2>1, <2>2, <2>3, <2>4
<1>4. ASSUME status' \in {"approved", "executing", "resolved"}
      PROVE  \E k \in DOMAIN audit' :
               audit'[k].plan = Len(plans') /\ audit'[k].action = "approve-remediation"
  <2>1. CASE UNCHANGED plans /\ status \in {"approved", "executing", "resolved"}
    <3>1. PICK k \in DOMAIN audit :
            audit[k].plan = Len(plans) /\ audit[k].action = "approve-remediation"
      BY <2>1 DEF Decided, DecidedOnce
    <3>2. QED BY <1>1, <2>1, <3>1
  <2>2. CASE UNCHANGED plans /\ status' = "approved" /\ status = "awaiting_approval"
    <3>1. PICK w \in Worker : Decide(w)
      BY <2>2, StatusStep
    <3>2. n \in DOMAIN audit' /\ n \notin DOMAIN audit /\ audit'[n].action \in Decision
      <4>1. \E a \in Decision : Record(a, Len(plans), 0)
        BY <2>2, <3>1 DEF Decide, Decision
      <4>2. Decision \subseteq AuditAction /\ 0 \in Nat
        BY DEF Decision, AuditAction
      <4>3. PICK a \in Decision : Record(a, Len(plans), 0)
        BY <4>1
      <4>4. a \in AuditAction
        BY <4>2
      <4>5. /\ n \in DOMAIN audit' /\ n \notin DOMAIN audit
            /\ audit'[n] = [action |-> a, plan |-> Len(plans), step |-> 0]
        BY <1>0, <4>2, <4>3, <4>4, RecordAppends DEF Typed
      <4>6. QED BY <4>5
    <3>3. QED BY <1>2, <2>2, <3>2
  <2>3. QED BY <1>4, <2>1, <2>2, StatusStep
<1>5. ASSUME NEW k \in DOMAIN audit', audit'[k].action \in Decision
      PROVE  /\ audit'[k].plan <= Len(plans')
             /\ status' \in {"proposing", "awaiting_approval"} => audit'[k].plan # Len(plans')
  <2>1. CASE k \notin DOMAIN audit
    BY <1>0, <1>2, <1>5, <2>1
  <2>2. CASE k \in DOMAIN audit
    <3>1. audit'[k] = audit[k] /\ audit[k].plan \in Nat /\ audit[k].plan <= Len(plans)
      BY <1>0, <1>1, <1>5, <2>2 DEF Decided
    <3>2. CASE status' = "proposing" /\ Len(plans') = Len(plans) + 1
      BY <1>0, <3>1, <3>2
    <3>3. CASE UNCHANGED plans /\ (status' \in {"proposing", "awaiting_approval"}
                                   => status \in {"proposing", "awaiting_approval"})
      BY <1>0, <1>5, <2>2, <3>1, <3>3 DEF Decided
    <3>4. QED BY <3>2, <3>3, StatusStep
  <2>3. QED BY <2>1, <2>2
<1>6. DecidedOnce'
  BY <1>3, <1>4 DEF DecidedOnce, Decision
<1>7. QED BY <1>5, <1>6 DEF Decided

LEMMA DecidedInvariant == Spec => [](Intents /\ Decided)
<1>1. Init => Intents /\ Decided
  BY DEF Init, Intents, Intent, Fresh, Decided, DecidedOnce
<1>2. QED BY <1>1, IntentsStep, DecidedStep, TypedInvariant, ExclusionInvariant, PTL DEF Spec

\* However many operators approve and reject at the same time: a plan is decided once, and
\* what is approved, executing or resolved has the approval of its latest plan on record
\* (DecisionStore.Decide, remediation/decision_store.go).
THEOREM OneDecisionPerPlan == Spec => []DecidedOnce
BY DecidedInvariant, PTL DEF Decided

-----------------------------------------------------------------------------
(* Every write announced and covered *)

\* A snapshot is no newer than the object, and what the object is while the version is.
Dated(sn, o) ==
  /\ sn.version <= o.version
  /\ sn.version = o.version => sn.content = o.content

\* Snapshots are dated, those just taken and those to be restored included.
Versioned ==
  /\ \A sn \in snapshots : Dated(sn, object[sn.target])
  /\ \A w \in Worker : /\ pc[w] = "save" => Dated(req[w].snap, object[req[w].snap.target])
                       /\ pc[w] = "restore" => req[w].snap \in snapshots

\* What the executor is about to do with its action is what its snapshot is of.
Covers(w) ==
  /\ req[w].snap.kind = ActionOf(w).kind /\ req[w].snap.target = TargetOf(ActionOf(w))
  /\ req[w].snap.content = object[TargetOf(ActionOf(w))].content \/ externals > 0

Announces(records, p, i) ==
  \E k \in DOMAIN records : records[k] = [action |-> "execution_started", plan |-> p, step |-> i]

Saved(saved, action, content, others) ==
  \E sn \in saved : /\ sn.kind = action.kind /\ sn.target = TargetOf(action)
                    /\ sn.content = content \/ others > 0

WriteCovered(i) ==
  /\ Announces(audit, writes[i].plan, writes[i].step)
  /\ Saved(snapshots, WrittenAction(i), writes[i].before, externals)

Covered ==
  /\ \A i \in DOMAIN writes : WriteCovered(i)
  /\ \A w \in Worker :
       /\ pc[w] \in {"save", "auditStarted", "get", "update"} => Covers(w)
       /\ pc[w] \in {"auditStarted", "get", "update"} => req[w].snap \in snapshots
       /\ pc[w] \in {"get", "update"} => Announces(audit, req[w].plan, req[w].step)

\* A request that is about to restore has just found its snapshot.
LEMMA RestoresAStored ==
  ASSUME Typed, [Next]_vars, NEW w \in Worker, pc'[w] = "restore"
  PROVE  \/ pc[w] = "restore" /\ req'[w] = req[w]
         \/ req'[w].snap \in snapshots
<1>0. pc \in [Worker -> Label] /\ req \in [Worker -> Memory]
  BY DEF Typed, TypeOK
<1>1. ASSUME Step(w) \/ Fails(w) \/ Request(w) \/ Cancel(w) PROVE req'[w].snap \in snapshots
  <2>1. FindSnapshot(w)
    BY <1>0, <1>1 DEF Step, Request, RecheckPlan, Decide, CheckApproved, actionsFromPlan,
       BeginGet, BeginCAS, CheckAction, TakeSnapshot, SaveSnapshot, AuditStarted, GetObject,
       UpdateObject, UpdateReplyLost, RolloutObserved, AuditSucceeded, StatementFails,
       WriteFails, AuditFailed, EndGet, EndCAS, RestoreObject, AuditRollback,
       Fails, EndFails, RequestFails, Cancel, Goto, Return, Leave
  <2>2. PICK sn \in snapshots : req' = [req EXCEPT ![w].snap = sn]
    BY <1>0, <2>1 DEF FindSnapshot, Return, Goto
  <2>3. QED BY <1>0, <2>2 DEF Memory
<1>2. ASSUME NEW v \in Worker, v # w, Step(v) \/ Fails(v) \/ Request(v) \/ Cancel(v)
      PROVE  pc'[w] = pc[w] /\ req'[w] = req[w]
  BY <1>2, OthersStay
<1>3. CASE Crash
  BY <1>3 DEF Crash
<1>4. CASE Environment \/ UNCHANGED vars
  BY <1>4 DEF Environment, Reanalyze, ProposePlan, EndDiagnosis, ExternalWrite, vars
<1>5. QED BY <1>1, <1>2, <1>3, <1>4 DEF Next

\* A change of an object takes a new version, or is none of the content: a rollback is
\* accepted only while the object still is what was saved.
LEMMA ObjectStep ==
  ASSUME Typed, Versioned, [Next]_vars
  PROVE  /\ \A t \in Target :
              \/ object'[t] = object[t]
              \/ object[t].version < object'[t].version
         /\ \/ externals' > 0
            \/ \E w \in Worker : pc[w] = "update" /\ pc'[w] \notin Guarding
            \/ \A t \in Target : object'[t].content = object[t].content
         /\ externals \in Nat /\ externals' >= externals
<1>0. /\ object \in [Target -> Object] /\ externals \in Nat /\ pc \in [Worker -> Label]
      /\ \A t \in Target : object[t].version \in Nat
  BY DEF Typed, TypeOK, Object
<1>1. externals' >= externals
  BY <1>0, Writers DEF ExternalWrite, vars, env
<1>2. ASSUME NEW w \in Worker, UpdateObject(w) \/ UpdateReplyLost(w)
      PROVE  /\ pc[w] = "update" /\ pc'[w] \notin Guarding
             /\ \A t \in Target : object'[t] = object[t] \/ object[t].version < object'[t].version
  <2>1. pc[w] = "update" /\ \E l \in {"wait", "auditSucceeded", "auditFailed"} : Goto(w, l)
    BY <1>2 DEF UpdateObject, UpdateReplyLost
  <2>2. Write(w) \/ UNCHANGED object
    BY <1>2 DEF UpdateObject, UpdateReplyLost
  <2>3. QED BY <1>0, <2>1, <2>2 DEF Write, Goto, Guarding
<1>3. ASSUME NEW w \in Worker, RestoreObject(w)
      PROVE  \A t \in Target : /\ object'[t].content = object[t].content
                              /\ \/ object'[t] = object[t]
                                 \/ object[t].version < object'[t].version
  <2> DEFINE sn == req[w].snap
  <2>1. pc[w] = "restore"
    BY <1>3 DEF RestoreObject
  <2>2. sn \in snapshots /\ sn \in Snapshot
    BY <2>1 DEF Versioned, Typed, RequestKnows, Knows
  <2>3. CASE UNCHANGED object
    BY <2>3
  <2>4. CASE /\ object[sn.target].version = sn.version
             /\ object' = [object EXCEPT ![sn.target] = [content |-> sn.content,
                                                        version |-> @.version + 1]]
    <3>1. sn.content = object[sn.target].content /\ sn.target \in Target
      BY <2>2, <2>4 DEF Versioned, Dated, Snapshot
    <3>2. QED BY <1>0, <2>4, <3>1
  <2>5. QED BY <1>3, <2>3, <2>4 DEF RestoreObject
<1>4. ASSUME ExternalWrite
      PROVE  /\ externals' > 0
             /\ \A t \in Target : object'[t] = object[t] \/ object[t].version < object'[t].version
  BY <1>0, <1>4 DEF ExternalWrite
<1>5. \/ UNCHANGED object \/ ExternalWrite
      \/ \E w \in Worker : UpdateObject(w) \/ UpdateReplyLost(w) \/ RestoreObject(w)
  BY Writers DEF vars
<1>6. \A t \in Target : object'[t] = object[t] \/ object[t].version < object'[t].version
  BY <1>2, <1>3, <1>4, <1>5
<1>7. \/ externals' > 0
      \/ \E w \in Worker : pc[w] = "update" /\ pc'[w] \notin Guarding
      \/ \A t \in Target : object'[t].content = object[t].content
  <2>1. CASE UNCHANGED object
    BY <2>1
  <2>2. CASE \E w \in Worker : UpdateObject(w) \/ UpdateReplyLost(w)
    BY <1>2, <2>2
  <2>3. CASE \E w \in Worker : RestoreObject(w)
    BY <1>3, <2>3
  <2>4. QED BY <1>4, <1>5, <2>1, <2>2, <2>3
<1>8. QED BY <1>0, <1>1, <1>6, <1>7

LEMMA VersionedStep == Typed /\ Versioned /\ [Next]_vars => Versioned'
<1> SUFFICES ASSUME Typed, Versioned, [Next]_vars PROVE Versioned'
  OBVIOUS
<1>0. \A t \in Target : object[t].version \in Nat /\ object[t] \in Object
  BY DEF Typed, TypeOK, Object
<1>1. ASSUME NEW sn \in Snapshot, Dated(sn, object[sn.target]) PROVE Dated(sn, object'[sn.target])
  <2>1. sn.target \in Target /\ sn.version \in Nat
    BY DEF Snapshot
  <2>2. CASE object'[sn.target] = object[sn.target]
    BY <1>1, <2>2 DEF Dated
  <2>3. CASE object[sn.target].version < object'[sn.target].version
    <3>1. object'[sn.target].version \in Nat
      <4>1. Typed'
        BY RequestStep, TypeStep DEF Typed, RequestTyped, TypeOK, RequestKnows, Knows, vars, db,
           hist, env
      <4>2. QED BY <2>1, <4>1 DEF Typed, TypeOK, Object
    <3>2. QED BY <1>0, <1>1, <2>1, <2>3, <3>1 DEF Dated
  <2>4. QED BY <2>1, <2>2, <2>3, ObjectStep
<1>2. \A sn \in snapshots : sn \in Snapshot /\ Dated(sn, object[sn.target])
  BY DEF Typed, TypeOK, Versioned
<1>3. ASSUME NEW w \in Worker, pc[w] = "save"
      PROVE  req[w].snap \in Snapshot /\ Dated(req[w].snap, object[req[w].snap.target])
  BY <1>3 DEF Versioned, Typed, RequestKnows, Knows
<1>4. ASSUME NEW sn \in snapshots' PROVE Dated(sn, object'[sn.target])
  <2>1. CASE sn \in snapshots
    BY <1>1, <1>2, <2>1
  <2>2. CASE sn \notin snapshots
    <3>1. PICK w \in Worker : SaveSnapshot(w)
      BY <1>4, <2>2, SnapshotsStep
    <3>2. pc[w] = "save" /\ sn = req[w].snap
      BY <1>4, <2>2, <3>1 DEF SaveSnapshot
    <3>3. QED BY <1>1, <1>3, <3>2
  <2>3. QED BY <2>1, <2>2
<1>5. ASSUME NEW w \in Worker, pc'[w] = "save"
      PROVE  Dated(req'[w].snap, object'[req'[w].snap.target])
  <2>1. CASE pc[w] = "save" /\ req'[w] = req[w]
    BY <1>1, <1>3, <2>1
  <2>2. CASE TakeSnapshot(w)
    <3>1. pc[w] = "snapshot" /\ UNCHANGED object
      BY <2>2 DEF TakeSnapshot, Local
    <3>2. TargetOf(ActionOf(w)) \in Target
      BY <3>1, AtItsAction DEF AtAction, Executing
    <3>3. /\ req'[w].snap.target = TargetOf(ActionOf(w))
          /\ req'[w].snap.version = object[TargetOf(ActionOf(w))].version
          /\ req'[w].snap.content = object[TargetOf(ActionOf(w))].content
      BY <2>2 DEF TakeSnapshot, Typed, TypeOK, Memory
    <3>4. QED BY <1>0, <3>1, <3>2, <3>3 DEF Dated
  <2>3. QED BY <1>5, <2>1, <2>2, GuardingStep DEF Guards, Guarding
<1>6. ASSUME NEW w \in Worker, pc'[w] = "restore" PROVE req'[w].snap \in snapshots'
  BY <1>6, RestoresAStored, SnapshotsStep DEF Versioned
<1>7. QED BY <1>4, <1>5, <1>6 DEF Versioned

LEMMA CoveredStep ==
  /\ Typed /\ Exclusion /\ Vetted /\ Intents /\ Versioned /\ Covered
  /\ [Next]_vars
  => Covered'
<1> SUFFICES ASSUME Typed, Exclusion, Vetted, Intents, Versioned, Covered, [Next]_vars
             PROVE  Covered'
  OBVIOUS
<1>0. /\ \A p, i : Announces(audit, p, i) => Announces(audit', p, i)
      /\ snapshots \subseteq snapshots' /\ (externals > 0 => externals' > 0)
  <2>1. ASSUME NEW p, NEW i, Announces(audit, p, i) PROVE Announces(audit', p, i)
    BY <2>1, AuditStep DEF Announces
  <2>2. snapshots \subseteq snapshots'
    BY SnapshotsStep
  <2>3. externals > 0 => externals' > 0
    <3>1. externals \in Nat /\ externals' >= externals
      BY ObjectStep
    <3>2. externals' \in Int
      BY Writers DEF ExternalWrite, vars, env, Typed, TypeOK
    <3>3. QED BY <3>1, <3>2
  <2>4. QED BY <2>1, <2>2, <2>3
\* Behind the checks of an action the object keeps its content, or others write.
<1>1. ASSUME NEW w \in Worker, pc'[w] \in Guarding
      PROVE  /\ ActionOf(w)' = ActionOf(w) /\ TargetOf(ActionOf(w)) \in Target
             /\ \/ externals' > 0
                \/ \A t \in Target : object'[t].content = object[t].content
  <2>1. ActionOf(w)' = ActionOf(w) /\ pc[w] \in AtAction
    BY <1>1, GuardingStep DEF Guards, Guarding, AtAction, Executing
  <2>2. ASSUME NEW v \in Worker, pc[v] = "update", pc'[v] \notin Guarding PROVE FALSE
    BY <1>1, <2>1, <2>2 DEF Exclusion, SingleExecutor, AtAction, Executing
  <2>3. QED BY <2>1, <2>2, AtItsAction, ObjectStep
<1>2. ASSUME NEW w \in Worker, pc'[w] \in {"save", "auditStarted", "get", "update"}
      PROVE  Covers(w)'
  <2>0. pc'[w] \in Guarding
    BY <1>2 DEF Guarding
  <2>1. CASE pc[w] \in {"save", "auditStarted", "get", "update"} /\ req'[w].snap = req[w].snap
    BY <1>0, <1>1, <2>0, <2>1 DEF Covered, Covers
  <2>2. CASE TakeSnapshot(w)
    <3>1. UNCHANGED object
      BY <2>2 DEF TakeSnapshot, Local
    <3>2. /\ req'[w].snap.kind = ActionOf(w).kind
          /\ req'[w].snap.target = TargetOf(ActionOf(w))
          /\ req'[w].snap.content = object[TargetOf(ActionOf(w))].content
      BY <2>2 DEF TakeSnapshot, Typed, TypeOK, Memory
    <3>3. QED BY <1>1, <2>0, <3>1, <3>2 DEF Covers
  <2>3. ASSUME SaveSnapshot(w) \/ AuditStarted(w) \/ GetObject(w)
        PROVE  pc[w] \in {"save", "auditStarted", "get"} /\ req'[w].snap = req[w].snap
    BY <2>3 DEF SaveSnapshot, AuditStarted, GetObject, Typed, TypeOK, Memory
  <2>4. QED BY <1>2, <2>0, <2>1, <2>2, <2>3, GuardingStep DEF Guards
<1>3. ASSUME NEW w \in Worker, pc'[w] \in {"auditStarted", "get", "update"}
      PROVE  /\ req'[w].snap \in snapshots'
             /\ pc'[w] \in {"get", "update"} => Announces(audit', req'[w].plan, req'[w].step)
  <2>0. pc'[w] \in Guarding
    BY <1>3 DEF Guarding
  <2>1. CASE pc'[w] = pc[w] /\ req'[w] = req[w]
    BY <1>0, <1>3, <2>1 DEF Covered
  <2>2. CASE SaveSnapshot(w)
    <3>1. pc'[w] = "auditStarted"
      BY <2>2 DEF SaveSnapshot, Goto, Typed, TypeOK
    <3>2. req'[w].snap \in snapshots'
      BY <2>2 DEF SaveSnapshot
    <3>3. QED BY <3>1, <3>2
  <2>3. CASE AuditStarted(w)
    <3>1. /\ pc[w] = "auditStarted" /\ UNCHANGED req
          /\ Record("execution_started", req[w].plan, req[w].step)
      BY <2>3 DEF AuditStarted
    <3>2. "execution_started" \in AuditAction /\ req[w].plan \in Nat /\ req[w].step \in Nat
      BY DEF AuditAction, Typed, TypeOK, Memory
    <3>3. /\ Len(audit) + 1 \in DOMAIN audit'
          /\ audit'[Len(audit) + 1] = [action |-> "execution_started", plan |-> req[w].plan,
                                       step |-> req[w].step]
      BY <3>1, <3>2, RecordAppends DEF Typed
    <3>4. Announces(audit', req[w].plan, req[w].step)
      BY <3>3 DEF Announces
    <3>5. req[w].snap \in snapshots
      BY <3>1 DEF Covered
    <3>6. QED BY <1>0, <3>1, <3>4, <3>5
  <2>4. CASE GetObject(w)
    <3>1. /\ pc[w] = "get" /\ req'[w].snap = req[w].snap
          /\ req'[w].plan = req[w].plan /\ req'[w].step = req[w].step
      BY <2>4 DEF GetObject, Typed, TypeOK, Memory
    <3>2. req[w].snap \in snapshots /\ Announces(audit, req[w].plan, req[w].step)
      BY <3>1 DEF Covered
    <3>3. QED BY <1>0, <3>1, <3>2
  <2>5. ~TakeSnapshot(w)
    BY <1>3 DEF TakeSnapshot, Goto, Typed, TypeOK
  <2>6. QED BY <1>3, <2>0, <2>1, <2>2, <2>3, <2>4, <2>5, GuardingStep DEF Guards
<1>4. ASSUME NEW i \in DOMAIN writes' PROVE WriteCovered(i)'
  <2>1. CASE i \in DOMAIN writes
    <3>1. writes'[i] = writes[i] /\ WrittenAction(i)' = WrittenAction(i)
      BY <2>1, WrittenStays
    <3>2. /\ Announces(audit, writes[i].plan, writes[i].step)
          /\ Saved(snapshots, WrittenAction(i), writes[i].before, externals)
      BY <2>1 DEF Covered, WriteCovered
    <3>3. Saved(snapshots', WrittenAction(i), writes[i].before, externals')
      BY <1>0, <3>2 DEF Saved
    <3>4. Announces(audit', writes[i].plan, writes[i].step)
      BY <1>0, <3>2
    <3>5. QED BY <3>1, <3>3, <3>4 DEF WriteCovered
  <2>2. CASE i \notin DOMAIN writes
    <3>1. PICK w \in Worker : Writes(w) /\ i = Len(writes) + 1
      BY <1>4, <2>2, WritesStep DEF Writes
    <3>2. /\ pc[w] = "update" /\ writes'[i].plan = req[w].plan /\ writes'[i].step = req[w].step
          /\ writes'[i].before = object[TargetOf(ActionOf(w))].content
      BY <3>1 DEF Writes, Typed, TypeOK
    <3>3. Covers(w) /\ req[w].snap \in snapshots /\ Announces(audit, req[w].plan, req[w].step)
      BY <3>2 DEF Covered
    <3>4. WrittenAction(i)' = ActionOf(w)
      BY <3>1, NewlyWritten
    <3>5. Saved(snapshots', ActionOf(w), writes'[i].before, externals')
      BY <1>0, <3>2, <3>3 DEF Covers, Saved
    <3>6. Announces(audit', writes'[i].plan, writes'[i].step)
      BY <1>0, <3>2, <3>3
    <3>7. QED BY <3>4, <3>5, <3>6 DEF WriteCovered
  <2>3. QED BY <2>1, <2>2
<1>5. QED BY <1>2, <1>3, <1>4 DEF Covered

LEMMA CoveredInvariant == Spec => [](Versioned /\ Covered)
<1>1. Init => Versioned /\ Covered
  BY DEF Init, Versioned, Covered
<1>2. QED BY <1>1, VersionedStep, CoveredStep, TypedInvariant, ExclusionInvariant,
             VettedInvariant, DecidedInvariant, PTL DEF Spec

\* Through faults, reanalyses and rollbacks, whatever the executor has written is announced
\* in the audit chain, and a snapshot of that object holds what the write replaced, as long
\* as nobody else writes (Executor.Execute, remediation/executor.go).
THEOREM EveryWriteCovered == Spec => []WriteIsCovered
<1>1. Covered => WriteIsCovered
  BY DEF Covered, WriteCovered, Announces, Saved, WrittenAction, WriteIsCovered
<1>2. QED BY <1>1, CoveredInvariant, PTL

-----------------------------------------------------------------------------
(* A resolved incident is a plan applied *)

Wrote(ws, p, i) == \E k \in DOMAIN ws : ws[k].plan = p /\ ws[k].step = i

Applies(ws, records, p, i) ==
  /\ Wrote(ws, p, i)
  /\ \E k \in DOMAIN records :
       records[k] = [action |-> "execution_succeeded", plan |-> p, step |-> i]

\* The actions of plan p before step n are applied.
Done(ws, records, p, plan, n) ==
  \A i \in DOMAIN plan : i < n /\ plan[i].kind # "" => Applies(ws, records, p, i)

\* What a request in the executor has behind it.
Progress(w) ==
  /\ pc[w] \in Executing => executed = req[w].plan /\ executed \in 1..Len(plans)
  /\ pc[w] \in AtAction => Done(writes, audit, executed, plans[executed], req[w].step)
  /\ pc[w] \in {"wait", "auditSucceeded"} => Wrote(writes, executed, req[w].step)
  /\ pc[w] \in {"end", "endCAS"} /\ req[w].to = "resolved" =>
       Done(writes, audit, executed, plans[executed], Len(plans[executed]) + 1)

Resolved ==
  status = "resolved" =>
    /\ executed \in 1..Len(plans)
    /\ Done(writes, audit, executed, plans[executed], Len(plans[executed]) + 1)

Earned == Resolved /\ \A w \in Worker : Progress(w)

\* The next step leaves out display-only actions and nothing else.
LEMMA NextStepSkipsNothing ==
  ASSUME NEW plan \in Plan, NEW from \in Nat, NEW i \in 0..Len(plan), IsNextStep(i, plan, from)
  PROVE  \A j \in DOMAIN plan :
           plan[j].kind # "" /\ (j < i \/ i = 0) => j < from
<1>1. Len(plan) \in Nat /\ DOMAIN plan = 1..Len(plan) /\ i \in Nat
  BY PlanAssumption
<1> DEFINE left == {j \in DOMAIN plan : from <= j /\ plan[j].kind # ""}
<1>2. \/ i \in left /\ \A j \in left : i <= j
      \/ i = 0 /\ left = {}
  BY DEF IsNextStep
<1>3. i \in left => i # 0
  <2>1. 0 \notin 1..Len(plan)
    BY <1>1
  <2>2. 0 \notin DOMAIN plan
    BY <1>1, <2>1, Zenon
  <2>3. QED BY <2>2
<1>4. ASSUME NEW j \in DOMAIN plan, plan[j].kind # "", j < i \/ i = 0 PROVE j < from
  <2>1. j \in Nat
    BY <1>1
  <2>2. j \notin left
    <3>1. ~(j < i) \/ ~(i <= j)
      BY <1>1, <2>1
    <3>2. QED BY <1>2, <1>3, <1>4, <3>1
  <2>3. ~(from <= j)
    BY <1>4, <2>2
  <2>4. QED BY <2>1, <2>3
<1>5. QED BY <1>4

\* What is applied stays applied, a plan stays what it is, and another one begins only
\* from approved.
LEMMA ProgressFrame ==
  ASSUME Typed, Exclusion, Intents, [Next]_vars
  PROVE  /\ \A p, i : Applies(writes, audit, p, i) => Applies(writes', audit', p, i)
         /\ \A p, i : Wrote(writes, p, i) => Wrote(writes', p, i)
         /\ \A p \in 1..Len(plans) : /\ p \in 1..Len(plans') /\ plans'[p] = plans[p]
                                     /\ plans[p] \in Plan
         /\ \/ UNCHANGED executed
            \/ status = "approved" /\ \E w \in Worker : BeginCAS(w) /\ status' = "executing"
<1>1. DOMAIN writes \subseteq DOMAIN writes' /\ \A k \in DOMAIN writes : writes'[k] = writes[k]
  BY WritesStep DEF Writes
<1>2. DOMAIN audit \subseteq DOMAIN audit' /\ \A k \in DOMAIN audit : audit'[k] = audit[k]
  BY AuditStep
<1>3. \A p, i : Applies(writes, audit, p, i) => Applies(writes', audit', p, i)
  BY <1>1, <1>2 DEF Applies, Wrote
<1>4. \A p, i : Wrote(writes, p, i) => Wrote(writes', p, i)
  BY <1>1 DEF Wrote
<1>5. ASSUME NEW p \in 1..Len(plans)
      PROVE  p \in 1..Len(plans') /\ plans'[p] = plans[p] /\ plans[p] \in Plan
  <2>1. CASE Next
    <3>1. TypeOK /\ plans \in Seq(Plan) /\ Len(plans) \in Nat
      BY LenProperties DEF Typed, TypeOK
    <3>2. plans[p] \in Plan
      BY <1>5, <3>1, ElementOfSeq
    <3>3. Len(plans') \in Nat /\ Len(plans) <= Len(plans') /\ plans'[p] = plans[p]
      BY <1>5, <2>1, <3>1, PlansGrow
    <3>4. QED BY <1>5, <3>1, <3>2, <3>3
  <2>2. CASE UNCHANGED vars
    <3>1. UNCHANGED plans /\ plans \in Seq(Plan)
      BY <2>2 DEF vars, db, Typed, TypeOK
    <3>2. QED BY <1>5, <3>1, ElementOfSeq
  <2>3. QED BY <2>1, <2>2
<1>6. ASSUME NEW w \in Worker, BeginCAS(w), executed' # executed
      PROVE  status = "approved" /\ status' = "executing"
  BY <1>6 DEF BeginCAS, Exclusion
<1>7. QED BY <1>3, <1>4, <1>5, <1>6, Writers DEF vars, hist

LEMMA ProgressMoves ==
  ASSUME Typed, Exclusion, Intents, Earned, [Next]_vars,
         NEW w \in Worker, Step(w) \/ Fails(w) \/ Request(w) \/ Cancel(w)
  PROVE  Progress(w)'
<1> USE DEF Executing, AtAction
<1>0. /\ pc \in [Worker -> Label] /\ req \in [Worker -> Memory] /\ Progress(w)
      /\ pc[w] \in AtAction \cup {"beginCAS"} => req[w].plan \in 1..Len(plans)
      /\ req[w].step \in Nat /\ req[w].plan \in Nat
  BY DEF Typed, TypeOK, RequestKnows, Knows, Earned, Memory
<1>1. ASSUME pc'[w] \notin Executing PROVE Progress(w)'
  BY <1>1 DEF Progress
<1>2. ASSUME Return(w) PROVE Progress(w)'
  <2>1. pc'[w] = "idle"
    BY <1>0, <1>2 DEF Return, Goto
  <2>2. QED BY <1>1, <2>1
\* Within one action, where nothing new is claimed.
<1>3. ASSUME pc[w] \in AtAction, pc'[w] \in AtAction, UNCHANGED executed,
             req'[w].plan = req[w].plan, req'[w].step = req[w].step,
             pc'[w] \in {"wait", "auditSucceeded"} => Wrote(writes', executed, req[w].step)
      PROVE  Progress(w)'
  <2>1. /\ executed = req[w].plan /\ executed \in 1..Len(plans)
        /\ Done(writes, audit, executed, plans[executed], req[w].step)
    BY <1>0, <1>3 DEF Progress
  <2>2. Done(writes', audit', executed, plans'[executed], req[w].step)
    BY <2>1, ProgressFrame DEF Done
  <2>3. QED BY <1>3, <2>1, <2>2, ProgressFrame DEF Progress
<1>4. ASSUME Leave(w, "failed"), pc[w] \in AtAction, UNCHANGED executed PROVE Progress(w)'
  <2>1. pc'[w] = "end" /\ req'[w].to = "failed" /\ req'[w].plan = req[w].plan
    BY <1>0, <1>4 DEF Leave, Goto, Memory
  <2>2. executed = req[w].plan /\ executed \in 1..Len(plans)
    BY <1>0, <1>4 DEF Progress
  <2>3. QED BY <1>4, <2>1, <2>2, ProgressFrame DEF Progress
<1>5. CASE Request(w)
  <2>1. pc'[w] \notin Executing
    BY <1>0, <1>5 DEF Request, Goto
  <2>2. QED BY <1>1, <2>1
<1>6. CASE \/ RecheckPlan(w) \/ Decide(w) \/ CheckApproved(w) \/ actionsFromPlan(w) \/ BeginGet(w)
           \/ FindSnapshot(w) \/ RestoreObject(w) \/ AuditRollback(w) \/ EndCAS(w) \/ Fails(w)
           \/ Cancel(w)
  <2>1. Return(w) \/ \E l \in Label \ Executing : Goto(w, l)
    BY <1>6 DEF RecheckPlan, Decide, CheckApproved, actionsFromPlan, BeginGet, FindSnapshot,
       RestoreObject, AuditRollback, EndCAS, Fails, EndFails, RequestFails, Cancel, Label
  <2>2. ASSUME NEW l \in Label \ Executing, Goto(w, l) PROVE pc'[w] \notin Executing
    BY <1>0, <2>2 DEF Goto
  <2>3. QED BY <1>1, <1>2, <2>1, <2>2
<1>7. CASE BeginCAS(w)
  <2>1. CASE status = req[w].from
    <3>1. /\ executed' = req[w].plan /\ UNCHANGED plans /\ pc'[w] = "check"
          /\ req[w].plan \in 1..Len(plans)
      BY <1>0, <1>7, <2>1 DEF BeginCAS, Goto
    <3>2. PICK i \in 1..Len(plans[req[w].plan]) :
            /\ IsNextStep(i, plans[req[w].plan], 1)
            /\ req' = [req EXCEPT ![w].step = i]
      BY <1>7, <2>1 DEF BeginCAS
    <3>3. req'[w].step = i /\ req'[w].plan = req[w].plan
      BY <1>0, <3>2 DEF Memory
    <3>4. /\ plans[req[w].plan] \in Plan /\ Len(plans[req[w].plan]) \in Nat
          /\ DOMAIN plans[req[w].plan] = 1..Len(plans[req[w].plan])
      BY <3>1, ProgressFrame, PlanAssumption
    <3>5. \A j \in DOMAIN plans[req[w].plan] :
            ~(j < i /\ plans[req[w].plan][j].kind # "")
      <4>1. i \in 0..Len(plans[req[w].plan]) /\ i \in Nat /\ i # 0 /\ 1 \in Nat
        BY <3>2, <3>4
      <4>2. \A j \in DOMAIN plans[req[w].plan] :
              plans[req[w].plan][j].kind # "" /\ (j < i \/ i = 0) => j < 1
        BY <3>2, <3>4, <4>1, NextStepSkipsNothing
      <4>3. ASSUME NEW j \in DOMAIN plans[req[w].plan] PROVE ~(j < 1)
        <5>1. j \in 1..Len(plans[req[w].plan])
          BY <3>4, <4>3, Zenon
        <5>2. QED BY <3>4, <5>1
      <4>4. QED BY <4>2, <4>3
    <3>6. QED BY <3>1, <3>3, <3>5 DEF Progress, Done
  <2>2. CASE status # req[w].from
    BY <1>2, <1>7, <2>2 DEF BeginCAS
  <2>3. QED BY <2>1, <2>2
<1>8. CASE CheckAction(w)
  <2>1. CASE Goto(w, "snapshot") /\ UNCHANGED req
    <3>1. pc[w] = "check" /\ pc'[w] = "snapshot" /\ UNCHANGED executed
      BY <1>0, <1>8, <2>1 DEF CheckAction, Goto, Local, hist
    <3>2. QED BY <1>3, <2>1, <3>1
  <2>2. QED BY <1>4, <1>8, <2>1 DEF CheckAction, Local, hist
<1>9. CASE TakeSnapshot(w) \/ SaveSnapshot(w) \/ AuditStarted(w) \/ GetObject(w)
  <2>1. pc[w] \in AtAction /\ UNCHANGED executed
    BY <1>9 DEF TakeSnapshot, SaveSnapshot, AuditStarted, GetObject, Local, hist
  <2>2. pc'[w] \in AtAction \ {"wait", "auditSucceeded"}
    BY <1>0, <1>9 DEF TakeSnapshot, SaveSnapshot, AuditStarted, GetObject, Goto
  <2>3. req'[w].plan = req[w].plan /\ req'[w].step = req[w].step
    BY <1>0, <1>9 DEF TakeSnapshot, SaveSnapshot, AuditStarted, GetObject, Memory
  <2>4. QED BY <1>3, <2>1, <2>2, <2>3
<1>10. CASE UpdateObject(w) \/ UpdateReplyLost(w)
  <2>1. pc[w] = "update" /\ UNCHANGED <<executed, req>>
    BY <1>10 DEF UpdateObject, UpdateReplyLost
  <2>2. pc'[w] \in AtAction
    BY <1>0, <1>10 DEF UpdateObject, UpdateReplyLost, Goto
  <2>3. pc'[w] \in {"wait", "auditSucceeded"} => Write(w)
    BY <1>0, <1>10 DEF UpdateObject, UpdateReplyLost, Goto
  <2>4. ASSUME Write(w) PROVE Wrote(writes', executed, req[w].step)
    <3>1. executed = req[w].plan
      BY <1>0, <2>1 DEF Progress
    <3>2. Writes(w)
      BY <1>10, <2>4, WriteAppends
    <3>3. QED BY <3>1, <3>2 DEF Writes, Wrote
  <2>5. QED BY <1>3, <2>1, <2>2, <2>3, <2>4
<1>11. CASE RolloutObserved(w)
  <2>1. /\ pc[w] = "wait" /\ pc'[w] = "auditSucceeded" /\ UNCHANGED <<req, executed, writes>>
    BY <1>0, <1>11 DEF RolloutObserved, Goto, Local, hist
  <2>2. QED BY <1>0, <1>3, <2>1 DEF Progress
<1>12. CASE AuditSucceeded(w)
  <2> DEFINE plan == plans[executed]
             n == req[w].step
  <2>1. /\ pc[w] = "auditSucceeded" /\ UNCHANGED <<plans, writes, executed>>
        /\ Record("execution_succeeded", req[w].plan, n)
    BY <1>12 DEF AuditSucceeded, hist
  <2>2. /\ executed = req[w].plan /\ executed \in 1..Len(plans) /\ n \in Nat
        /\ Done(writes, audit, executed, plan, n) /\ Wrote(writes, executed, n)
        /\ plan \in Plan /\ Len(plan) \in Nat /\ DOMAIN plan = 1..Len(plan)
    BY <1>0, <2>1, ProgressFrame, PlanAssumption DEF Progress
  <2>3. Applies(writes', audit', executed, n)
    <3>1. "execution_succeeded" \in AuditAction
      BY DEF AuditAction
    <3>2. /\ Len(audit) + 1 \in DOMAIN audit'
          /\ audit'[Len(audit) + 1] =
               [action |-> "execution_succeeded", plan |-> executed, step |-> n]
      BY <1>0, <2>1, <2>2, <3>1, RecordAppends DEF Typed
    <3>3. QED BY <2>1, <2>2, <3>2 DEF Applies
  <2>4. Done(writes', audit', executed, plan, n + 1)
    <3>1. ASSUME NEW i \in DOMAIN plan, i < n + 1, plan[i].kind # ""
          PROVE  Applies(writes', audit', executed, i)
      <4>0. i \in Nat /\ n \in Nat
        <5>1. i \in 1..Len(plan)
          BY <2>2, <3>1, Zenon
        <5>2. QED BY <2>2, <5>1
      <4>1. i = n \/ i < n
        <5>1. \A k, m \in Nat : k < m + 1 => k = m \/ k < m
          OBVIOUS
        <5>2. QED BY <3>1, <4>0, <5>1, Zenon
      <4>2. QED BY <2>2, <2>3, <3>1, <4>1, ProgressFrame DEF Done
    <3>2. QED BY <3>1 DEF Done
  <2>5. PICK i \in 0..Len(plan) :
          /\ IsNextStep(i, plan, n + 1)
          /\ IF i # 0 THEN Goto(w, "check") /\ req' = [req EXCEPT ![w].step = i]
                      ELSE Leave(w, "resolved")
    BY <1>12, <2>2 DEF AuditSucceeded
  <2>6. \A j \in DOMAIN plan : plan[j].kind # "" /\ (j < i \/ i = 0) => j < n + 1
    <3>1. n + 1 \in Nat
      BY <2>2
    <3>2. QED BY <2>2, <2>5, <3>1, NextStepSkipsNothing
  <2>7. CASE i # 0
    <3>1. pc'[w] = "check" /\ req'[w].step = i /\ req'[w].plan = req[w].plan
      BY <1>0, <2>5, <2>7 DEF Goto, Memory
    <3>2. Done(writes', audit', executed, plan, i)
      BY <2>4, <2>6 DEF Done
    <3>3. QED BY <2>1, <2>2, <3>1, <3>2 DEF Progress
  <2>8. CASE i = 0
    <3>1. pc'[w] = "end" /\ req'[w].plan = req[w].plan
      BY <1>0, <2>5, <2>8 DEF Leave, Goto, Memory
    <3>2. Done(writes', audit', executed, plan, Len(plan) + 1)
      BY <2>4, <2>6, <2>8 DEF Done
    <3>3. QED BY <2>1, <2>2, <3>1, <3>2 DEF Progress
  <2>9. QED BY <2>7, <2>8
<1>13. CASE StatementFails(w) \/ AuditFailed(w)
  BY <1>4, <1>13 DEF StatementFails, AuditFailed, Local, hist
<1>14. CASE WriteFails(w)
  <2>1. /\ pc[w] \in AtAction /\ pc'[w] = "auditFailed" /\ UNCHANGED <<req, executed>>
    BY <1>0, <1>14 DEF WriteFails, Goto, Local, hist
  <2>2. QED BY <1>3, <2>1
<1>15. CASE EndGet(w)
  <2>1. CASE Goto(w, "endCAS") /\ req' = [req EXCEPT ![w].from = status]
    <3>1. /\ pc[w] = "end" /\ pc'[w] = "endCAS" /\ req'[w].to = req[w].to
          /\ req'[w].plan = req[w].plan /\ UNCHANGED <<executed, plans, writes, audit>>
      BY <1>0, <1>15, <2>1 DEF EndGet, Goto, Local, hist, db, Memory
    <3>2. QED BY <1>0, <3>1 DEF Progress
  <2>2. QED BY <1>2, <1>15, <2>1 DEF EndGet
<1>16. QED
  BY <1>5, <1>6, <1>7, <1>8, <1>9, <1>10, <1>11, <1>12, <1>13, <1>14, <1>15 DEF Step

LEMMA EarnedStep == Typed /\ Exclusion /\ Intents /\ Earned /\ [Next]_vars => Earned'
<1> SUFFICES ASSUME Typed, Exclusion, Intents, Earned, [Next]_vars PROVE Earned'
  OBVIOUS
\* A request that stays where it is: nobody else begins while it is in the executor.
<1>1. ASSUME NEW w \in Worker, pc'[w] = pc[w], req'[w] = req[w] PROVE Progress(w)'
  <2>1. CASE pc[w] \in Executing
    <3>1. Progress(w) /\ executed \in 1..Len(plans) /\ status = "executing"
      BY <2>1 DEF Earned, Progress, Exclusion, SingleExecutor
    <3>2. UNCHANGED executed
      BY <3>1, ProgressFrame
    <3>3. \A n : Done(writes, audit, executed, plans[executed], n)
                   => Done(writes', audit', executed', plans'[executed'], n)
      BY <3>1, <3>2, ProgressFrame DEF Done
    <3>4. QED BY <1>1, <3>1, <3>2, <3>3, ProgressFrame DEF Progress
  <2>2. CASE pc[w] \notin Executing
    BY <1>1, <2>2 DEF Progress, AtAction, Executing
  <2>3. QED BY <2>1, <2>2
<1>2. ASSUME NEW w \in Worker PROVE Progress(w)'
  <2>1. ASSUME NEW v \in Worker, Step(v) \/ Fails(v) \/ Request(v) \/ Cancel(v) PROVE Progress(w)'
    BY <1>1, <2>1, ProgressMoves, OthersStay
  <2>2. CASE Crash
    BY <2>2 DEF Crash, Progress, AtAction, Executing
  <2>3. CASE Environment \/ UNCHANGED vars
    BY <1>1, <2>3 DEF Environment, Reanalyze, ProposePlan, EndDiagnosis, ExternalWrite, vars
  <2>4. QED BY <2>1, <2>2, <2>3 DEF Next
<1>3. Resolved'
  <2>1. SUFFICES ASSUME status' = "resolved" PROVE Resolved'
    BY DEF Resolved
  <2>2. UNCHANGED executed
    BY <2>1, ProgressFrame
  <2>3. /\ executed \in 1..Len(plans)
        /\ Done(writes, audit, executed, plans[executed], Len(plans[executed]) + 1)
    <3>1. CASE status = "resolved"
      BY <3>1 DEF Earned, Resolved
    <3>2. CASE status # "resolved"
      <4>1. PICK w \in Worker : EndCAS(w)
        BY <2>1, <3>2, Writers DEF Reanalyze, ProposePlan, EndDiagnosis, Decide, BeginCAS,
           Intents, Intent, vars, db
      <4>2. pc[w] = "endCAS" /\ req[w].to = "resolved"
        BY <2>1, <3>2, <4>1 DEF EndCAS
      <4>3. QED BY <4>2 DEF Earned, Progress, Executing
    <3>3. QED BY <3>1, <3>2
  <2>4. Done(writes', audit', executed, plans[executed], Len(plans[executed]) + 1)
    BY <2>3, ProgressFrame DEF Done
  <2>5. QED BY <2>2, <2>3, <2>4, ProgressFrame DEF Resolved
<1>4. QED BY <1>2, <1>3 DEF Earned

LEMMA EarnedInvariant == Spec => []Earned
<1>1. Init => Earned
  BY DEF Init, Earned, Resolved, Progress, AtAction, Executing
<1>2. QED BY <1>1, EarnedStep, TypedInvariant, ExclusionInvariant, DecidedInvariant, PTL DEF Spec

\* No incident is ever called resolved unless every action of the plan executed last was
\* written to the cluster and its success audited (Executor.Execute and
\* RemediationService.Execute, remediation/executor.go and service.go).
THEOREM ResolvedIsEarned == Spec => []ResolvedIsApplied
<1>1. Earned /\ Typed => ResolvedIsApplied
  <2> SUFFICES ASSUME Earned, Typed, status = "resolved" PROVE ResolvedIsApplied
    BY DEF ResolvedIsApplied
  <2>1. plans[executed] \in Plan
    BY ElementOfSeq DEF Earned, Resolved, Typed, TypeOK
  <2>2. /\ Len(plans[executed]) \in Nat
        /\ DOMAIN plans[executed] = 1..Len(plans[executed])
    BY <2>1, PlanAssumption
  <2>3. ASSUME NEW i \in DOMAIN plans[executed], plans[executed][i].kind # ""
        PROVE  Applies(writes, audit, executed, i)
    <3>1. i \in 1..Len(plans[executed])
      BY <2>2, <2>3, Zenon
    <3>2. i < Len(plans[executed]) + 1
      BY <2>2, <3>1
    <3>3. QED BY <2>3, <3>2 DEF Earned, Resolved, Done
  <2>4. QED BY <2>3 DEF Applies, Wrote, ResolvedIsApplied
<1>2. QED BY <1>1, EarnedInvariant, TypedInvariant, PTL

-----------------------------------------------------------------------------
(* Remediation implements ApprovalGate *)

\* The plan whose execution began last is a stored one.
Begun == executed \in 0..Len(plans)

LEMMA BegunStep == Typed /\ Begun /\ [Next]_vars => Begun'
<1> SUFFICES ASSUME Typed, Begun, [Next]_vars PROVE Begun'
  OBVIOUS
<1>1. CASE UNCHANGED vars
  BY <1>1 DEF vars, db, hist, Begun
<1>2. CASE Next
  <2>1. Len(plans) \in Nat /\ Len(plans') \in Nat /\ Len(plans) <= Len(plans')
    BY <1>2, PlansGrow DEF Typed
  <2>2. ASSUME NEW w \in Worker, BeginCAS(w), executed' # executed
        PROVE  executed' \in 1..Len(plans)
    BY <2>2 DEF BeginCAS, Typed, RequestKnows, Knows
  <2>3. executed' \in 0..Len(plans)
    BY <1>2, <2>1, <2>2, Writers DEF Begun
  <2>4. QED BY <2>1, <2>3 DEF Begun
<1>3. QED BY <1>1, <1>2

LEMMA BegunInvariant == Spec => []Begun
<1>1. Init => Begun
  BY DEF Init, Begun
<1>2. QED BY <1>1, BegunStep, TypedInvariant, PTL DEF Spec

LEMMA RealActionsAreActions ==
  ASSUME TypeOK, NEW p \in 1..Len(plans)
  PROVE  RealActions(plans[p]) \subseteq Action
BY StepsAreActions DEF RealActions

\* What was proposed, begun and applied is what it was: a stored plan never changes.
LEMMA MappingStays ==
  ASSUME Typed, Vetted, Begun, [Next]_vars
  PROVE  /\ UNCHANGED plans => UNCHANGED Proposed
         /\ UNCHANGED executed => UNCHANGED InExecution
         /\ UNCHANGED writes => UNCHANGED Applied
<1>1. ASSUME UNCHANGED executed PROVE UNCHANGED InExecution
  <2>1. CASE executed = 0
    BY <1>1, <2>1 DEF InExecution
  <2>2. CASE executed # 0
    <3>1. executed \in 1..Len(plans)
      BY <2>2, LenProperties DEF Begun, Typed, TypeOK
    <3>2. plans'[executed] = plans[executed]
      BY <3>1, PlansGrow DEF Typed, vars, db
    <3>3. QED BY <1>1, <3>2 DEF InExecution, RealActions
  <2>3. QED BY <2>1, <2>2
<1>2. ASSUME UNCHANGED writes PROVE UNCHANGED Applied
  <2>1. DOMAIN writes = 1..Len(writes)
    BY LenProperties DEF Typed, TypeOK
  <2>2. \A k \in 1..Len(writes) : WrittenAction(k)' = WrittenAction(k)
    BY <2>1, WrittenStays
  <2>3. QED BY <1>2, <2>2 DEF Applied, WrittenAction
<1>3. UNCHANGED plans => UNCHANGED Proposed
  BY DEF Proposed, RealActions
<1>4. QED BY <1>1, <1>2, <1>3

\* The statements that show through.
LEMMA Visible ==
  ASSUME [Next]_vars
  PROVE  \/ UNCHANGED <<status, plans, executed, writes>>
         \/ Reanalyze \/ ProposePlan \/ EndDiagnosis
         \/ \E w \in Worker : \/ Decide(w) \/ BeginCAS(w) \/ EndCAS(w)
                              \/ UpdateObject(w) \/ UpdateReplyLost(w)
<1>1. UNCHANGED plans \/ ProposePlan
  BY DEF Next, Step, Fails, EndFails, RequestFails, Environment, Request, RecheckPlan, Decide,
         CheckApproved, actionsFromPlan, BeginGet, BeginCAS, CheckAction, TakeSnapshot,
         SaveSnapshot, AuditStarted, GetObject, UpdateObject, UpdateReplyLost, RolloutObserved,
         AuditSucceeded, StatementFails, WriteFails, AuditFailed, EndGet, EndCAS, FindSnapshot,
         RestoreObject, AuditRollback, Reanalyze, EndDiagnosis, ExternalWrite, Cancel, Crash,
         Local, db, vars
<1>2. QED BY <1>1, Writers DEF vars, db, hist

LEMMA GateStutters ==
  ASSUME UNCHANGED <<status, Proposed, InExecution, Applied>>
  PROVE  [Gate!GateNext]_(Gate!gate)
BY DEF Gate!gate

LEMMA EnvironmentAsGate ==
  ASSUME Typed, Vetted, Begun, [Next]_vars, Reanalyze \/ ProposePlan \/ EndDiagnosis
  PROVE  [Gate!GateNext]_(Gate!gate)
<1>1. UNCHANGED <<InExecution, Applied>>
  BY MappingStays DEF Reanalyze, ProposePlan, EndDiagnosis, hist
<1>2. CASE Reanalyze
  <2>1. UNCHANGED Proposed
    BY <1>2, MappingStays DEF Reanalyze
  <2>2. Gate!Restart
    BY <1>1, <1>2, <2>1 DEF Reanalyze, Gate!Restart, Gate!Terminal, Terminal
  <2>3. QED BY <2>2 DEF Gate!GateNext
<1>3. CASE EndDiagnosis
  <2>1. UNCHANGED Proposed
    BY <1>3, MappingStays DEF EndDiagnosis
  <2>2. Gate!Diagnose
    BY <1>1, <1>3, <2>1 DEF EndDiagnosis, Gate!Diagnose, Gate!Diagnosing
  <2>3. QED BY <2>2 DEF Gate!GateNext
<1>4. CASE ProposePlan
  <2>1. PICK p \in Plan : plans' = Append(plans, p)
    BY <1>4 DEF ProposePlan
  <2>2. /\ Len(plans) \in Nat /\ Len(plans') = Len(plans) + 1
        /\ plans'[Len(plans) + 1] = p
        /\ \A i \in 1..Len(plans) : plans'[i] = plans[i]
    BY <2>1, AppendProperties, LenProperties DEF Typed, TypeOK
  <2>3. RealActions(p) \in SUBSET Action
    <3>1. DOMAIN p = 1..Len(p)
      BY PlanAssumption
    <3>2. {p[i] : i \in DOMAIN p} \subseteq Action
      BY DEF Action
    <3>3. QED BY <3>1, <3>2 DEF RealActions
  <2>4. Proposed' = Proposed \cup {RealActions(p)}
    <3> DEFINE R(q) == RealActions(q)
    <3>1. Proposed' = {R(plans'[i]) : i \in 1..(Len(plans) + 1)}
      BY <2>2 DEF Proposed, RealActions
    <3>2. Proposed = {R(plans[i]) : i \in 1..Len(plans)}
      BY DEF Proposed
    <3>3. R(p) = RealActions(p)
      OBVIOUS
    <3> HIDE DEF R
    <3>4. 1..(Len(plans) + 1) = 1..Len(plans) \cup {Len(plans) + 1}
      BY <2>2
    <3>5. QED BY <2>2, <3>1, <3>2, <3>3, <3>4
  <2>5. Gate!Diagnose
    BY <1>1, <1>4, <2>3, <2>4 DEF ProposePlan, Gate!Diagnose, Gate!Diagnosing
  <2>6. QED BY <2>5 DEF Gate!GateNext
<1>5. QED BY <1>2, <1>3, <1>4

LEMMA DecisionAsGate ==
  ASSUME Typed, Vetted, Begun, Intents, [Next]_vars, NEW w \in Worker, Decide(w)
  PROVE  [Gate!GateNext]_(Gate!gate)
<1>1. UNCHANGED <<Proposed, InExecution, Applied>>
  BY MappingStays DEF Decide, hist
<1>2. CASE UNCHANGED status
  BY <1>1, <1>2, GateStutters
<1>3. CASE status = "awaiting_approval" /\ status' \in {"approved", "rejected"}
  BY <1>1, <1>3 DEF Gate!GateNext, Gate!Decide
<1>4. QED BY <1>2, <1>3 DEF Decide, Intents, Intent

LEMMA BeginAsGate ==
  ASSUME Typed, Vetted, Begun, Exclusion, [Next]_vars, NEW w \in Worker, BeginCAS(w)
  PROVE  [Gate!GateNext]_(Gate!gate)
<1>1. UNCHANGED <<Proposed, Applied, plans>>
  BY MappingStays DEF BeginCAS
<1>2. CASE UNCHANGED <<status, executed>>
  BY <1>1, <1>2, MappingStays, GateStutters
<1>3. CASE status = req[w].from /\ status' = "executing" /\ executed' = req[w].plan
           /\ \E i \in 1..Len(plans[req[w].plan]) : IsNextStep(i, plans[req[w].plan], 1)
  <2>1. status = "approved" /\ req[w].plan \in 1..Len(plans)
    BY <1>3 DEF BeginCAS, Exclusion, Typed, RequestKnows, Knows
  <2> DEFINE p == plans[req[w].plan]
  <2>2. p \in Plan /\ Len(p) \in Nat /\ DOMAIN p = 1..Len(p)
    BY <2>1, ElementOfSeq, PlanAssumption DEF Typed, TypeOK
  <2>3. PICK i \in 1..Len(p) : IsNextStep(i, p, 1)
    BY <1>3
  <2>4. p[i].kind # ""
    <3>1. i # 0
      BY <2>2
    <3>2. QED BY <2>3, <3>1 DEF IsNextStep
  <2>5. RealActions(p) # {}
    BY <2>3, <2>4 DEF RealActions
  <2>6. RealActions(p) \in Proposed
    BY <2>1 DEF Proposed
  <2>7. InExecution' = RealActions(p)
    <3>1. req[w].plan # 0
      BY <2>1, LenProperties DEF Typed, TypeOK
    <3>2. QED BY <1>1, <1>3, <3>1 DEF InExecution, RealActions
  <2>8. Gate!Begin
    BY <1>1, <1>3, <2>1, <2>5, <2>6, <2>7 DEF Gate!Begin
  <2>9. QED BY <2>8 DEF Gate!GateNext
<1>4. QED BY <1>2, <1>3 DEF BeginCAS

\* Whatever is written was kept from being written before by its snapshot, and belongs
\* to the plan in execution.
LEMMA WriteAsGate ==
  ASSUME Typed, Vetted, Begun, Exclusion, Marked, Earned, [Next]_vars,
         NEW w \in Worker, Writes(w), UNCHANGED <<status, executed>>
  PROVE  [Gate!GateNext]_(Gate!gate)
<1> DEFINE a == ActionOf(w)
<1>0. PICK n : n = Len(writes) + 1
  OBVIOUS
<1>1. /\ pc[w] = "update" /\ UNCHANGED plans
      /\ pc[w] \in Guarding /\ pc[w] \in AtAction /\ pc[w] \in Executing
  BY DEF Writes, Guarding, AtAction, Executing
<1>2. UNCHANGED <<status, Proposed, InExecution>>
  BY <1>1, MappingStays
<1>3. a \in Action /\ Evaluate(a).allowed /\ status = "executing"
  BY <1>1, AtItsAction DEF Vetted, Exclusion, SingleExecutor
<1>4. a.kind # ""
  BY <1>3 DEF Evaluate, Denied, Allowed
<1>5. a \in InExecution
  <2>1. /\ executed = req[w].plan /\ executed \in 1..Len(plans)
        /\ req[w].step \in 1..Len(plans[executed])
    BY <1>1 DEF Earned, Progress, Typed, RequestKnows, Knows
  <2>2. executed # 0
    BY <2>1, LenProperties DEF Typed, TypeOK
  <2>3. a = plans[executed][req[w].step]
    BY <2>1 DEF ActionOf
  <2>4. QED BY <1>4, <2>1, <2>2, <2>3 DEF InExecution, RealActions
<1>6. /\ DOMAIN writes = 1..Len(writes) /\ Len(writes) \in Nat
      /\ DOMAIN writes' = 1..Len(writes') /\ Len(writes') \in Nat
      /\ \A k \in 1..Len(writes) : WrittenAction(k) \in Action
  <2>1. \A k \in DOMAIN writes : WrittenAction(k) \in Action
    BY StepsAreActions DEF Vetted, WrittenAction, Typed
  <2>2. writes' # writes
    BY DEF Writes
  <2>3. Next
    BY <2>2 DEF vars, hist
  <2>4. TypeOK'
    BY <2>3, TypeStep
  <2>5. QED BY <2>1, <2>4, LenProperties DEF Typed, TypeOK
<1>7. \A k \in 1..Len(writes) : Gate!Identity(WrittenAction(k)) # Gate!Identity(a)
  BY <1>1, <1>6 DEF Marked, Gate!Identity
<1>8. Applied' = Append(Applied, a)
  <2>1. Len(writes') = n
    <3>1. 1..Len(writes') = 1..Len(writes) \cup {Len(writes) + 1}
      BY <1>6 DEF Writes
    <3>2. n \in 1..Len(writes')
      BY <1>0, <3>1
    <3>3. Len(writes') \in 1..Len(writes')
      BY <1>6, <3>2
    <3>4. Len(writes') \in 1..Len(writes) \cup {Len(writes) + 1}
      BY <3>1, <3>3
    <3>5. ASSUME NEW l \in Nat, NEW m \in Nat, n = m + 1, n \in 1..l, l \in 1..m \cup {m + 1}
          PROVE  l = n
      BY <3>5
    <3>6. Len(writes) \in Nat /\ Len(writes') \in Nat
      BY <1>6
    <3>7. QED BY <1>0, <3>2, <3>4, <3>5, <3>6, Zenon
  <2>2. WrittenAction(n)' = a
    BY <1>0, NewlyWritten
  <2>3. \A k \in 1..Len(writes) : WrittenAction(k)' = WrittenAction(k)
    BY <1>6, WrittenStays
  <2>4. Applied' = [k \in 1..n |-> WrittenAction(k)']
    BY <2>1 DEF Applied, WrittenAction
  <2>5. Applied = [k \in 1..Len(writes) |-> WrittenAction(k)]
    BY DEF Applied, WrittenAction
  <2>6. \A k \in 1..n : k = n \/ k \in 1..Len(writes)
    BY <1>0, <1>6
  <2>7. Applied \in Seq(Action) /\ Len(Applied) = Len(writes)
    BY <1>6, <2>5
  <2>8. Applied' \in Seq(Action) /\ Len(Applied') = n
    <3>1. \A k \in 1..n : WrittenAction(k)' \in Action
      BY <1>3, <1>6, <2>2, <2>3, <2>6
    <3>2. n \in Nat
      BY <1>0, <1>6
    <3>3. QED BY <2>4, <3>1, <3>2
  <2>9. /\ Append(Applied, a) \in Seq(Action) /\ Len(Append(Applied, a)) = n
        /\ Append(Applied, a)[n] = a
        /\ \A k \in 1..Len(writes) : Append(Applied, a)[k] = Applied[k]
    BY <1>0, <1>3, <2>7, AppendProperties
  <2>10. \A k \in 1..n : Applied'[k] = Append(Applied, a)[k]
    BY <2>2, <2>3, <2>4, <2>5, <2>6, <2>9
  <2>11. QED BY <2>8, <2>9, <2>10, SeqEqual
<1>9. DOMAIN Applied = 1..Len(writes) /\ \A k \in 1..Len(writes) : Applied[k] = WrittenAction(k)
  BY DEF Applied, WrittenAction
<1>10. a \in InExecution \cap Permitted
  BY <1>3, <1>5 DEF Permitted
<1> HIDE DEF a
<1>11. Gate!Apply
  BY <1>2, <1>3, <1>7, <1>8, <1>9, <1>10 DEF Gate!Apply
<1>12. QED BY <1>11 DEF Gate!GateNext

LEMMA EndAsGate ==
  ASSUME Typed, Vetted, Begun, Exclusion, Intents, Earned, [Next]_vars,
         NEW w \in Worker, EndCAS(w)
  PROVE  [Gate!GateNext]_(Gate!gate)
<1>1. UNCHANGED <<Proposed, InExecution, Applied>> /\ UNCHANGED writes
  BY MappingStays DEF EndCAS, hist
<1>2. CASE UNCHANGED status
  BY <1>1, <1>2, GateStutters
<1>3. CASE status' # status
  <2>1. /\ pc[w] = "endCAS" /\ status' = req[w].to /\ status = "executing"
        /\ status' \in {"failed", "resolved"}
    BY <1>3 DEF EndCAS, Intents, Intent, Exclusion, SingleExecutor, Executing
  <2>2. CASE status' = "failed"
    BY <1>1, <2>1, <2>2 DEF Gate!GateNext, Gate!End
  <2>3. CASE status' = "resolved"
    <3>1. /\ executed \in 1..Len(plans)
          /\ Done(writes, audit, executed, plans[executed], Len(plans[executed]) + 1)
      BY <2>1, <2>3 DEF Earned, Progress, Executing
    <3> DEFINE p == plans[executed]
    <3>2. Len(p) \in Nat /\ DOMAIN p = 1..Len(p) /\ Len(writes) \in Nat
          /\ DOMAIN writes = 1..Len(writes)
      BY <3>1, ElementOfSeq, PlanAssumption, LenProperties DEF Typed, TypeOK
    <3>3. executed # 0
      BY <3>1, LenProperties DEF Typed, TypeOK
    <3>4. ASSUME NEW a \in InExecution PROVE \E k \in DOMAIN Applied : Applied[k] = a
      <4>1. PICK i \in 1..Len(p) : p[i] = a /\ p[i].kind # ""
        BY <3>3, <3>4 DEF InExecution, RealActions
      <4>2. i \in DOMAIN p /\ i < Len(p) + 1
        BY <3>2
      <4>3. Wrote(writes, executed, i)
        BY <3>1, <4>1, <4>2 DEF Done, Applies
      <4>4. PICK k \in DOMAIN writes : writes[k].plan = executed /\ writes[k].step = i
        BY <4>3 DEF Wrote
      <4>5. k \in DOMAIN Applied /\ Applied[k] = a
        BY <3>2, <4>1, <4>4 DEF Applied
      <4>6. QED BY <4>5
    <3>5. Gate!End
      BY <1>1, <2>1, <2>3, <3>4 DEF Gate!End
    <3>6. QED BY <3>5 DEF Gate!GateNext
  <2>4. QED BY <2>1, <2>2, <2>3
<1>4. QED BY <1>2, <1>3

LEMMA StepAsGate ==
  Typed /\ Exclusion /\ Vetted /\ Marked /\ Intents /\ Earned /\ Begun /\ [Next]_vars
    => [Gate!GateNext]_(Gate!gate)
<1> SUFFICES ASSUME Typed, Exclusion, Vetted, Marked, Intents, Earned, Begun, [Next]_vars
             PROVE  [Gate!GateNext]_(Gate!gate)
  OBVIOUS
<1>1. ASSUME UNCHANGED <<status, plans, executed, writes>> PROVE [Gate!GateNext]_(Gate!gate)
  BY <1>1, MappingStays, GateStutters
<1>2. CASE Reanalyze \/ ProposePlan \/ EndDiagnosis
  BY <1>2, EnvironmentAsGate
<1>3. ASSUME NEW w \in Worker, UpdateObject(w) \/ UpdateReplyLost(w)
      PROVE  [Gate!GateNext]_(Gate!gate)
  <2>1. UNCHANGED <<status, plans, executed>>
    BY <1>3 DEF UpdateObject, UpdateReplyLost, db
  <2>2. CASE UNCHANGED writes
    BY <1>1, <2>1, <2>2
  <2>3. CASE Write(w)
    BY <1>3, <2>1, <2>3, WriteAppends, WriteAsGate
  <2>4. QED BY <1>3, <2>2, <2>3 DEF UpdateObject, UpdateReplyLost
<1>4. QED
  BY <1>1, <1>2, <1>3, Visible, DecisionAsGate, BeginAsGate, EndAsGate

\* Seen from outside, every run of the service is one of the gate's: whatever interleaves,
\* fails, is retried, lost or cut off by a crash, the cluster is written by permitted
\* actions of a proposed plan, after a decision, each once, and all of them before resolved
\* (RemediationService, remediation/service.go; Executor.Execute, executor.go).
THEOREM ImplementsGate == Spec => RefinesGate
<1>1. Init => Gate!GateInit
  BY DEF Init, Gate!GateInit, Proposed, InExecution, Applied
<1>2. QED
  BY <1>1, StepAsGate, TypedInvariant, ExclusionInvariant, VettedInvariant, MarkedInvariant,
     DecidedInvariant, EarnedInvariant, BegunInvariant, PTL DEF Spec, RefinesGate, Gate!GateSpec
=============================================================================
