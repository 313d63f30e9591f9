--------------------------- MODULE ListPageProofs ---------------------------
(***************************************************************************)
(* Theorems of ListPage, for any pages whose fallback to demo rows is      *)
(* guarded as in ListPages, any number of requests under way and of        *)
(* writes.                                                                 *)
(***************************************************************************)
EXTENDS ListPage, QueryCacheProofs

-----------------------------------------------------------------------------
(* Types *)

\* No request was done by a write that is still to come.
Past == \A c \in Call : calls[c].at <= writes

Typed == ListTypeOK /\ Past

LEMMA FreeCallTyped == FreeCall \in CallType /\ FreeCall.at = 0 /\ FreeCall.phase = "free"
BY ListPageAssumption DEF FreeCall, CallType, Ops, Phases

\* The changes a step makes to the requests.
LEMMA CallEdit ==
  ASSUME Typed, NEW c \in Call, NEW phase \in Phases, NEW n \in 0..MaxWrites
  PROVE  LET moved == [calls EXCEPT ![c] = [@ EXCEPT !.phase = phase]]
             made  == [calls EXCEPT ![c] = [@ EXCEPT !.phase = phase, !.at = n]]
             freed == [calls EXCEPT ![c] = FreeCall]
         IN  /\ moved \in [Call -> CallType] /\ \A b \in Call : moved[b].at <= writes
             /\ freed \in [Call -> CallType] /\ \A b \in Call : freed[b].at <= writes
             /\ made \in [Call -> CallType]
             /\ \A b \in Call : made[b].at <= writes \/ made[b].at = n
<1>1. /\ calls[c] \in CallType /\ calls \in [Call -> CallType]
      /\ \A b \in Call : calls[b].at <= writes
  BY DEF Typed, Past, ListTypeOK
<1>2. LET m == [calls[c] EXCEPT !.phase = phase]
          d == [calls[c] EXCEPT !.phase = phase, !.at = n]
      IN  m \in CallType /\ m.at = calls[c].at /\ d \in CallType /\ d.at = n
  BY <1>1 DEF CallType
<1> DEFINE m == [calls[c] EXCEPT !.phase = phase]
           d == [calls[c] EXCEPT !.phase = phase, !.at = n]
<1>3. m \in CallType /\ m.at = calls[c].at /\ d \in CallType /\ d.at = n
  BY <1>2
<1> HIDE DEF m, d
<1>4. /\ [calls EXCEPT ![c] = m] \in [Call -> CallType]
      /\ \A b \in Call : [calls EXCEPT ![c] = m][b].at <= writes
  BY <1>1, <1>3
<1>5. /\ [calls EXCEPT ![c] = d] \in [Call -> CallType]
      /\ \A b \in Call : [calls EXCEPT ![c] = d][b].at <= writes \/ [calls EXCEPT ![c] = d][b].at = n
  BY <1>1, <1>3
<1>6. /\ [calls EXCEPT ![c] = FreeCall] \in [Call -> CallType]
      /\ \A b \in Call : [calls EXCEPT ![c] = FreeCall][b].at <= writes
  BY <1>1, FreeCallTyped DEF Typed, ListTypeOK
<1>7. QED BY <1>4, <1>5, <1>6 DEF m, d

\* The requests of S end.
LEMMA EndedTyped ==
  ASSUME Typed, NEW S
  PROVE  LET ended == [c \in Call |-> IF c \in S THEN FreeCall ELSE calls[c]]
         IN  ended \in [Call -> CallType] /\ \A b \in Call : ended[b].at <= writes
BY FreeCallTyped, ListPageAssumption DEF Typed, Past, ListTypeOK, CallType

\* A dialog that a step closes or sets free.
Kept(d) == d \in {dialog, NoDialog} \/ (dialog # NoDialog /\ d = [dialog EXCEPT !.call = NoCall])

LEMMA DialogTyped ==
  ASSUME Typed, NEW d, Kept(d)
  PROVE  d \in DialogType \cup {NoDialog}
BY DEF Kept, Typed, ListTypeOK, DialogType

LEMMA InitTyped == ListInit => Typed
<1> SUFFICES ASSUME ListInit PROVE Typed
  OBVIOUS
<1>1. calls \in [Call -> CallType] /\ Past
  BY FreeCallTyped DEF ListInit, Past
<1>2. list \in QueryType /\ list.data = -1 /\ list.since \in {-1, 0}
  <2>1. list \in {NotAsked, Observed(NotAsked, 0)}
    BY DEF ListInit
  <2>2. /\ Observed(NotAsked, 0) \in QueryType
        /\ Observed(NotAsked, 0).data = NotAsked.data
        /\ Observed(NotAsked, 0).since \in {NotAsked.since, 0}
    BY NotAskedTyped, AskedTyped, 0 \in Int
  <2>3. QED BY <2>1, <2>2, NotAskedTyped
<1>3. QED BY <1>1, <1>2, ListPageAssumption DEF ListInit, Typed, ListTypeOK

\* The queries a step may leave.
LEMMA ListEdit ==
  ASSUME Typed, NEW q, NEW n \in 0..writes,
         q \in {Refetched(list, n), Answered(list, n), Failed(list)}
  PROVE  q \in QueryType /\ q.data \in -1..writes /\ q.since \in -1..writes
<1>1. list \in QueryType /\ n \in Int /\ n \in -1..writes /\ -1 \in -1..writes
  BY ListPageAssumption DEF Typed, ListTypeOK
<1>2. list.data \in -1..writes /\ list.since \in -1..writes
  BY DEF Typed, ListTypeOK
<1>3. CASE q = Refetched(list, n)
  BY <1>1, <1>2, <1>3, AskedTyped
<1>4. CASE q = Answered(list, n)
  BY <1>1, <1>2, <1>4, AnsweredTyped
<1>5. CASE q = Failed(list)
  BY <1>1, <1>2, <1>5, FailedTyped
<1>6. QED BY <1>3, <1>4, <1>5

LEMMA AfterRefetchTyped ==
  ASSUME Typed
  PROVE  AfterRefetch \in [Call -> CallType] /\ \A b \in Call : AfterRefetch[b].at <= writes
<1>1. \/ AfterRefetch = calls
      \/ AfterRefetch = [c \in Call |-> IF c \in Waiters THEN FreeCall ELSE calls[c]]
  BY DEF AfterRefetch, Waiters
<1>2. QED BY <1>1, EndedTyped DEF Typed, ListTypeOK, Past

\* A request that is answered ends, or waits for the rows.
LEMMA ReplyCallsTyped ==
  ASSUME Typed, NEW c \in Call, NEW b \in BOOLEAN,
         calls' = [AfterRefetch EXCEPT ![c] =
                     IF b THEN [@ EXCEPT !.phase = "refresh"] ELSE FreeCall]
  PROVE  calls' \in [Call -> CallType] /\ \A d \in Call : calls'[d].at <= writes
<1> DEFINE r == AfterRefetch
           k == IF b THEN [r[c] EXCEPT !.phase = "refresh"] ELSE FreeCall
<1>1. r \in [Call -> CallType] /\ \A d \in Call : r[d].at <= writes
  BY AfterRefetchTyped
<1>2. 0 <= writes
  BY ListPageAssumption DEF Typed, ListTypeOK
<1>3. k \in CallType /\ k.at <= writes
  BY <1>1, <1>2, FreeCallTyped DEF CallType, Phases
<1>4. calls' = [r EXCEPT ![c] = k]
  OBVIOUS
<1> HIDE DEF r, k
<1>5. QED BY <1>1, <1>3, <1>4

\* The dialogs after each kind of end.
LEMMA DialogAfterKept ==
  \A S \in SUBSET Call : Kept(DialogAfter(S))
BY DEF DialogAfter, Kept

LEMMA ReleasedKept ==
  \A c \in Call : Kept(Released(c))
BY DEF Released, Kept

LEMMA TypeStep == Typed /\ [ListNext]_vars => Typed'
<1> SUFFICES ASSUME Typed, [ListNext]_vars PROVE Typed'
  OBVIOUS
<1> DEFINE Steady == UNCHANGED <<page, mode>>
           CallsOK == calls' \in [Call -> CallType] /\ \A c \in Call : calls'[c].at <= writes'
           ListOK == list' \in QueryType /\ list'.data \in -1..writes' /\ list'.since \in -1..writes'
           DialogOK == dialog' \in DialogType \cup {NoDialog}
           Goal == /\ writes' \in 0..MaxWrites /\ acked' \in 0..writes'
                   /\ CallsOK /\ ListOK /\ DialogOK
<1>0. SUFFICES ASSUME Steady PROVE Goal
  <2>1. Steady
    BY DEF ListNext, vars, frame, OpenDialog, OpenCreate, Dismiss, Foreign, Submit, Apply, Refuse,
         Error, TimeOut, Reply, AnswerRows, FailRows, RowsEnd, UserRefresh
  <2>2. QED BY <1>0, <2>1 DEF Typed, Past, ListTypeOK
<1>1. /\ writes \in 0..MaxWrites /\ acked \in 0..writes
      /\ calls \in [Call -> CallType] /\ \A c \in Call : calls[c].at <= writes
      /\ list \in QueryType /\ list.data \in -1..writes /\ list.since \in -1..writes
      /\ dialog \in DialogType \cup {NoDialog}
  BY DEF Typed, Past, ListTypeOK
<1>2. CASE UNCHANGED vars
  BY <1>1, <1>2 DEF vars
<1>3. ASSUME NEW op \in Operation, OpenDialog(op) PROVE Goal
  <2>1. RowIsLive \in BOOLEAN
    BY Zenon DEF RowIsLive
  <2>2. DialogOK
    BY <1>3, <2>1 DEF OpenDialog, DialogType, Ops
  <2>3. QED BY <1>1, <1>3, <2>2 DEF OpenDialog
<1>4. CASE OpenCreate
  BY <1>1, <1>4 DEF OpenCreate, DialogType, Ops
<1>5. CASE Dismiss
  BY <1>1, <1>5 DEF Dismiss
<1>6. CASE Foreign
  BY <1>1, <1>6, ListPageAssumption DEF Foreign, CallType
<1>7. ASSUME NEW c \in Call, Submit(c) PROVE Goal
  <2>1. dialog \in DialogType
    BY <1>1, <1>7 DEF Submit
  <2>2. DialogOK
    BY <1>7, <2>1 DEF Submit, DialogType
  <2>3. [op |-> dialog.op, live |-> dialog.live, phase |-> "sent", at |-> 0] \in CallType
    BY <2>1, ListPageAssumption DEF DialogType, CallType, Phases
  <2>4. CallsOK
    BY <1>1, <1>7, <2>3 DEF Submit
  <2>5. QED BY <1>1, <1>7, <2>2, <2>4 DEF Submit
<1>8. ASSUME NEW c \in Call, Apply(c) PROVE Goal
  <2>1. writes' = writes + 1 /\ writes + 1 \in 0..MaxWrites
    BY <1>1, <1>8, ListPageAssumption DEF Apply
  <2>2. CASE calls[c].phase = "lost"
    <3>1. calls' = [calls EXCEPT ![c] = FreeCall]
      BY <1>8, <2>2 DEF Apply
    <3>2. CallsOK
      BY <1>1, <2>1, <3>1, FreeCallTyped DEF CallType
    <3>3. QED BY <1>1, <1>8, <2>1, <3>2 DEF Apply
  <2>3. CASE calls[c].phase # "lost"
    <3>1. calls' = [calls EXCEPT ![c] = [calls[c] EXCEPT !.phase = "applied", !.at = writes + 1]]
      BY <1>8, <2>3 DEF Apply
    <3>2. LET d == [calls[c] EXCEPT !.phase = "applied", !.at = writes + 1]
          IN  d \in CallType /\ d.at = writes + 1
      BY <1>1, <2>1 DEF CallType, Phases
    <3>3. CallsOK
      BY <1>1, <2>1, <3>1, <3>2 DEF CallType
    <3>4. QED BY <1>1, <1>8, <2>1, <3>3 DEF Apply
  <2>4. QED BY <2>2, <2>3
<1>9. ASSUME NEW c \in Call, Refuse(c) \/ Error(c) \/ TimeOut(c) PROVE Goal
  <2>1. \/ calls' = [calls EXCEPT ![c] = FreeCall]
        \/ \E p \in Phases : calls' = [calls EXCEPT ![c] = [@ EXCEPT !.phase = p]]
    BY <1>9 DEF Refuse, Error, TimeOut, Phases
  <2>2. UNCHANGED <<writes, list, acked>> /\ (dialog' = dialog \/ dialog' = Released(c))
    BY <1>9 DEF Refuse, Error, TimeOut
  <2>3. CallsOK
    <3>1. 0 \in 0..MaxWrites
      BY ListPageAssumption
    <3>2. CASE calls' = [calls EXCEPT ![c] = FreeCall]
      <4>1. "free" \in Phases
        BY DEF Phases
      <4>2. QED BY <2>2, <3>1, <3>2, <4>1, CallEdit
    <3>3. ASSUME NEW p \in Phases, calls' = [calls EXCEPT ![c] = [@ EXCEPT !.phase = p]]
          PROVE  CallsOK
      <4>1. [calls[c] EXCEPT !.phase = p] \in CallType /\ [calls[c] EXCEPT !.phase = p].at = calls[c].at
        BY <1>1 DEF CallType
      <4>2. QED BY <1>1, <2>2, <3>3, <4>1
    <3>4. QED BY <2>1, <3>2, <3>3
  <2>4. DialogOK
    BY <1>1, <2>2, ReleasedKept, DialogTyped
  <2>5. QED BY <1>1, <2>2, <2>3, <2>4
<1>10. ASSUME NEW c \in Call, Reply(c) PROVE Goal
  <2>1. Awaits(calls[c].op) \in BOOLEAN
    BY Zenon DEF Awaits
  <2>2. CallsOK
    BY <1>10, <2>1, ReplyCallsTyped DEF Reply
  <2>3. ListOK
    BY <1>1, <1>10, ListEdit DEF Reply
  <2>4. dialog' = NoDialog \/ \E S \in SUBSET Call : dialog' = DialogAfter(S)
    BY <1>10 DEF Reply
  <2>5. DialogOK
    BY <2>4, DialogAfterKept, DialogTyped
  <2>6. acked' \in 0..writes /\ writes' = writes
    BY <1>1, <1>10 DEF Reply, CallType
  <2>7. QED BY <1>1, <2>2, <2>3, <2>5, <2>6
<1>11. CASE AnswerRows \/ FailRows
  <2>1. /\ UNCHANGED <<writes, acked>> /\ dialog' = DialogAfter(Waiters)
        /\ calls' = [c \in Call |-> IF c \in Waiters THEN FreeCall ELSE calls[c]]
    BY <1>11 DEF AnswerRows, FailRows, RowsEnd
  <2>2. CallsOK /\ DialogOK
    BY <2>1, EndedTyped, DialogAfterKept, DialogTyped DEF Waiters
  <2>3. list' = Failed(list) \/ \E n \in 0..writes : list' = Answered(list, n)
    BY <1>1, <1>11 DEF AnswerRows, FailRows, Fetching, Idle
  <2>4. ListOK
    <3>1. 0 \in 0..writes
      BY <1>1, ListPageAssumption
    <3>2. QED BY <2>1, <2>3, <3>1, ListEdit
  <2>5. QED BY <1>1, <2>1, <2>2, <2>4
<1>12. CASE UserRefresh
  <2>1. CallsOK
    BY <1>12, AfterRefetchTyped DEF UserRefresh
  <2>2. ListOK
    BY <1>1, <1>12, ListEdit DEF UserRefresh
  <2>3. QED BY <1>1, <1>12, <2>1, <2>2 DEF UserRefresh
<1>13. QED BY <1>2, <1>3, <1>4, <1>5, <1>6, <1>7, <1>8, <1>9, <1>10, <1>11, <1>12 DEF ListNext
\* Type correctness of the lists, with what it rests on.
LEMMA AlwaysTyped == ListSpec => []Typed
<1>1. ListInit => Typed
  BY InitTyped
<1>2. Typed /\ [ListNext]_vars => Typed'
  BY TypeStep
<1>3. QED BY <1>1, <1>2, PTL DEF ListSpec

\* The lists keep to their types.
THEOREM ListTypeCorrect == ListSpec => []ListTypeOK
<1>1. Typed => ListTypeOK
  BY DEF Typed
<1>2. QED BY <1>1, AlwaysTyped, PTL

-----------------------------------------------------------------------------
(* Acknowledged writes *)

\* Writes are acknowledged over rows only, and a request for rows that is in flight,
\* or was answered last, began no earlier than the last acknowledgement.
Seen ==
  /\ acked # 0 => HasData(list)
  /\ Fetching(list) => list.since >= acked
  /\ Settled(list) => list.data >= acked

LEMMA SeenInit == ListInit => Seen
<1> SUFFICES ASSUME ListInit PROVE Seen
  OBVIOUS
<1>1. Typed
  BY InitTyped
<1>2. list.data = -1 /\ acked = 0
  <2>1. list \in {NotAsked, Observed(NotAsked, 0)}
    BY DEF ListInit
  <2>2. Observed(NotAsked, 0).data = NotAsked.data
    BY NotAskedTyped, AskedTyped, 0 \in Int
  <2>3. QED BY <2>1, <2>2, NotAskedTyped DEF ListInit
<1>3. list.since \in -1..writes /\ writes = 0
  BY <1>1 DEF Typed, ListTypeOK, ListInit
<1>4. QED BY <1>2, <1>3 DEF Seen, Settled, HasData, Fetching, NoData, Idle

\* The refetch of the rows after an acknowledgement, or on its own.
LEMMA RefetchSeen ==
  ASSUME Typed, Seen, list' = Refetched(list, writes), writes' = writes,
         acked' \in acked..writes, acked' # acked => HasData(list)
  PROVE  Seen'
<1>1. /\ list \in QueryType /\ writes \in Nat /\ acked \in 0..writes
      /\ list.since \in -1..writes
  BY ListPageAssumption DEF Typed, ListTypeOK
<1>2. /\ list'.data = list.data /\ list'.since \in {list.since, writes}
  <2>1. writes \in Int
    BY <1>1
  <2>2. QED BY <1>1, <2>1, AskedTyped
<1>3. CASE HasData(list)
  <2>1. list'.since = writes /\ Fetching(list')
    BY <1>1, <1>3, RefetchedAnew
  <2>2. HasData(list')
    BY <1>2, <1>3 DEF HasData
  <2>3. QED BY <1>1, <2>1, <2>2 DEF Seen, Settled
<1>4. CASE ~HasData(list)
  <2>1. acked' = 0 /\ ~HasData(list')
    BY <1>2, <1>4 DEF Seen, HasData
  <2>2. QED BY <1>1, <1>2, <2>1 DEF Seen, Settled, Fetching, Idle
<1>5. QED BY <1>3, <1>4

LEMMA SeenStep == Typed /\ Seen /\ [ListNext]_vars => Seen'
<1> SUFFICES ASSUME Typed, Seen, [ListNext]_vars PROVE Seen'
  OBVIOUS
<1>1. /\ list \in QueryType /\ writes \in Nat /\ acked \in 0..writes
      /\ list.since \in -1..writes /\ calls \in [Call -> CallType]
      /\ \A c \in Call : calls[c].at <= writes
  BY ListPageAssumption DEF Typed, Past, ListTypeOK
<1>2. CASE UNCHANGED <<list, acked>>
  BY <1>2 DEF Seen, Settled, HasData, Fetching
<1>3. ASSUME NEW c \in Call, Reply(c) PROVE Seen'
  <2>1. calls[c].at \in Nat /\ calls[c].at <= writes
    BY <1>1, ListPageAssumption DEF CallType
  <2>2. acked' \in acked..writes /\ (acked' # acked => HasData(list))
    BY <1>1, <1>3, <2>1 DEF Reply
  <2>3. QED BY <1>3, <2>2, RefetchSeen DEF Reply
<1>4. CASE UserRefresh
  BY <1>1, <1>4, RefetchSeen DEF UserRefresh
<1>5. CASE AnswerRows
  <2>1. PICK n \in list.since..writes : list' = Answered(list, n)
    BY <1>5 DEF AnswerRows
  <2>2. n \in Nat /\ n \in Int /\ n >= acked
    BY <1>1, <1>5, <2>1 DEF AnswerRows, Seen, Fetching, Idle
  <2>3. list'.data = n /\ list'.since = -1
    BY <1>1, <2>1, <2>2, AnsweredTyped
  <2>4. acked' = acked
    BY <1>5 DEF AnswerRows, RowsEnd
  <2>5. QED BY <2>2, <2>3, <2>4 DEF Seen, Settled, HasData, Fetching, NoData, Idle
<1>6. CASE FailRows
  <2>1. list'.data = list.data /\ list'.since = -1 /\ list'.failed = TRUE
    BY <1>1, <1>6, FailedTyped DEF FailRows
  <2>2. acked' = acked
    BY <1>6 DEF FailRows, RowsEnd
  <2>3. QED BY <2>1, <2>2 DEF Seen, Settled, HasData, Fetching, Idle
<1>7. QED BY <1>2, <1>3, <1>4, <1>5, <1>6 DEF ListNext, vars, OpenDialog, OpenCreate, Dismiss,
        Foreign, Submit, Apply, Refuse, Error, TimeOut

\* Whatever refetches replace each other, answers fail or requests are given up:
\* settled rows have seen the writes the user was told about.
THEOREM AcknowledgedWritesShown == ListSpec => []AcknowledgedWritesAreShown
<1>1. ListInit => Seen
  BY SeenInit
<1>2. Typed /\ Seen /\ [ListNext]_vars => Seen'
  BY SeenStep
<1>3. Seen => AcknowledgedWritesAreShown
  BY DEF Seen, AcknowledgedWritesAreShown
<1>4. QED BY <1>1, <1>2, <1>3, AlwaysTyped, PTL DEF ListSpec

-----------------------------------------------------------------------------
(* Rows that are written to *)

\* An operation that may be carried out: asked of a row of the cluster, with live access.
Sound(op, isLive) == mode = "live" /\ (op # "create" => isLive)

LiveRows ==
  page.hooks.rows # "unguarded" =>
    /\ \A c \in Call : calls[c].phase # "free" => Sound(calls[c].op, calls[c].live)
    /\ dialog # NoDialog => Sound(dialog.op, dialog.live)

\* What the buttons ask, on a page that guards its rows.
LEMMA AskedIsSound ==
  ASSUME Typed, page.hooks.rows # "unguarded"
  PROVE  /\ Ask(page.menu.when) => mode = "live" /\ RowIsLive
         /\ Ask(page.view.create) => mode = "live"
<1>1. /\ page \in ListPageType /\ page \in Pages /\ mode \in {"live", "demo"}
  BY ListPageAssumption DEF Typed, ListTypeOK
<1>2. /\ page.hooks.rows \in {"guarded", "live"}
      /\ page.menu.when \in {"notDemo", "allowed", "live"}
      /\ page.view.create \in {"none", "live", "allowed"}
  BY <1>1 DEF ListPageType
<1>3. page.hooks.rows = "guarded" => page.menu.when = "allowed"
  BY <1>1, GuardAssumption
<1>4. QED BY <1>1, <1>2, <1>3 DEF Ask, Allowed, RowIsLive, UseDemoData

\* Nothing new is asked for by a step that only ends or moves on what there is.
Fewer == /\ \A c \in Call : calls'[c].phase # "free" =>
               /\ calls[c].phase # "free"
               /\ calls'[c].op = calls[c].op /\ calls'[c].live = calls[c].live
         /\ dialog' # NoDialog =>
               /\ dialog # NoDialog
               /\ dialog'.op = dialog.op /\ dialog'.live = dialog.live

LEMMA FewerIsSound ==
  ASSUME LiveRows, Fewer, UNCHANGED frame
  PROVE  LiveRows'
BY DEF LiveRows, Fewer, Sound, frame

LEMMA KeptIsFewer ==
  ASSUME Typed, Kept(dialog')
  PROVE  dialog' # NoDialog => /\ dialog # NoDialog
                               /\ dialog'.op = dialog.op /\ dialog'.live = dialog.live
<1>1. CASE dialog' \in {dialog, NoDialog}
  BY <1>1
<1>2. CASE dialog # NoDialog /\ dialog' = [dialog EXCEPT !.call = NoCall]
  BY <1>2 DEF Typed, ListTypeOK, DialogType
<1>3. QED BY <1>1, <1>2 DEF Kept

LEMMA LiveRowsInit == ListInit => LiveRows
BY DEF ListInit, LiveRows, FreeCall

LEMMA LiveRowsStep == Typed /\ LiveRows /\ [ListNext]_vars => LiveRows'
<1> SUFFICES ASSUME Typed, LiveRows, [ListNext]_vars PROVE LiveRows'
  OBVIOUS
<1>1. /\ calls \in [Call -> CallType] /\ dialog \in DialogType \cup {NoDialog}
      /\ \A c \in Call : FreeCall.phase = "free"
  BY FreeCallTyped DEF Typed, ListTypeOK
<1>2. ASSUME NEW op \in Operation, OpenDialog(op) PROVE LiveRows'
  <2>1. page.hooks.rows # "unguarded" => mode = "live" /\ RowIsLive
    BY <1>2, AskedIsSound DEF OpenDialog
  <2>2. /\ dialog' = [op |-> op, live |-> RowIsLive, call |-> NoCall]
        /\ UNCHANGED <<page, mode, calls>>
    BY <1>2 DEF OpenDialog, frame
  <2>3. dialog'.live = RowIsLive
    BY <2>2
  <2>4. QED BY <2>1, <2>2, <2>3 DEF LiveRows, Sound
<1>3. CASE OpenCreate
  <2>1. page.hooks.rows # "unguarded" => mode = "live"
    BY <1>3, AskedIsSound DEF OpenCreate
  <2>2. QED BY <1>3, <2>1 DEF OpenCreate, LiveRows, Sound, frame
<1>4. ASSUME NEW c \in Call, Submit(c) PROVE LiveRows'
  <2>1. dialog # NoDialog /\ dialog \in DialogType
    BY <1>1, <1>4 DEF Submit
  <2>2. /\ dialog'.op = dialog.op /\ dialog'.live = dialog.live
        /\ UNCHANGED <<page, mode>>
    BY <1>4, <2>1 DEF Submit, DialogType, frame
  <2>3. \A b \in Call : calls'[b] = IF b = c
          THEN [op |-> dialog.op, live |-> dialog.live, phase |-> "sent", at |-> 0] ELSE calls[b]
    BY <1>1, <1>4 DEF Submit
  <2>4. QED BY <2>1, <2>2, <2>3 DEF LiveRows, Sound
<1>5. ASSUME UNCHANGED <<calls, dialog, frame>> PROVE LiveRows'
  BY <1>5 DEF LiveRows, Sound, frame
<1>6. CASE Dismiss
  BY <1>6, FewerIsSound DEF Dismiss, Fewer
<1>7. ASSUME NEW c \in Call, Apply(c) \/ Refuse(c) \/ Error(c) \/ TimeOut(c) PROVE LiveRows'
  <2>1. Kept(dialog')
    BY <1>7, ReleasedKept DEF Apply, Refuse, Error, TimeOut, Kept
  <2>2. \E k \in {FreeCall} \cup {[calls[c] EXCEPT !.phase = p] : p \in Phases}
                 \cup {[calls[c] EXCEPT !.phase = "applied", !.at = writes + 1]} :
          calls' = [calls EXCEPT ![c] = k]
    BY <1>7 DEF Apply, Refuse, Error, TimeOut, Phases
  <2>3. calls[c].phase # "free"
    BY <1>7 DEF Apply, Refuse, Error, TimeOut
  <2>4. PICK k : \/ /\ calls' = [calls EXCEPT ![c] = k]
                    /\ k.op = calls[c].op /\ k.live = calls[c].live
                 \/ calls' = [calls EXCEPT ![c] = FreeCall]
    BY <1>1, <2>2 DEF CallType
  <2>5. \A b \in Call : calls'[b].phase # "free" =>
          calls[b].phase # "free" /\ calls'[b].op = calls[b].op /\ calls'[b].live = calls[b].live
    BY <1>1, <2>3, <2>4
  <2>6. Fewer
    BY <2>1, <2>5, KeptIsFewer DEF Fewer
  <2>7. UNCHANGED frame
    BY <1>7 DEF Apply, Refuse, Error, TimeOut
  <2>8. QED BY <2>6, <2>7, FewerIsSound
<1>8. ASSUME NEW c \in Call, Reply(c) PROVE LiveRows'
  <2> DEFINE r == AfterRefetch
             k == IF Awaits(calls[c].op) THEN [r[c] EXCEPT !.phase = "refresh"] ELSE FreeCall
  <2>1. r \in [Call -> CallType] /\ \A b \in Call : r[b].phase # "free" => r[b] = calls[b]
    BY <1>1, AfterRefetchTyped DEF AfterRefetch
  <2>2. r[c] = calls[c] /\ calls[c].phase # "free"
    BY <1>1, <1>8, <2>1 DEF AfterRefetch, Reply
  <2>3. k.phase # "free" => k.op = calls[c].op /\ k.live = calls[c].live
    BY <1>1, <2>2 DEF CallType
  <2>4. calls' = [r EXCEPT ![c] = k]
    BY <1>8 DEF Reply
  <2>5. \A b \in Call : calls'[b].phase # "free" =>
          calls[b].phase # "free" /\ calls'[b].op = calls[b].op /\ calls'[b].live = calls[b].live
    <3> HIDE DEF r, k
    <3>1. QED BY <2>1, <2>2, <2>3, <2>4
  <2>6. Kept(dialog')
    <3>1. dialog' = NoDialog \/ \E S \in SUBSET Call : dialog' = DialogAfter(S)
      BY <1>8 DEF Reply
    <3>2. QED BY <3>1, DialogAfterKept DEF Kept
  <2>7. Fewer /\ UNCHANGED frame
    BY <1>8, <2>5, <2>6, KeptIsFewer DEF Fewer, Reply
  <2>8. QED BY <2>7, FewerIsSound
<1>9. CASE AnswerRows \/ FailRows
  <2>1. calls' = [b \in Call |-> IF b \in Waiters THEN FreeCall ELSE calls[b]]
    BY <1>9 DEF AnswerRows, FailRows, RowsEnd
  <2>2. dialog' = DialogAfter(Waiters) /\ Waiters \in SUBSET Call /\ UNCHANGED frame
    BY <1>9 DEF AnswerRows, FailRows, RowsEnd, Waiters
  <2>3. Kept(dialog')
    BY <2>2, DialogAfterKept
  <2>4. \A b \in Call : calls'[b].phase # "free" => calls'[b] = calls[b]
    BY <1>1, <2>1
  <2>5. Fewer
    BY <2>3, <2>4, KeptIsFewer DEF Fewer
  <2>6. QED BY <2>2, <2>5, FewerIsSound
<1>10. CASE UserRefresh
  <2>1. \A b \in Call : calls'[b].phase # "free" => calls'[b] = calls[b]
    BY <1>1, <1>10 DEF UserRefresh, AfterRefetch
  <2>2. Fewer /\ UNCHANGED frame
    BY <1>10, <2>1 DEF Fewer, UserRefresh
  <2>3. QED BY <2>2, FewerIsSound
<1>11. QED BY <1>2, <1>3, <1>4, <1>5, <1>6, <1>7, <1>8, <1>9, <1>10 DEF ListNext, vars, frame, Foreign

\* A page whose fallback withdraws the operations never sends one about a demo row,
\* also when the rows came or were lost while its dialog was open.
THEOREM OnlyLiveRowsAreWritten == ListSpec => []WritesNameLiveRows
<1>1. ListInit => LiveRows
  BY LiveRowsInit
<1>2. Typed /\ LiveRows /\ [ListNext]_vars => LiveRows'
  BY LiveRowsStep
<1>3. LiveRows => WritesNameLiveRows
  BY DEF LiveRows, WritesNameLiveRows, Sound
<1>4. QED BY <1>1, <1>2, <1>3, AlwaysTyped, PTL DEF ListSpec
=============================================================================
