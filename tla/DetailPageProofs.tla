-------------------------- MODULE DetailPageProofs --------------------------
(***************************************************************************)
(* Theorems of DetailPage, for any pages of DetailPages, objects, requests *)
(* under way and number of writes.                                         *)
(***************************************************************************)
EXTENDS DetailPage, QueryCacheProofs

\* The item and the number are of the same object, and so is each scale request.
Matched ==
  /\ HasItem(list) => scaleValue.of = route
  /\ \A c \in Call : (calls[c].phase # "free" /\ calls[c].op = "scale")
       => calls[c].about = calls[c].target

Sound == DetailTypeOK /\ Matched

\* No request is free under another name, and none is about the scale of nothing.
LEMMA Requests ==
  ASSUME DetailTypeOK, NEW c \in Call
  PROVE  /\ calls[c].phase = "free" <=> calls[c] = FreeCall
         /\ calls[c].phase # "free" => calls[c] \in CallType
         /\ FreeCall.phase = "free"
BY DEF DetailTypeOK, CallType, FreeCall

\* Requests that a step ends or moves on: nothing is sent.
Onward ==
  \A c \in Call : \/ calls'[c] \in {calls[c], FreeCall}
                  \/ /\ calls[c] # FreeCall
                     /\ \E p \in {"applied", "refused", "refresh", "lost"} :
                          calls'[c] = [calls[c] EXCEPT !.phase = p]

LEMMA OnwardSound ==
  ASSUME Sound, Onward, calls' = [c \in Call |-> calls'[c]]
  PROVE  /\ calls' \in [Call -> CallType \cup {FreeCall}]
         /\ \A c \in Call : (calls'[c].phase # "free" /\ calls'[c].op = "scale")
              => calls'[c].about = calls'[c].target
<1> SUFFICES ASSUME NEW c \in Call
             PROVE  /\ calls'[c] \in CallType \cup {FreeCall}
                    /\ (calls'[c].phase # "free" /\ calls'[c].op = "scale")
                         => calls'[c].about = calls'[c].target
  BY Zenon
<1>1. /\ calls[c] \in CallType \cup {FreeCall}
      /\ calls[c].phase = "free" <=> calls[c] = FreeCall
      /\ FreeCall.phase = "free"
      /\ (calls[c].phase # "free" /\ calls[c].op = "scale") => calls[c].about = calls[c].target
  BY Requests DEF Sound, Matched, DetailTypeOK
<1>2. CASE calls'[c] \in {calls[c], FreeCall}
  BY <1>1, <1>2
<1>3. ASSUME NEW p \in {"applied", "refused", "refresh", "lost"}, calls[c] # FreeCall,
             calls'[c] = [calls[c] EXCEPT !.phase = p]
      PROVE  /\ calls'[c] \in CallType
             /\ calls'[c].op = calls[c].op
             /\ calls'[c].about = calls[c].about /\ calls'[c].target = calls[c].target
  BY <1>1, <1>3 DEF CallType
<1>4. QED BY <1>1, <1>2, <1>3 DEF Onward

\* Confirmations that a step closes or sets free.
LEMMA ConfirmTyped ==
  ASSUME DetailTypeOK
  PROVE  /\ \A c \in Call : Released(c) \in [op: Confirmations, call: Call \cup {NoCall}] \cup {NoConfirm}
BY DEF DetailTypeOK, Released

\* The number after an effect: of the object of the route, if there is an item.
LEMMA ScaleValueTyped ==
  ASSUME DetailTypeOK, NEW o \in Object, NEW q, NEW changed \in BOOLEAN
  PROVE  /\ ScaleValueOf(o, q, changed) \in [of: Object \cup {NoObject}, typed: BOOLEAN]
         /\ changed /\ HasItem(q) => ScaleValueOf(o, q, changed).of = o
         /\ ~changed => ScaleValueOf(o, q, changed) = scaleValue
BY DEF DetailTypeOK, ScaleValueOf

LEMMA InitSound == DetailInit => Sound
<1> SUFFICES ASSUME DetailInit PROVE Sound
  OBVIOUS
<1>1. list \in QueryType /\ list.data = -1 /\ list.since \in {-1, 0}
  <2>1. list \in {NotAsked, Observed(NotAsked, 0)}
    BY DEF DetailInit
  <2>2. /\ Observed(NotAsked, 0) \in QueryType
        /\ Observed(NotAsked, 0).data = NotAsked.data
        /\ Observed(NotAsked, 0).since \in {NotAsked.since, 0}
    BY NotAskedTyped, AskedTyped, 0 \in Int
  <2>3. QED BY <2>1, <2>2, NotAskedTyped
<1>2. scaleValue \in [of: Object \cup {NoObject}, typed: BOOLEAN]
  BY DEF DetailInit
<1>3. DetailTypeOK
  <2>1. writes = 0 /\ writes \in 0..MaxWrites /\ list.data \in -1..writes /\ list.since \in -1..writes
    BY <1>1, DetailPageAssumption DEF DetailInit
  <2>2. /\ calls \in [Call -> CallType \cup {FreeCall}] /\ confirm = NoConfirm
        /\ scaleOpen \in BOOLEAN /\ page \in Pages /\ mode \in {"live", "demo"} /\ route \in Object
    BY Zenon DEF DetailInit
  <2>3. QED BY <1>1, <1>2, <2>1, <2>2 DEF DetailTypeOK
<1>4. Matched
  BY DEF DetailInit, Matched, FreeCall
<1>5. QED BY <1>3, <1>4 DEF Sound

LEMMA StepSound == Sound /\ [DetailNext]_vars => Sound'
<1> SUFFICES ASSUME Sound, [DetailNext]_vars PROVE Sound'
  OBVIOUS
<1> DEFINE CallsOK == /\ calls' \in [Call -> CallType \cup {FreeCall}]
                      /\ \A c \in Call : (calls'[c].phase # "free" /\ calls'[c].op = "scale")
                           => calls'[c].about = calls'[c].target
           ListOK == list' \in QueryType /\ list'.data \in -1..writes' /\ list'.since \in -1..writes'
           ConfirmOK == confirm' \in [op: Confirmations, call: Call \cup {NoCall}] \cup {NoConfirm}
           ScaleOK == /\ scaleValue' \in [of: Object \cup {NoObject}, typed: BOOLEAN]
                      /\ HasItem(list)' => scaleValue'.of = route'
           Goal == /\ route' \in Object /\ writes' \in 0..MaxWrites /\ scaleOpen' \in BOOLEAN
                   /\ CallsOK /\ ListOK /\ ConfirmOK /\ ScaleOK
<1>0. SUFFICES ASSUME UNCHANGED <<page, mode>> PROVE Goal
  <2>1. UNCHANGED <<page, mode>>
    BY DEF DetailNext, vars, frame, Navigate, OpenScale, TypeScale, CancelScale, SubmitScale,
         OpenConfirm, Confirm, CancelConfirm, Apply, Refuse, Foreign, Error, TimeOut, Reply,
         AnswerRows, FailRows
  <2>2. QED BY <1>0, <2>1 DEF Sound, Matched, DetailTypeOK
<1>1. /\ page \in Pages /\ mode \in {"live", "demo"} /\ route \in Object
      /\ writes \in 0..MaxWrites /\ scaleOpen \in BOOLEAN /\ writes \in Int /\ MaxWrites \in Int
      /\ writes \in -1..writes /\ -1 \in -1..writes
      /\ list \in QueryType /\ list.data \in -1..writes /\ list.since \in -1..writes
      /\ scaleValue \in [of: Object \cup {NoObject}, typed: BOOLEAN]
      /\ confirm \in [op: Confirmations, call: Call \cup {NoCall}] \cup {NoConfirm}
      /\ calls \in [Call -> CallType \cup {FreeCall}]
      /\ HasItem(list) => scaleValue.of = route
      /\ \A c \in Call : (calls[c].phase # "free" /\ calls[c].op = "scale")
           => calls[c].about = calls[c].target
  BY DetailPageAssumption DEF Sound, Matched, DetailTypeOK
<1>2. UNCHANGED list => HasItem(list)' = HasItem(list)
  BY <1>0 DEF HasItem, UseDemoData
<1>3. CASE UNCHANGED <<route, writes, list, scaleOpen, scaleValue, confirm, calls>>
  BY <1>1, <1>2, <1>3
<1>4. ASSUME NEW o \in Object, Navigate(o) PROVE Goal
  <2>1. scaleValue' = ScaleValueOf(o, list, TRUE) /\ route' = o
    BY <1>4 DEF Navigate
  <2>2. ScaleOK
    BY <1>2, <1>4, <2>1, ScaleValueTyped DEF Navigate, Sound
  <2>3. scaleOpen' \in BOOLEAN
    BY <1>4, Zenon DEF Navigate
  <2>4. QED BY <1>1, <1>4, <2>2, <2>3 DEF Navigate
<1>5. CASE OpenScale \/ CancelScale
  BY <1>1, <1>2, <1>5 DEF OpenScale, CancelScale
<1>6. CASE TypeScale
  <2>1. ScaleOK
    BY <1>1, <1>2, <1>6 DEF TypeScale
  <2>2. QED BY <1>1, <1>6, <2>1 DEF TypeScale
<1>7. ASSUME NEW c \in Call, SubmitScale(c) PROVE Goal
  <2> DEFINE k == [phase |-> "sent", op |-> "scale", target |-> route, about |-> scaleValue.of]
  <2>1. k \in CallType /\ k.about = k.target
    BY <1>1, <1>7 DEF SubmitScale, CallType
  <2>2. calls' = [calls EXCEPT ![c] = k]
    BY <1>7 DEF SubmitScale
  <2>3. CallsOK
    <3> HIDE DEF k
    <3>1. QED BY <1>1, <2>1, <2>2
  <2>4. QED BY <1>1, <1>2, <1>7, <2>3 DEF SubmitScale
<1>8. ASSUME NEW op \in Confirmations, OpenConfirm(op) PROVE Goal
  BY <1>1, <1>2, <1>8 DEF OpenConfirm
<1>9. ASSUME NEW c \in Call, Confirm(c) PROVE Goal
  <2> DEFINE k == [phase |-> "sent", op |-> confirm.op, target |-> route, about |-> NoObject]
  <2>1. k \in CallType /\ k.op # "scale"
    BY <1>1, <1>9 DEF Confirm, CallType, Confirmations
  <2>2. calls' = [calls EXCEPT ![c] = k]
    BY <1>9 DEF Confirm
  <2>3. CallsOK
    <3> HIDE DEF k
    <3>1. QED BY <1>1, <2>1, <2>2
  <2>4. ConfirmOK
    BY <1>1, <1>9 DEF Confirm
  <2>5. QED BY <1>1, <1>2, <1>9, <2>3, <2>4 DEF Confirm
<1>10. CASE CancelConfirm
  BY <1>1, <1>2, <1>10 DEF CancelConfirm
<1>11. CASE Foreign
  BY <1>1, <1>2, <1>11 DEF Foreign
<1>12. ASSUME NEW c \in Call, Apply(c) \/ Refuse(c) \/ Error(c) \/ TimeOut(c) PROVE Goal
  <2>1. /\ UNCHANGED <<route, list, scaleOpen, scaleValue>>
        /\ writes' \in 0..MaxWrites /\ writes' >= writes
    BY <1>1, <1>12 DEF Apply, Refuse, Error, TimeOut
  <2>2. ConfirmOK
    BY <1>1, <1>12, ConfirmTyped DEF Apply, Refuse, Error, TimeOut, Sound
  <2>3. calls[c] # FreeCall
    BY <1>12, Requests DEF Apply, Refuse, Error, TimeOut, FreeCall
  <2>4. \E k \in {FreeCall, [calls[c] EXCEPT !.phase = "applied"],
                  [calls[c] EXCEPT !.phase = "refused"], [calls[c] EXCEPT !.phase = "lost"]} :
          calls' = [calls EXCEPT ![c] = k]
    BY <1>12 DEF Apply, Refuse, Error, TimeOut
  <2>5. Onward /\ calls' = [b \in Call |-> calls'[b]]
    BY <1>1, <2>3, <2>4 DEF Onward
  <2>6. CallsOK
    BY <2>5, OnwardSound
  <2>7. QED BY <1>1, <1>2, <2>1, <2>2, <2>6
<1>13. ASSUME NEW c \in Call, Reply(c) PROVE Goal
  <2>1. UNCHANGED <<route, writes, scaleValue>> /\ list' = Refetched(list, writes)
    BY <1>13 DEF Reply
  <2>2. ListOK /\ list'.data = list.data
    BY <1>1, <2>1, AskedTyped
  <2>3. list' = list \/ ~list'.failed \/ HasData(list)
    BY <1>1, <2>1 DEF Refetched, QueryType
  <2>4. HasItem(list)' => HasItem(list)
    BY <1>0, <2>2, <2>3 DEF HasItem, UseDemoData, HasData
  <2>5. calls[c].phase = "applied" /\ calls[c] # FreeCall
    BY <1>13 DEF Reply, FreeCall
  <2>6. Onward /\ calls' = [b \in Call |-> calls'[b]]
    BY <1>1, <1>13, <2>5 DEF Onward, Reply
  <2>7. CallsOK
    BY <2>6, OnwardSound
  <2>8. ConfirmOK /\ scaleOpen' \in BOOLEAN
    <3>1. confirm' \in {confirm, NoConfirm} /\ scaleOpen' \in BOOLEAN
      BY <1>13, Zenon DEF Reply
    <3>2. QED BY <1>1, <3>1
  <2>9. QED BY <1>1, <2>1, <2>2, <2>4, <2>7, <2>8
<1>14. CASE AnswerRows \/ FailRows
  <2>1. UNCHANGED <<route, writes, scaleOpen>> /\ Done(Waiters)
    BY <1>14 DEF AnswerRows, FailRows
  <2>2. Onward /\ calls' = [b \in Call |-> calls'[b]]
    BY <2>1 DEF Onward, Done
  <2>3. CallsOK
    BY <2>2, OnwardSound
  <2>4. ConfirmOK
    BY <1>1, <2>1 DEF Done
  <2>5. \E changed \in BOOLEAN :
          /\ scaleValue' = ScaleValueOf(route, list', changed)
          /\ ~changed => HasData(list)
          /\ \/ list' = Failed(list)
             \/ \E n \in list.since..writes : list' = Answered(list, n) /\ list.since # -1
    <3>1. (~HasData(list)) \in BOOLEAN
      BY Zenon DEF HasData
    <3>2. QED BY <1>14, <3>1 DEF AnswerRows, FailRows, Fetching, Idle
  <2>6. PICK changed \in BOOLEAN :
          /\ scaleValue' = ScaleValueOf(route, list', changed)
          /\ ~changed => HasData(list)
    BY <2>5
  <2>7. ListOK
    <3>1. CASE list' = Failed(list)
      BY <1>1, <2>1, <3>1, FailedTyped
    <3>2. ASSUME NEW n \in list.since..writes, list' = Answered(list, n), list.since # -1
          PROVE  ListOK
      <4>1. n \in Int /\ n \in -1..writes
        BY <1>1, <3>2
      <4>2. QED BY <1>1, <2>1, <3>2, <4>1, AnsweredTyped
    <3>3. QED BY <2>5, <3>1, <3>2
  <2>8. HasItem(list)' = HasItem(list')
    BY <1>0 DEF HasItem, UseDemoData
  <2>9. ScaleOK
    <3>1. CASE changed
      BY <1>1, <2>1, <2>6, <2>8, <3>1, ScaleValueTyped DEF Sound
    <3>2. CASE ~changed
      <4>1. HasItem(list)
        BY <2>6, <3>2 DEF HasItem
      <4>2. QED BY <1>1, <2>1, <2>6, <3>2, <4>1, ScaleValueTyped DEF Sound
    <3>3. QED BY <2>6, <3>1, <3>2
  <2>10. QED BY <1>1, <2>1, <2>3, <2>4, <2>7, <2>9
<1>15. QED BY <1>3, <1>4, <1>5, <1>6, <1>7, <1>8, <1>9, <1>10, <1>11, <1>12, <1>13, <1>14
          DEF DetailNext, vars

LEMMA AlwaysSound == DetailSpec => []Sound
<1>1. DetailInit => Sound
  BY InitSound
<1>2. Sound /\ [DetailNext]_vars => Sound'
  BY StepSound
<1>3. QED BY <1>1, <1>2, PTL DEF DetailSpec

\* The pages about one object keep to their types.
THEOREM DetailTypeCorrect == DetailSpec => []DetailTypeOK
<1>1. Sound => DetailTypeOK
  BY DEF Sound
<1>2. QED BY <1>1, AlwaysSound, PTL

\* Whichever way the browser's history turns the page and whenever the item is answered,
\* lost or replaced: the replicas sent to an object are a number shown or typed for it.
THEOREM ScaleForItsTarget == DetailSpec => []ScaleIsForItsTarget
<1>1. Sound => ScaleIsForItsTarget
  BY DEF Sound, Matched, ScaleIsForItsTarget
<1>2. QED BY <1>1, AlwaysSound, PTL
=============================================================================
