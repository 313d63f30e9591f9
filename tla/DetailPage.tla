------------------------------ MODULE DetailPage ------------------------------
(***************************************************************************)
(* The page about one object (web/src/pages, any page of DetailPages): the *)
(* object is the one of the route, taken from the list of its kind; the    *)
(* browser's history turns the page to another one without leaving it.     *)
(* The manifest's editor is YamlEditor.                                    *)
(***************************************************************************)
EXTENDS DetailPages, QueryCache

CONSTANTS
  Object,         \* objects of the kind, all in the list the page asks for
  NoObject,       \* scaleValue before the first item
  Call,           \* write requests the browser can have under way
  NoCall,
  Pages,          \* the pages looked at
  MaxWrites       \* bound: writes of the cluster

ASSUME DetailPageAssumption ==
  /\ NoObject \notin Object /\ NoCall \notin Call
  /\ Pages \subseteq DetailPageType
  /\ MaxWrites \in Nat

VARIABLES
  page, mode,     \* as in ListPage
  route,          \* the object of the route
  writes,         \* writes of the cluster
  list,           \* the query behind the item
  scaleOpen,
  scaleValue,     \* whose replicas the number is about, and was it typed
  confirm,        \* the application's confirmation, which outlives a change of route
  calls           \* write requests of the page

vars == <<page, mode, route, writes, list, scaleOpen, scaleValue, confirm, calls>>
frame == <<page, mode>>

Confirmations == {"restart", "suspend"}
NoConfirm == [op |-> "none"]
FreeCall == [phase |-> "free"]
CallType ==
  [phase: {"sent", "applied", "refused", "refresh", "lost"}, op: {"scale"} \cup Confirmations,
   target: Object,            \* the object in the request's path
   about: Object \cup {NoObject}]   \* the object whose replicas are sent

DetailTypeOK ==
  /\ page \in Pages /\ mode \in {"live", "demo"} /\ route \in Object
  /\ writes \in 0..MaxWrites
  /\ list \in QueryType /\ list.data \in -1..writes /\ list.since \in -1..writes
  /\ scaleOpen \in BOOLEAN
  /\ scaleValue \in [of: Object \cup {NoObject}, typed: BOOLEAN]
  /\ confirm \in [op: Confirmations, call: Call \cup {NoCall}] \cup {NoConfirm}
  /\ calls \in [Call -> CallType \cup {FreeCall}]

-----------------------------------------------------------------------------
UseDemoData(q) ==
  page.hooks.rows = "guarded" /\ (mode = "demo" \/ (q.failed /\ ~HasData(q)))
allowLiveAccess == mode = "live" /\ ~UseDemoData(list)

\* The page has an object to show; without one it shows a spinner or "not found" and
\* none of its dialogs.
HasItem(q) == UseDemoData(q) \/ HasData(q)

\* Mutant: The value is not taken from the item again.
ScaleValueKept(o, q, itemChanged) == scaleValue

\* The effect on [item].
ScaleValueOf(o, q, itemChanged) ==
  IF itemChanged /\ HasItem(q) THEN [of |-> o, typed |-> FALSE] ELSE scaleValue

DetailInit ==
  /\ page \in Pages /\ mode \in {"live", "demo"} /\ route \in Object
  /\ writes = 0
  /\ list = IF mode = "live" THEN Observed(NotAsked, 0) ELSE NotAsked
  /\ scaleOpen = FALSE
  /\ scaleValue = [of |-> IF HasItem(list) THEN route ELSE NoObject, typed |-> FALSE]
  /\ confirm = NoConfirm
  /\ calls = [c \in Call |-> FreeCall]

-----------------------------------------------------------------------------
\* Back or forward to another object: two effects run.
Navigate(o) ==
  /\ o # route
  /\ route' = o
  /\ scaleOpen' = (scaleOpen /\ page.hooks.onRoute = "stays")
  /\ scaleValue' = ScaleValueOf(o, list, TRUE)
  /\ UNCHANGED <<frame, writes, list, confirm, calls>>

OpenScale ==
  /\ confirm = NoConfirm /\ ~scaleOpen
  /\ "scale" \in page.view.ops /\ allowLiveAccess /\ HasItem(list)
  /\ scaleOpen' = TRUE
  /\ UNCHANGED <<frame, route, writes, list, scaleValue, confirm, calls>>

TypeScale ==
  /\ scaleOpen /\ HasItem(list)
  /\ scaleValue' = [scaleValue EXCEPT !.typed = TRUE]
  /\ UNCHANGED <<frame, route, writes, list, scaleOpen, confirm, calls>>

CancelScale ==
  /\ scaleOpen
  /\ scaleOpen' = FALSE
  /\ UNCHANGED <<frame, route, writes, list, scaleValue, confirm, calls>>

Pending(op) ==
  \E c \in Call : calls[c].phase \in {"sent", "applied", "refused", "refresh"} /\ calls[c].op = op

SubmitScale(c) ==
  /\ scaleOpen /\ HasItem(list) /\ ~Pending("scale")
  /\ calls[c] = FreeCall
  /\ calls' = [calls EXCEPT ![c] =
       [phase |-> "sent", op |-> "scale", target |-> route, about |-> scaleValue.of]]
  /\ UNCHANGED <<frame, route, writes, list, scaleOpen, scaleValue, confirm>>

\* "Restart", "Suspend"; the button shows a spinner while one is pending, which disables it.
OpenConfirm(op) ==
  /\ confirm = NoConfirm /\ ~scaleOpen
  /\ op \in page.view.ops /\ allowLiveAccess /\ HasItem(list) /\ ~Pending(op)
  /\ confirm' = [op |-> op, call |-> NoCall]
  /\ UNCHANGED <<frame, route, writes, list, scaleOpen, scaleValue, calls>>

\* OK: the mutation's function is the one of the latest render.
Confirm(c) ==
  /\ confirm # NoConfirm /\ confirm.call = NoCall
  /\ calls[c] = FreeCall
  /\ calls' = [calls EXCEPT ![c] =
       [phase |-> "sent", op |-> confirm.op, target |-> route, about |-> NoObject]]
  /\ confirm' = [confirm EXCEPT !.call = c]
  /\ UNCHANGED <<frame, route, writes, list, scaleOpen, scaleValue>>

\* Mutant: The confirmation forgets its operation and keeps its request.
CancelConfirmKeeps ==
  /\ confirm # NoConfirm
  /\ confirm' = [confirm EXCEPT !.op = "none"]
  /\ UNCHANGED <<frame, route, writes, list, scaleOpen, scaleValue, calls>>

CancelConfirm ==
  /\ confirm # NoConfirm
  /\ confirm' = NoConfirm
  /\ UNCHANGED <<frame, route, writes, list, scaleOpen, scaleValue, calls>>

-----------------------------------------------------------------------------
Apply(c) ==
  /\ calls[c].phase \in {"sent", "lost"} /\ writes < MaxWrites
  /\ writes' = writes + 1
  /\ calls' = [calls EXCEPT ![c] =
       IF @.phase = "lost" THEN FreeCall ELSE [@ EXCEPT !.phase = "applied"]]
  /\ UNCHANGED <<frame, route, list, scaleOpen, scaleValue, confirm>>

Refuse(c) ==
  /\ calls[c].phase \in {"sent", "lost"}
  /\ calls' = [calls EXCEPT ![c] =
       IF @.phase = "lost" THEN FreeCall ELSE [@ EXCEPT !.phase = "refused"]]
  /\ UNCHANGED <<frame, route, writes, list, scaleOpen, scaleValue, confirm>>

Foreign ==
  /\ writes < MaxWrites
  /\ writes' = writes + 1
  /\ UNCHANGED <<frame, route, list, scaleOpen, scaleValue, confirm, calls>>

Released(c) ==
  IF confirm # NoConfirm /\ confirm.call = c THEN [confirm EXCEPT !.call = NoCall] ELSE confirm

Error(c) ==
  /\ calls[c].phase = "refused"
  /\ calls' = [calls EXCEPT ![c] = FreeCall]
  /\ confirm' = Released(c)
  /\ UNCHANGED <<frame, route, writes, list, scaleOpen, scaleValue>>

TimeOut(c) ==
  /\ calls[c].phase \in {"sent", "applied"}
  /\ calls' = [calls EXCEPT ![c] =
       IF @.phase = "sent" THEN [@ EXCEPT !.phase = "lost"] ELSE FreeCall]
  /\ confirm' = Released(c)
  /\ UNCHANGED <<frame, route, writes, list, scaleOpen, scaleValue>>

\* Those that waited for the rows are done, and their confirmation with them.
Done(waiting) ==
  /\ calls' = [c \in Call |-> IF c \in waiting THEN FreeCall ELSE calls[c]]
  /\ confirm' = IF confirm # NoConfirm /\ confirm.call \in waiting THEN NoConfirm ELSE confirm
Waiters == {c \in Call : calls[c].phase = "refresh"}

\* onSuccess: the scale dialog closes; the list is asked for again, which settles what
\* waited for the request that is replaced.
Reply(c) ==
  /\ calls[c].phase = "applied"
  /\ scaleOpen' = (scaleOpen /\ calls[c].op # "scale")
  /\ list' = Refetched(list, writes)
  /\ LET over == IF Replaces(list) THEN Waiters ELSE {}
     IN /\ calls' = [b \in Call |-> IF b \in over THEN FreeCall
                                    ELSE IF b = c THEN [calls[b] EXCEPT !.phase = "refresh"]
                                    ELSE calls[b]]
        /\ confirm' = IF confirm # NoConfirm /\ confirm.call \in over THEN NoConfirm ELSE confirm
  /\ UNCHANGED <<frame, route, writes, scaleValue>>

\* The item is another object of the answer if a write was made to it.
AnswerRows ==
  /\ Fetching(list)
  /\ \E seen \in list.since..writes, itemChanged \in BOOLEAN :
       /\ ~HasData(list) => itemChanged
       /\ itemChanged => ~HasData(list) \/ seen # list.data
       /\ list' = Answered(list, seen)
       /\ scaleValue' = ScaleValueOf(route, list', itemChanged)
  /\ Done(Waiters)
  /\ UNCHANGED <<frame, route, writes, scaleOpen>>

FailRows ==
  /\ Fetching(list)
  /\ list' = Failed(list)
  /\ scaleValue' = ScaleValueOf(route, list', ~HasData(list))
  /\ Done(Waiters)
  /\ UNCHANGED <<frame, route, writes, scaleOpen>>

-----------------------------------------------------------------------------
DetailNext ==
  \/ \E o \in Object : Navigate(o)
  \/ OpenScale \/ TypeScale \/ CancelScale \/ CancelConfirm \/ Foreign
  \/ \E op \in Confirmations : OpenConfirm(op)
  \/ \E c \in Call : SubmitScale(c) \/ Confirm(c) \/ Apply(c) \/ Refuse(c) \/ Error(c)
                     \/ TimeOut(c) \/ Reply(c)
  \/ AnswerRows \/ FailRows

DetailSpec == DetailInit /\ [][DetailNext]_vars

-----------------------------------------------------------------------------
(* Properties. *)

\* The number of replicas that is sent to an object was read from or typed for that
\* object: turning the page neither keeps the other object's number nor its dialog.
ScaleIsForItsTarget ==
  \A c \in Call : (calls[c].phase # "free" /\ calls[c].op = "scale")
    => calls[c].about = calls[c].target
=============================================================================
