------------------------------- MODULE ListPage -------------------------------
(***************************************************************************)
(* A resource list of the console (web/src/pages, any page of ListPages):  *)
(* its rows, its dialogs and the requests it has sent, against a cluster   *)
(* known by the number of writes made to the listed kind.  One namespace   *)
(* is selected: another one is another query.                              *)
(***************************************************************************)
EXTENDS ListPages, QueryCache

CONSTANTS
  Call,           \* write requests the browser can have under way
  NoCall,         \* a dialog whose button was not pressed
  Pages,          \* the pages looked at
  MaxWrites       \* bound: writes of the cluster

ASSUME ListPageAssumption ==
  /\ NoCall \notin Call
  /\ Pages \subseteq ListPageType
  /\ MaxWrites \in Nat

\* The pages that fall back to demo rows ask allowLiveAccess (ListPages).
ASSUME GuardAssumption ==
  \A p \in Pages : p.hooks.rows = "guarded" => p.menu.when = "allowed"

VARIABLES
  page,           \* the page on the screen
  mode,           \* appStore.dataMode, settled when the session is
  writes,         \* writes of the cluster, this page's and others'
  list,           \* the query behind the rows
  dialog,         \* the dialog over the page: the mask leaves room for one
  calls,          \* this page's write requests
  acked           \* history: the writes an acknowledged operation is known to be in

vars == <<page, mode, writes, list, dialog, calls, acked>>
frame == <<page, mode>>

Ops == Operation \cup {"create"}

\* sent, applied, refused   on the way to the server, done there, turned down
\* refresh                  acknowledged, waiting for the refetch of the rows
\* lost                     the browser gave up (15 s), the request may still arrive
Phases == {"free", "sent", "applied", "refused", "refresh", "lost"}
\* live: the row came from the cluster.  at: the write it made.
CallType == [op: Ops, live: BOOLEAN, phase: Phases, at: 0..MaxWrites]
DialogType == [op: Ops, live: BOOLEAN, call: Call \cup {NoCall}]

FreeCall == [op |-> "create", live |-> FALSE, phase |-> "free", at |-> 0]
NoDialog == [op |-> "none"]

ListTypeOK ==
  /\ page \in Pages /\ mode \in {"live", "demo"}
  /\ writes \in 0..MaxWrites
  /\ list \in QueryType /\ list.data \in -1..writes /\ list.since \in -1..writes
  /\ dialog \in DialogType \cup {NoDialog}
  /\ calls \in [Call -> CallType]
  /\ acked \in 0..writes

ListInit ==
  /\ page \in Pages /\ mode \in {"live", "demo"}
  /\ writes = 0
  /\ list = IF mode = "live" THEN Observed(NotAsked, 0) ELSE NotAsked
  /\ dialog = NoDialog
  /\ calls = [c \in Call |-> FreeCall]
  /\ acked = 0

-----------------------------------------------------------------------------
\* What the rows are.
UseDemoData ==
  CASE page.hooks.rows = "unguarded" -> mode = "demo" \/ ~HasData(list)
    [] page.hooks.rows = "guarded"   -> mode = "demo" \/ (list.failed /\ ~HasData(list))
    [] page.hooks.rows = "live"      -> mode = "demo"

\* A row to click on: demo rows, or those of the last answer.  The table is covered
\* while the first answer is awaited.
Loading == Fetching(list) /\ ~HasData(list) /\ mode = "live"
RowShown == ~Loading /\ (UseDemoData \/ HasData(list))
RowIsLive == ~UseDemoData

Allowed == mode = "live" /\ ~UseDemoData

\* Mutant: The fallback does not withdraw the operations.
AskAlwaysLive(when) == mode = "live"

Ask(when) ==
  CASE when = "notDemo" -> mode # "demo"
    [] when = "allowed" -> Allowed
    [] when = "live"    -> mode = "live"
    [] when = "none"    -> FALSE

\* A mutation is pending from mutateAsync to the end of its onSuccess.
Waiting == {"sent", "applied", "refused", "refresh"}
Pending(op) == \E c \in Call : calls[c].op = op /\ calls[c].phase \in Waiting

-----------------------------------------------------------------------------
\* An entry of a row's menu.  The menu stays usable while a mutation runs.
OpenDialog(op) ==
  /\ dialog = NoDialog
  /\ op \in page.menu.ops /\ Ask(page.menu.when) /\ RowShown
  /\ dialog' = [op |-> op, live |-> RowIsLive, call |-> NoCall]
  /\ UNCHANGED <<frame, writes, list, calls, acked>>

OpenCreate ==
  /\ dialog = NoDialog /\ Ask(page.view.create)
  /\ dialog' = [op |-> "create", live |-> FALSE, call |-> NoCall]
  /\ UNCHANGED <<frame, writes, list, calls, acked>>

\* OK.  Forms look at isPending; a confirmation blocks only its own button.
Blocked == IF dialog.op \in page.view.forms \cup {"create"}
           THEN Pending(dialog.op)
           ELSE dialog.call # NoCall

Submit(c) ==
  /\ dialog # NoDialog /\ ~Blocked
  /\ calls[c].phase = "free"
  /\ calls' = [calls EXCEPT ![c] =
       [op |-> dialog.op, live |-> dialog.live, phase |-> "sent", at |-> 0]]
  /\ dialog' = [dialog EXCEPT !.call = c]
  /\ UNCHANGED <<frame, writes, list, acked>>

\* Mutant: The dialog forgets its operation and keeps its row.
DismissKeeps ==
  /\ dialog # NoDialog
  /\ dialog' = [dialog EXCEPT !.op = "none"]
  /\ UNCHANGED <<frame, writes, list, calls, acked>>

\* Cancel, or the corner cross: a request under way goes on.
Dismiss ==
  /\ dialog # NoDialog
  /\ dialog' = NoDialog
  /\ UNCHANGED <<frame, writes, list, calls, acked>>

-----------------------------------------------------------------------------
\* The server makes the write; one it was given up on is done all the same.
Apply(c) ==
  /\ calls[c].phase \in {"sent", "lost"} /\ writes < MaxWrites
  /\ writes' = writes + 1
  /\ calls' = [calls EXCEPT ![c] = IF calls[c].phase = "lost" THEN FreeCall
                                   ELSE [@ EXCEPT !.phase = "applied", !.at = writes + 1]]
  /\ UNCHANGED <<frame, list, dialog, acked>>

\* The server turns it down (a demo row's name need not exist).
Refuse(c) ==
  /\ calls[c].phase \in {"sent", "lost"}
  /\ calls' = [calls EXCEPT ![c] = IF calls[c].phase = "lost" THEN FreeCall
                                   ELSE [@ EXCEPT !.phase = "refused"]]
  /\ UNCHANGED <<frame, writes, list, dialog, acked>>

\* Someone else's write.
Foreign ==
  /\ writes < MaxWrites
  /\ writes' = writes + 1
  /\ UNCHANGED <<frame, list, dialog, calls, acked>>

-----------------------------------------------------------------------------
\* The end of a request frees the dialog that waits for it, if it is still open.
Released(c) ==
  IF dialog # NoDialog /\ dialog.call = c THEN [dialog EXCEPT !.call = NoCall] ELSE dialog

\* Neither rows nor dialogs are touched by an error.
Error(c) ==
  /\ calls[c].phase = "refused"
  /\ calls' = [calls EXCEPT ![c] = FreeCall]
  /\ dialog' = Released(c)
  /\ UNCHANGED <<frame, writes, list, acked>>

\* axios gives up: before the server saw the request, or on its reply.
TimeOut(c) ==
  /\ calls[c].phase \in {"sent", "applied"}
  /\ calls' = [calls EXCEPT ![c] =
       IF calls[c].phase = "sent" THEN [@ EXCEPT !.phase = "lost"] ELSE FreeCall]
  /\ dialog' = Released(c)
  /\ UNCHANGED <<frame, writes, list, acked>>

\* The dialogs an onSuccess closes at once, whatever they have become about.
Closes(op) ==
  CASE op = "scale"  -> {"scale"}
    [] op = "delete" -> page.hooks.deleteCloses
    [] op = "create" -> {"create"}
    [] op = "yaml"   -> IF page.hooks.saveWaits THEN {} ELSE {"yaml"}
    [] OTHER         -> {}

\* A save that does not wait for its refetches is over at once.
Awaits(op) == op # "yaml" \/ page.hooks.saveWaits

\* refetch() over data settles what waited for the request it replaces, and
\* a waiter of a first request waits on.
AfterRefetch == IF Replaces(list)
  THEN [c \in Call |-> IF calls[c].phase = "refresh" THEN FreeCall ELSE calls[c]]
  ELSE calls

\* What becomes of the dialog when the waits for the rows are over: a confirmation
\* closes, and so does the editor of a page that waits.
DialogAfter(left) ==
  IF dialog # NoDialog /\ dialog.call \in left THEN NoDialog ELSE dialog

\* Mutant: The mutation's onSuccess forgets the refetch.
ReplyUnseen(c) ==
  /\ calls[c].phase = "applied"
  /\ calls' = [calls EXCEPT ![c] = FreeCall]
  /\ dialog' = DialogAfter({c})
  /\ acked' = IF HasData(list) /\ calls[c].at > acked THEN calls[c].at ELSE acked
  /\ UNCHANGED <<frame, writes, list>>

\* onSuccess: close, then refetch the rows.
Reply(c) ==
  /\ calls[c].phase = "applied"
  /\ calls' = [AfterRefetch EXCEPT ![c] =
       IF Awaits(calls[c].op) THEN [@ EXCEPT !.phase = "refresh"] ELSE FreeCall]
  /\ LET over == {b \in Call : AfterRefetch[b].phase # calls[b].phase}
         op   == calls[c].op
     IN dialog' = IF dialog.op \in Closes(op) THEN NoDialog
                  ELSE DialogAfter(IF Awaits(op) THEN over ELSE over \cup {c})
  /\ list' = Refetched(list, writes)
  /\ acked' = IF HasData(list) /\ calls[c].at > acked THEN calls[c].at ELSE acked
  /\ UNCHANGED <<frame, writes>>

\* The request for the rows ends, and with it every wait for it.
Waiters == {c \in Call : calls[c].phase = "refresh"}
RowsEnd ==
  /\ calls' = [c \in Call |-> IF c \in Waiters THEN FreeCall ELSE calls[c]]
  /\ dialog' = DialogAfter(Waiters)
  /\ UNCHANGED <<frame, writes, acked>>

\* The answer shows the cluster at some moment since it was asked for.
AnswerRows ==
  /\ Fetching(list)
  /\ \E seen \in list.since..writes : list' = Answered(list, seen)
  /\ RowsEnd

\* Both tries failed.
FailRows ==
  /\ Fetching(list)
  /\ list' = Failed(list)
  /\ RowsEnd

\* The toolbar's refresh button.  In demo mode too: refetch() ignores "enabled".
UserRefresh ==
  /\ dialog = NoDialog
  /\ list' = Refetched(list, writes)
  /\ calls' = AfterRefetch
  /\ UNCHANGED <<frame, writes, dialog, acked>>

-----------------------------------------------------------------------------
ListNext ==
  \/ \E op \in Operation : OpenDialog(op)
  \/ OpenCreate \/ Dismiss \/ Foreign
  \/ \E c \in Call : Submit(c) \/ Apply(c) \/ Refuse(c) \/ Error(c) \/ TimeOut(c) \/ Reply(c)
  \/ AnswerRows \/ FailRows \/ UserRefresh

ListSpec == ListInit /\ [][ListNext]_vars

-----------------------------------------------------------------------------
(* Properties. *)

\* Operations of a page that guards its fallback name rows the cluster reported, also
\* when the answer came, failed or was replaced while the dialog was open.
WritesNameLiveRows ==
  page.hooks.rows # "unguarded" =>
    \A c \in Call : calls[c].phase # "free" =>
      mode = "live" /\ (calls[c].op # "create" => calls[c].live)

\* Rows shown as settled have seen every write the user was told about, whatever
\* refetches overtook each other.  (A create acknowledged before the first answer is
\* not counted: its refetch joins the request already under way.)
AcknowledgedWritesAreShown == Settled(list) => list.data >= acked
=============================================================================
