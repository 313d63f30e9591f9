---------------------------- MODULE EventStream ----------------------------
(***************************************************************************)
(* The incident event feed: aiops/events.go (persist, then fan out to      *)
(* bounded channels), the SSE handler of server/aiops_routes.go, and the   *)
(* browser's useIncidentEvents hook, for one incident and one client.      *)
(*                                                                         *)
(* An event is its position in the incident's persisted log.  One workflow *)
(* driver at a time publishes for an incident (Workflow!SingleDriver), so  *)
(* there is one publisher.  A handler of a lost connection may still run   *)
(* while the client's next one is served.                                  *)
(***************************************************************************)
EXTENDS Naturals, Sequences, FiniteSets

CONSTANTS
  Handler,        \* SSE requests the server can be serving at once
  NoHandler,      \* the client has no open connection
  Buffer,         \* capacity of a subscription channel (32 in the code)
  Wire,           \* frames a connection takes before a write blocks
  HandlesNamed,   \* does the client listen to the named events of the API (docs/aiops
                  \* api-v1.md); the shipped hook does not
  MaxEvents, MaxDrops, MaxCrashes     \* bounds of the model

ASSUME FeedAssumption ==
  /\ NoHandler \notin Handler
  /\ Buffer \in Nat \ {0} /\ Wire \in Nat \ {0}
  /\ HandlesNamed \in BOOLEAN
  /\ MaxEvents \in Nat /\ MaxDrops \in Nat /\ MaxCrashes \in Nat

VARIABLES
  log,        \* rows of incident_events
  pub,        \* Append: "idle", or "broadcast" after the INSERT
  hpc,        \* where each handler is
  after,      \* the id each handler replays after, advanced as it writes
  listed,     \* the last row its ListAfter returned
  subs,       \* EventStore.subs of the incident
  ch,         \* the subscription channels
  cur,        \* the handler at the other end of the client's EventSource
  wire,       \* frames written to that connection and not yet read
  last,       \* lastEventIdRef of the hook
  received,   \* history: ids of the events that refreshed the page, in order
  drops, crashes          \* bound counters

server == <<hpc, after, listed, subs, ch>>
client == <<cur, wire, last, received>>
counters == <<drops, crashes>>
vars == <<log, pub, server, client, counters>>

Places == {"free", "list", "replay", "live"}
Ids == 1..MaxEvents
UpTo(n, S) == UNION {[1..k -> S] : k \in 0..n}

TypeOK ==
  /\ log \in 0..MaxEvents
  /\ pub \in {"idle", "broadcast"}
  /\ hpc \in [Handler -> Places]
  /\ after \in [Handler -> 0..MaxEvents] /\ listed \in [Handler -> 0..MaxEvents]
  /\ subs \subseteq Handler
  /\ ch \in [Handler -> UpTo(Buffer, Ids)]
  /\ cur \in Handler \cup {NoHandler}
  /\ wire \in UpTo(Wire, Ids)
  /\ last \in 0..MaxEvents
  /\ received \in Seq(Ids)
  /\ drops \in 0..MaxDrops /\ crashes \in 0..MaxCrashes

Init ==
  /\ log = 0 /\ pub = "idle"
  /\ hpc = [h \in Handler |-> "free"]
  /\ after = [h \in Handler |-> 0] /\ listed = [h \in Handler |-> 0]
  /\ subs = {} /\ ch = [h \in Handler |-> << >>]
  /\ cur = NoHandler /\ wire = << >> /\ last = 0 /\ received = << >>
  /\ drops = 0 /\ crashes = 0

-----------------------------------------------------------------------------
\* Mutant: The channel is never full.
HasRoomAlways(h) == TRUE

HasRoom(h) == Len(ch[h]) < Buffer

\* Mutant: Append announces the event before its INSERT.
PersistAnnounced ==
  /\ pub = "idle" /\ log < MaxEvents
  /\ ch' = [h \in Handler |-> IF h \in subs /\ HasRoom(h) THEN Append(ch[h], log + 1) ELSE ch[h]]
  /\ pub' = "broadcast"
  /\ UNCHANGED <<log, hpc, after, listed, subs, client, counters>>

\* Append's INSERT.  A failed one is ignored by emit and changes nothing.
Persist ==
  /\ pub = "idle" /\ log < MaxEvents
  /\ log' = log + 1
  /\ pub' = "broadcast"
  /\ UNCHANGED <<server, client, counters>>

\* Mutant: A blocking send.
BroadcastBlocks ==
  /\ pub = "broadcast" /\ \A h \in subs : HasRoom(h)
  /\ pub' = "idle"
  /\ ch' = [h \in Handler |-> IF h \in subs THEN Append(ch[h], log) ELSE ch[h]]
  /\ UNCHANGED <<log, hpc, after, listed, subs, client, counters>>

\* A non-blocking send to every subscriber, under the store's mutex.
Broadcast ==
  /\ pub = "broadcast"
  /\ pub' = "idle"
  /\ ch' = [h \in Handler |-> IF h \in subs /\ HasRoom(h) THEN Append(ch[h], log) ELSE ch[h]]
  /\ UNCHANGED <<log, hpc, after, listed, subs, client, counters>>

-----------------------------------------------------------------------------
\* Mutant: The live feed is opened before the history is read.
ConnectSubscribes(h) ==
  /\ cur = NoHandler /\ hpc[h] = "free"
  /\ cur' = h
  /\ hpc' = [hpc EXCEPT ![h] = "list"]
  /\ after' = [after EXCEPT ![h] = last]
  /\ subs' = subs \cup {h}
  /\ UNCHANGED <<log, pub, listed, ch, wire, last, received, counters>>

\* The hook opens an EventSource that carries its last id; the server starts a
\* handler for it.
Connect(h) ==
  /\ cur = NoHandler /\ hpc[h] = "free"
  /\ cur' = h
  /\ hpc' = [hpc EXCEPT ![h] = "list"]
  /\ after' = [after EXCEPT ![h] = last]
  /\ UNCHANGED <<log, pub, listed, subs, ch, wire, last, received, counters>>

ListAfter(h) ==
  /\ hpc[h] = "list"
  /\ hpc' = [hpc EXCEPT ![h] = "replay"]
  /\ listed' = [listed EXCEPT ![h] = log]
  /\ UNCHANGED <<log, pub, after, subs, ch, client, counters>>

\* The query fails, always when the client has gone: the handler returns, which
\* closes the connection.
ListFails(h) ==
  /\ hpc[h] = "list"
  /\ hpc' = [hpc EXCEPT ![h] = "free"]
  /\ IF cur = h
     THEN /\ drops < MaxDrops
          /\ drops' = drops + 1 /\ cur' = NoHandler /\ wire' = << >>
     ELSE UNCHANGED <<drops, cur, wire>>
  /\ UNCHANGED <<log, pub, after, listed, subs, ch, last, received, crashes>>

\* A write blocks while the connection is full; one to a lost connection is
\* thrown away.
CanWrite(h) == cur = h => Len(wire) < Wire
Write(h, id) == wire' = IF cur = h THEN Append(wire, id) ELSE wire

Replay(h) ==
  /\ hpc[h] = "replay" /\ after[h] < listed[h] /\ CanWrite(h)
  /\ after' = [after EXCEPT ![h] = @ + 1]
  /\ Write(h, after[h] + 1)
  /\ UNCHANGED <<log, pub, hpc, listed, subs, ch, cur, last, received, counters>>

\* Mutant: The replay stops one row short.
SubscribeEarly(h) ==
  /\ hpc[h] = "replay" /\ after[h] + 1 >= listed[h]
  /\ hpc' = [hpc EXCEPT ![h] = "live"]
  /\ subs' = subs \cup {h}
  /\ UNCHANGED <<log, pub, after, listed, ch, client, counters>>

Subscribe(h) ==
  /\ hpc[h] = "replay" /\ after[h] >= listed[h]
  /\ hpc' = [hpc EXCEPT ![h] = "live"]
  /\ subs' = subs \cup {h}
  /\ UNCHANGED <<log, pub, after, listed, ch, client, counters>>

SendLive(h) ==
  /\ hpc[h] = "live" /\ ch[h] # << >> /\ CanWrite(h)
  /\ Write(h, Head(ch[h]))
  /\ ch' = [ch EXCEPT ![h] = Tail(@)]
  /\ UNCHANGED <<log, pub, hpc, after, listed, subs, cur, last, received, counters>>

\* Mutant: The handler returns without its deferred unsubscribe.
HandlerDoneLeaks(h) ==
  /\ hpc[h] = "live" /\ cur # h
  /\ hpc' = [hpc EXCEPT ![h] = "free"]
  /\ ch' = [ch EXCEPT ![h] = << >>]
  /\ UNCHANGED <<log, pub, after, listed, subs, client, counters>>

\* ctx.Done() of a client that has gone; the deferred unsubscribe.
HandlerDone(h) ==
  /\ hpc[h] = "live" /\ cur # h
  /\ hpc' = [hpc EXCEPT ![h] = "free"]
  /\ subs' = subs \ {h}
  /\ ch' = [ch EXCEPT ![h] = << >>]
  /\ UNCHANGED <<log, pub, after, listed, client, counters>>

-----------------------------------------------------------------------------
\* A frame reaches the page.  Every frame names its event type, and a browser
\* hands a named event to the listeners of that name, never to onmessage.
Receive ==
  /\ wire # << >>
  /\ wire' = Tail(wire)
  /\ IF HandlesNamed
     THEN /\ last' = IF Head(wire) > last THEN Head(wire) ELSE last
          /\ received' = Append(received, Head(wire))
     ELSE UNCHANGED <<last, received>>
  /\ UNCHANGED <<log, pub, server, cur, counters>>

\* Mutant: The id moves when the connection breaks, not when a frame is read.
DisconnectAdvances ==
  /\ cur # NoHandler /\ drops < MaxDrops
  /\ drops' = drops + 1
  /\ last' = IF wire = << >> THEN last ELSE wire[Len(wire)]
  /\ cur' = NoHandler /\ wire' = << >>
  /\ UNCHANGED <<log, pub, server, received, crashes>>

\* The connection breaks: frames in flight are lost and onerror closes the source.
Disconnect ==
  /\ cur # NoHandler /\ drops < MaxDrops
  /\ drops' = drops + 1
  /\ cur' = NoHandler /\ wire' = << >>
  /\ UNCHANGED <<log, pub, server, last, received, crashes>>

\* The server restarts: only the log survives.
Crash ==
  /\ crashes < MaxCrashes
  /\ crashes' = crashes + 1
  /\ pub' = "idle"
  /\ hpc' = [h \in Handler |-> "free"]
  /\ subs' = {} /\ ch' = [h \in Handler |-> << >>]
  /\ cur' = NoHandler /\ wire' = << >>
  /\ UNCHANGED <<log, after, listed, last, received, drops>>

Serve(h) == ListAfter(h) \/ Replay(h) \/ Subscribe(h) \/ SendLive(h)

Next ==
  \/ Persist \/ Broadcast
  \/ \E h \in Handler : Connect(h) \/ Serve(h) \/ ListFails(h) \/ HandlerDone(h)
  \/ Receive \/ Disconnect \/ Crash

Spec == Init /\ [][Next]_vars

\* The goroutines run: the publisher, and every handler.
ServerFairness ==
  /\ WF_vars(Broadcast)
  /\ \A h \in Handler : WF_vars(Serve(h)) /\ WF_vars(HandlerDone(h))

\* Nothing is asked of the client: it may stop reading, and never reconnect.
FairSpec == Spec /\ ServerFairness

-----------------------------------------------------------------------------
\* The page sees events in the order the workflow produced them, across drops,
\* replays, reconnections and restarts.  An event comes twice only when its row
\* was listed before it was broadcast, and then twice in a row.
ReceivedInOrder ==
  \A i, j \in DOMAIN received :
    /\ i < j => received[i] <= received[j]
    /\ i + 1 < j => received[i] < received[j]

\* What the page resumes after is what it has seen: a reconnection neither asks
\* for an event again nor skips one that was on the wire when it broke.
ResumesAfterLastSeen ==
  last = IF received = << >> THEN 0 ELSE received[Len(received)]

\* Only what would survive a restart is shown: an event reaches a channel, the
\* connection or the page after its row is committed.
OnlyPersistedIsSent ==
  LET sent(s) == \A i \in DOMAIN s : s[i] <= log
  IN  sent(received) /\ sent(wire) /\ \A h \in Handler : sent(ch[h])

\* Publishing never waits for a reader ("events must never block the workflow").
PublisherNeverBlocked == (pub = "broadcast") ~> (pub = "idle")

\* The subscription of a client that has gone is released.
SubscriptionsAreReleased ==
  \A h \in Handler : (h \in subs /\ cur # h) ~> (h \notin subs)

Seen(k) == \E i \in DOMAIN received : received[i] = k

\* Every row the replay query returned reaches a page that stays connected and
\* keeps reading.
HistoryIsReplayed ==
  []<>(wire = << >>) =>
  \A h \in Handler, k \in Ids :
    (hpc[h] = "replay" /\ cur = h /\ after[h] < k /\ k <= listed[h]) ~> (Seen(k) \/ cur # h)

-----------------------------------------------------------------------------
\* useIncidentEvents.ts: an event that arrives refreshes the page.  The shipped hook
\* (HandlesNamed = FALSE) does not keep this.
ArrivalRefreshes ==
  [][Receive => \E i \in DOMAIN received' : received'[i] = Head(wire)]_vars
=============================================================================
