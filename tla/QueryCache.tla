----------------------------- MODULE QueryCache -----------------------------
(***************************************************************************)
(* One entry of the cache of @tanstack/react-query, as the console's pages *)
(* use it (app/AppProviders.tsx: one retry, no refetch on focus).  An      *)
(* answer is known by how many writes of the cluster it has seen.          *)
(***************************************************************************)
EXTENDS Integers

NoData == -1    \* query.data is undefined
Idle   == -1    \* no request in flight

\* data    the answer held, NoData before the first
\* since   writes made when the request in flight was sent: its answer has
\*         seen these and perhaps later ones
\* failed  the last request ended with an error; data, if any, is kept
QueryType == [data: Int, since: Int, failed: BOOLEAN]

NotAsked == [data |-> NoData, since |-> Idle, failed |-> FALSE]

HasData(q)  == q.data # NoData
Fetching(q) == q.since # Idle

\* The observer mounts, its key changes or it becomes enabled: an answer is stale at
\* once (staleTime 0), and a request in flight is shared.
Observed(q, now) ==
  IF Fetching(q) THEN q ELSE [q EXCEPT !.since = now, !.failed = HasData(q) /\ q.failed]

\* refetch() restarts a request over data, and joins the very first one.
Refetched(q, now) ==
  IF Fetching(q) /\ ~HasData(q) THEN q
  ELSE [q EXCEPT !.since = now, !.failed = HasData(q) /\ q.failed]

\* refetch() resolves the promises of the request it replaces.
Replaces(q) == Fetching(q) /\ HasData(q)

Answered(q, seen) == [data |-> seen, since |-> Idle, failed |-> FALSE]
Failed(q) == [q EXCEPT !.since = Idle, !.failed = TRUE]

\* Nothing in flight and no failure to report: what is shown counts as current.
Settled(q) == HasData(q) /\ ~Fetching(q) /\ ~q.failed
=============================================================================
