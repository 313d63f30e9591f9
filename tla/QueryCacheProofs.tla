-------------------------- MODULE QueryCacheProofs --------------------------
(***************************************************************************)
(* What the steps of a cache entry do to its three fields, for any answers *)
(* and any number of writes; cited by the proofs of the pages.             *)
(***************************************************************************)
EXTENDS QueryCache, TLAPS

\* Asking again keeps the answer held, and the request is the old one or begins now.
LEMMA AskedTyped ==
  ASSUME NEW q \in QueryType, NEW n \in Int
  PROVE  /\ Refetched(q, n) \in QueryType /\ Observed(q, n) \in QueryType
         /\ Refetched(q, n).data = q.data /\ Observed(q, n).data = q.data
         /\ Refetched(q, n).since \in {q.since, n} /\ Observed(q, n).since \in {q.since, n}
<1>1. (HasData(q) /\ q.failed) \in BOOLEAN
  BY Zenon
<1>2. ASSUME NEW b \in BOOLEAN
      PROVE  LET r == [q EXCEPT !.since = n, !.failed = b]
             IN  r \in QueryType /\ r.data = q.data /\ r.since = n
  BY DEF QueryType
<1>3. Refetched(q, n) = q \/ \E b \in BOOLEAN : Refetched(q, n) = [q EXCEPT !.since = n, !.failed = b]
  BY <1>1, Zenon DEF Refetched
<1>4. Observed(q, n) = q \/ \E b \in BOOLEAN : Observed(q, n) = [q EXCEPT !.since = n, !.failed = b]
  BY <1>1, Zenon DEF Observed
<1>5. QED BY <1>2, <1>3, <1>4

\* Over an answer, refetch() begins anew.
LEMMA RefetchedAnew ==
  ASSUME NEW q \in QueryType, NEW n \in Nat, HasData(q)
  PROVE  Refetched(q, n).since = n /\ Fetching(Refetched(q, n))
<1>1. Refetched(q, n) = [q EXCEPT !.since = n, !.failed = HasData(q) /\ q.failed]
  BY Zenon DEF Refetched
<1>2. Refetched(q, n).since = n
  BY <1>1 DEF QueryType
<1>3. QED BY <1>2 DEF Fetching, Idle

LEMMA AnsweredTyped ==
  ASSUME NEW q \in QueryType, NEW n \in Int
  PROVE  /\ Answered(q, n) \in QueryType
         /\ Answered(q, n).data = n /\ Answered(q, n).since = -1 /\ Answered(q, n).failed = FALSE
BY DEF Answered, QueryType, Idle

LEMMA FailedTyped ==
  ASSUME NEW q \in QueryType
  PROVE  /\ Failed(q) \in QueryType
         /\ Failed(q).data = q.data /\ Failed(q).since = -1 /\ Failed(q).failed = TRUE
<1>1. Failed(q) = [q EXCEPT !.since = -1, !.failed = TRUE] /\ -1 \in Int
  BY DEF Failed, Idle
<1>2. QED BY <1>1 DEF QueryType

\* The entry of a page that has just been opened.
LEMMA NotAskedTyped ==
  /\ NotAsked \in QueryType /\ NotAsked.data = -1 /\ NotAsked.since = -1
  /\ NotAsked.failed = FALSE
BY DEF NotAsked, QueryType, NoData, Idle
=============================================================================
