-------------------------- MODULE EventStreamProofs --------------------------
(***************************************************************************)
(* Theorems of EventStream, for any number of handlers and events, channel *)
(* and connection buffers of any size, lost connections and restarts in    *)
(* any number, and a client that listens or does not.                      *)
(*                                                                         *)
(*   Typed      types, and that only a stored row is broadcast             *)
(*   Served     what a channel holds, and when: announced ids, ascending,  *)
(*              and only between Subscribe and the deferred unsubscribe    *)
(*   Fed        what the page has seen and what is on the wire are one     *)
(*              ascending sequence, which whatever comes next may follow   *)
(***************************************************************************)
EXTENDS EventStream, SequenceTheorems, TLAPS

-----------------------------------------------------------------------------
(* Sequences of ids *)

\* The ids of s are at most b.
Within(s, b) == \A i \in 1..Len(s) : s[i] <= b

\* x repeats at most the last id of s, and that only once.
MayFollow(x, s) ==
  \A i \in 1..Len(s) : s[i] <= x /\ (i + 1 \in 1..Len(s) /\ s[i] = s[i + 1] => s[i] < x)

\* Ascending, with repetitions in pairs and of ids up to b only.
Ascending(s, b) ==
  /\ \A i, j \in 1..Len(s) : i < j => s[i] <= s[j] /\ (i + 1 < j => s[i] < s[j])
  /\ \A i \in 1..Len(s) : i + 1 \in 1..Len(s) /\ s[i] = s[i + 1] => s[i] <= b

\* Strictly ascending.
Strict(s) == \A i, j \in 1..Len(s) : i < j => s[i] < s[j]

\* Bounded sequences are sequences.
LEMMA UpToSeq ==
  ASSUME NEW n \in Nat, NEW S, NEW s
  PROVE  s \in UpTo(n, S) <=> s \in Seq(S) /\ Len(s) <= n
<1>1. ASSUME s \in UpTo(n, S) PROVE s \in Seq(S) /\ Len(s) <= n
  <2>1. PICK k \in 0..n : s \in [1..k -> S]
    BY <1>1 DEF UpTo
  <2>2. s \in Seq(S)
    BY <2>1, SeqDef
  <2>3. DOMAIN s = 1..Len(s) /\ Len(s) \in Nat
    BY <2>2, LenProperties
  <2>4. Len(s) = k
    BY <2>1, <2>3
  <2>5. QED BY <2>2, <2>4
<1>2. ASSUME s \in Seq(S), Len(s) <= n PROVE s \in UpTo(n, S)
  BY <1>2, LenProperties DEF UpTo
<1>3. QED BY <1>1, <1>2

\* The entries of an Append, of a Tail and of a concatenation.
LEMMA AppendEntries ==
  ASSUME NEW s \in Seq(Nat), NEW x \in Nat
  PROVE  /\ Append(s, x) \in Seq(Nat) /\ Len(s) \in Nat /\ Len(Append(s, x)) = Len(s) + 1
         /\ \A i \in 1..Len(s) : Append(s, x)[i] = s[i] /\ s[i] \in Nat
         /\ Append(s, x)[Len(s) + 1] = x
BY AppendProperties, LenProperties, ElementOfSeq

LEMMA TailEntries ==
  ASSUME NEW s \in Seq(Nat), s # << >>
  PROVE  /\ Tail(s) \in Seq(Nat) /\ Head(s) \in Nat /\ Head(s) = s[1]
         /\ Len(s) \in Nat /\ Len(s) >= 1 /\ Len(Tail(s)) = Len(s) - 1
         /\ \A i \in 1..Len(s) : s[i] \in Nat
         /\ \A i \in 1..(Len(s) - 1) : Tail(s)[i] = s[i + 1]
BY HeadTailProperties, EmptySeq, LenProperties, ElementOfSeq

LEMMA AscendingAppend ==
  ASSUME NEW s \in Seq(Nat), NEW x \in Nat, NEW b \in Int,
         Ascending(s, b), MayFollow(x, s), x <= b \/ \A i \in 1..Len(s) : s[i] < x
  PROVE  Ascending(Append(s, x), b)
<1> DEFINE t == Append(s, x)
           n == Len(s)
<1>1. /\ n \in Nat /\ Len(t) = n + 1
      /\ \A i \in 1..n : t[i] = s[i] /\ s[i] \in Nat
      /\ t[n + 1] = x
  BY AppendEntries
<1>a. /\ \A i, j \in 1..n : i < j => s[i] <= s[j] /\ (i + 1 < j => s[i] < s[j])
      /\ \A i \in 1..n : i + 1 \in 1..n /\ s[i] = s[i + 1] => s[i] <= b
  BY DEF Ascending
<1>b. \A i \in 1..n : s[i] <= x /\ (i + 1 \in 1..n /\ s[i] = s[i + 1] => s[i] < x)
  BY DEF MayFollow
<1>c. x <= b \/ \A i \in 1..n : s[i] < x
  OBVIOUS
<1> HIDE DEF t, n
<1>2. ASSUME NEW i \in 1..(n + 1), NEW j \in 1..(n + 1), i < j
      PROVE  t[i] <= t[j] /\ (i + 1 < j => t[i] < t[j])
  <2>1. i \in 1..n /\ t[i] = s[i] /\ s[i] \in Nat
    BY <1>1, <1>2
  <2>2. CASE j \in 1..n
    BY <1>1, <1>a, <1>2, <2>1, <2>2
  <2>3. CASE j = n + 1
    <3>1. t[i] <= t[j]
      BY <1>1, <1>b, <2>1, <2>3
    <3>2. ASSUME i + 1 < j PROVE t[i] < t[j]
      <4>1. i + 1 \in 1..n
        BY <1>1, <2>1, <2>3, <3>2
      <4>2. s[i] <= s[i + 1] /\ s[i + 1] <= x /\ s[i + 1] \in Nat
        BY <1>1, <1>a, <1>b, <2>1, <4>1
      <4>3. s[i] = s[i + 1] => s[i] < x
        BY <1>b, <2>1, <4>1
      <4>4. QED BY <1>1, <2>1, <2>3, <4>2, <4>3
    <3>3. QED BY <3>1, <3>2
  <2>4. QED BY <1>1, <1>2, <2>2, <2>3
<1>3. ASSUME NEW i \in 1..(n + 1), i + 1 \in 1..(n + 1), t[i] = t[i + 1] PROVE t[i] <= b
  <2>1. i \in 1..n /\ t[i] = s[i] /\ s[i] \in Nat
    BY <1>1, <1>3
  <2>2. CASE i + 1 \in 1..n
    BY <1>1, <1>a, <1>3, <2>1, <2>2
  <2>3. CASE i + 1 = n + 1
    <3>1. s[i] = x
      BY <1>1, <1>3, <2>1, <2>3
    <3>2. ~(s[i] < x)
      BY <2>1, <3>1
    <3>3. QED BY <1>c, <2>1, <3>1, <3>2
  <2>4. QED BY <1>1, <1>3, <2>1, <2>2, <2>3
<1>4. \A i, j \in 1..Len(t) : i < j => t[i] <= t[j] /\ (i + 1 < j => t[i] < t[j])
  BY <1>1, <1>2
<1>5. \A i \in 1..Len(t) : i + 1 \in 1..Len(t) /\ t[i] = t[i + 1] => t[i] <= b
  BY <1>1, <1>3
<1>6. QED BY <1>4, <1>5 DEF Ascending, t

\* What is beyond x may follow x, where x may follow s.
LEMMA FollowAppend ==
  ASSUME NEW s \in Seq(Nat), NEW x \in Nat, NEW y \in Nat, x < y, MayFollow(x, s)
  PROVE  MayFollow(y, Append(s, x))
<1> DEFINE t == Append(s, x)
           n == Len(s)
<1>1. /\ n \in Nat /\ Len(t) = n + 1
      /\ \A i \in 1..n : t[i] = s[i] /\ s[i] \in Nat
      /\ t[n + 1] = x
  BY AppendEntries
<1>a. \A i \in 1..n : s[i] <= x
  BY DEF MayFollow
<1> HIDE DEF t, n
<1>2. ASSUME NEW i \in 1..(n + 1) PROVE t[i] < y /\ t[i] \in Nat
  <2>1. CASE i \in 1..n
    BY <1>1, <1>a, <2>1
  <2>2. CASE i = n + 1
    BY <1>1, <2>2
  <2>3. QED BY <1>1, <1>2, <2>1, <2>2
<1>3. \A i \in 1..Len(t) : t[i] < y /\ t[i] <= y
  BY <1>1, <1>2
<1>4. QED BY <1>3 DEF MayFollow, t

LEMMA AscendingPrefix ==
  ASSUME NEW s \in Seq(Nat), NEW t \in Seq(Nat), NEW b, Ascending(s \o t, b)
  PROVE  Ascending(s, b)
<1> DEFINE u == s \o t
           n == Len(s)
           m == Len(u)
<1>1. n \in Nat /\ m \in Nat /\ n <= m /\ \A i \in 1..n : u[i] = s[i]
  BY ConcatProperties, LenProperties
<1>a. /\ \A i, j \in 1..m : i < j => u[i] <= u[j] /\ (i + 1 < j => u[i] < u[j])
      /\ \A i \in 1..m : i + 1 \in 1..m /\ u[i] = u[i + 1] => u[i] <= b
  BY DEF Ascending
<1> HIDE DEF u, m
<1>2. \A i \in 1..n : i \in 1..m
  BY <1>1
<1> HIDE DEF n
<1>3. \A i, j \in 1..n : i < j => s[i] <= s[j] /\ (i + 1 < j => s[i] < s[j])
  BY <1>1, <1>2, <1>a
<1>4. \A i \in 1..n : i + 1 \in 1..n /\ s[i] = s[i + 1] => s[i] <= b
  BY <1>1, <1>2, <1>a
<1>5. QED BY <1>3, <1>4 DEF Ascending, n

LEMMA AscendingTail ==
  ASSUME NEW s \in Seq(Nat), NEW b, s # << >>, Ascending(s, b)
  PROVE  /\ Ascending(Tail(s), b)
         /\ \A x : MayFollow(x, s) => MayFollow(x, Tail(s))
<1> DEFINE t == Tail(s)
           n == Len(s)
<1>1. n \in Nat /\ n >= 1 /\ Len(t) = n - 1 /\ \A i \in 1..(n - 1) : t[i] = s[i + 1]
  BY TailEntries
<1>a. /\ \A i, j \in 1..n : i < j => s[i] <= s[j] /\ (i + 1 < j => s[i] < s[j])
      /\ \A i \in 1..n : i + 1 \in 1..n /\ s[i] = s[i + 1] => s[i] <= b
  BY DEF Ascending
<1>b. \A x : MayFollow(x, s)
        => \A i \in 1..n : s[i] <= x /\ (i + 1 \in 1..n /\ s[i] = s[i + 1] => s[i] < x)
  BY DEF MayFollow
<1> HIDE DEF t, n
<1>2. \A i \in 1..(n - 1) : i + 1 \in 1..n /\ t[i] = s[i + 1]
  BY <1>1
<1>3. ASSUME NEW i \in 1..(n - 1), NEW j \in 1..(n - 1), i < j
      PROVE  t[i] <= t[j] /\ (i + 1 < j => t[i] < t[j])
  <2>1. i + 1 < j + 1 /\ (i + 1 < j => (i + 1) + 1 < j + 1)
    BY <1>1, <1>3
  <2>2. QED BY <1>a, <1>2, <2>1
<1>4. ASSUME NEW i \in 1..(n - 1), i + 1 \in 1..(n - 1), t[i] = t[i + 1] PROVE t[i] <= b
  BY <1>a, <1>2, <1>4
<1>5. ASSUME NEW x, MayFollow(x, s)
      PROVE  \A i \in 1..(n - 1) : t[i] <= x /\ (i + 1 \in 1..(n - 1) /\ t[i] = t[i + 1] => t[i] < x)
  BY <1>b, <1>2, <1>5
<1>6. Ascending(t, b)
  BY <1>1, <1>3, <1>4 DEF Ascending
<1>7. \A x : MayFollow(x, s) => MayFollow(x, t)
  BY <1>1, <1>5 DEF MayFollow
<1>8. QED BY <1>6, <1>7 DEF t

LEMMA AscendingWeaken ==
  ASSUME NEW s \in Seq(Nat), NEW b \in Int, NEW c \in Int, b <= c, Ascending(s, b)
  PROVE  Ascending(s, c)
<1>1. \A i \in 1..Len(s) : s[i] \in Nat
  BY TailEntries, LenProperties, ElementOfSeq
<1>2. \A i \in 1..Len(s) : s[i] <= b => s[i] <= c
  BY <1>1
<1>3. QED BY <1>2 DEF Ascending

\* What is beyond all of s may follow it, and keeps it strictly ascending.
LEMMA BeyondFollows ==
  ASSUME NEW s \in Seq(Nat), NEW x \in Nat, NEW b \in Int, Within(s, b), b < x
  PROVE  MayFollow(x, s) /\ \A i \in 1..Len(s) : s[i] < x
<1>1. \A i \in 1..Len(s) : s[i] \in Nat /\ s[i] <= b
  BY LenProperties, ElementOfSeq DEF Within
<1>2. \A i \in 1..Len(s) : s[i] < x /\ s[i] <= x
  BY <1>1
<1>3. QED BY <1>2 DEF MayFollow

LEMMA StrictAppend ==
  ASSUME NEW s \in Seq(Nat), NEW x \in Nat, Strict(s), \A i \in 1..Len(s) : s[i] < x
  PROVE  Strict(Append(s, x))
<1> DEFINE t == Append(s, x)
           n == Len(s)
<1>1. /\ n \in Nat /\ Len(t) = n + 1
      /\ \A i \in 1..n : t[i] = s[i]
      /\ t[n + 1] = x
  BY AppendEntries
<1>a. /\ \A i, j \in 1..n : i < j => s[i] < s[j]
      /\ \A i \in 1..n : s[i] < x
  BY DEF Strict
<1> HIDE DEF t, n
<1>2. ASSUME NEW i \in 1..(n + 1), NEW j \in 1..(n + 1), i < j PROVE t[i] < t[j]
  <2>1. i \in 1..n
    BY <1>1, <1>2
  <2>2. CASE j \in 1..n
    BY <1>1, <1>a, <1>2, <2>1, <2>2
  <2>3. CASE j = n + 1
    BY <1>1, <1>a, <2>1, <2>3
  <2>4. QED BY <1>1, <2>2, <2>3
<1>3. QED BY <1>1, <1>2 DEF Strict, t

LEMMA StrictTail ==
  ASSUME NEW s \in Seq(Nat), s # << >>, Strict(s)
  PROVE  /\ Strict(Tail(s))
         /\ \A i \in 1..Len(Tail(s)) : Head(s) < Tail(s)[i] /\ Tail(s)[i] \in Nat
<1> DEFINE t == Tail(s)
           n == Len(s)
<1>1. /\ n \in Nat /\ n >= 1 /\ Len(t) = n - 1
      /\ Head(s) = s[1]
      /\ \A i \in 1..n : s[i] \in Nat
      /\ \A i \in 1..(n - 1) : t[i] = s[i + 1]
  BY TailEntries
<1>a. \A i, j \in 1..n : i < j => s[i] < s[j]
  BY DEF Strict
<1> HIDE DEF t, n
<1>2. \A i \in 1..(n - 1) : i + 1 \in 1..n /\ t[i] = s[i + 1] /\ 1 < i + 1 /\ 1 \in 1..n
  BY <1>1
<1>3. \A i \in 1..(n - 1) : s[1] < t[i] /\ t[i] \in Nat
  BY <1>1, <1>2, <1>a
<1>4. ASSUME NEW i \in 1..(n - 1), NEW j \in 1..(n - 1), i < j PROVE t[i] < t[j]
  <2>1. i + 1 < j + 1
    BY <1>1, <1>4
  <2>2. QED BY <1>2, <1>a, <2>1
<1>5. QED BY <1>1, <1>3, <1>4 DEF Strict, t

LEMMA WithinAppend ==
  ASSUME NEW s \in Seq(Nat), NEW x \in Nat, NEW b \in Int, Within(s, b), x <= b
  PROVE  Within(Append(s, x), b)
<1>1. \A i \in 1..(Len(s) + 1) : Append(s, x)[i] <= b
  BY AppendEntries DEF Within
<1>2. QED BY <1>1, AppendEntries DEF Within

LEMMA WithinTail ==
  ASSUME NEW s \in Seq(Nat), NEW b, s # << >>, Within(s, b)
  PROVE  Within(Tail(s), b) /\ Head(s) <= b
BY TailEntries DEF Within

LEMMA WithinPrefix ==
  ASSUME NEW s \in Seq(Nat), NEW t \in Seq(Nat), NEW b, Within(s \o t, b)
  PROVE  Within(s, b) /\ Within(t, b)
<1> DEFINE u == s \o t
           n == Len(s)
           m == Len(t)
<1>1. /\ n \in Nat /\ m \in Nat /\ Len(u) = n + m
      /\ \A i \in 1..n : u[i] = s[i]
      /\ \A i \in 1..m : u[n + i] = t[i]
  <2>1. /\ n \in Nat /\ m \in Nat /\ Len(u) = n + m
        /\ \A i \in 1..(n + m) : u[i] = IF i <= n THEN s[i] ELSE t[i - n]
    BY ConcatProperties, LenProperties
  <2> HIDE DEF u, n, m
  <2>2. \A i \in 1..n : i \in 1..(n + m) /\ i <= n
    BY <2>1
  <2>3. \A i \in 1..m : n + i \in 1..(n + m) /\ ~(n + i <= n) /\ (n + i) - n = i
    BY <2>1
  <2>4. QED BY <2>1, <2>2, <2>3
<1>a. \A i \in 1..Len(u) : u[i] <= b
  BY DEF Within
<1> HIDE DEF u, n, m
<1>2. \A i \in 1..n : i \in 1..Len(u)
  BY <1>1
<1>3. \A i \in 1..m : n + i \in 1..Len(u)
  BY <1>1
<1>4. QED BY <1>1, <1>2, <1>3, <1>a DEF Within, n, m

LEMMA WithinWeaken ==
  ASSUME NEW s \in Seq(Nat), NEW b \in Int, NEW c \in Int, b <= c, Within(s, b)
  PROVE  Within(s, c)
<1>1. \A i \in 1..Len(s) : s[i] \in Nat /\ s[i] <= b
  BY LenProperties, ElementOfSeq DEF Within
<1>2. \A i \in 1..Len(s) : s[i] <= c
  BY <1>1
<1>3. QED BY <1>2 DEF Within

\* Bounded sequences of ids under Append and Tail.
LEMMA IdSeq ==
  ASSUME NEW n \in Nat, NEW s \in UpTo(n, Ids)
  PROVE  /\ s \in Seq(Nat) /\ s \in Seq(Ids) /\ Len(s) \in Nat /\ Len(s) <= n
         /\ \A x \in Ids : Len(s) < n => Append(s, x) \in UpTo(n, Ids)
         /\ s # << >> => Head(s) \in Ids /\ Tail(s) \in UpTo(n, Ids)
<1>1. s \in Seq(Ids) /\ Len(s) \in Nat /\ Len(s) <= n
  BY UpToSeq, LenProperties
<1>2. s \in Seq(Nat)
  <2>1. Ids \subseteq Nat
    BY DEF Ids
  <2>2. s \in [1..Len(s) -> Ids]
    BY <1>1, LenProperties
  <2>3. s \in [1..Len(s) -> Nat]
    BY <2>1, <2>2
  <2>4. QED BY <1>1, <2>3, SeqDef
<1>3. ASSUME NEW x \in Ids, Len(s) < n PROVE Append(s, x) \in UpTo(n, Ids)
  <2>1. Append(s, x) \in Seq(Ids) /\ Len(Append(s, x)) = Len(s) + 1
    BY <1>1, AppendProperties
  <2>2. Len(Append(s, x)) <= n
    BY <1>1, <1>3, <2>1
  <2>3. QED BY <2>1, <2>2, UpToSeq, Zenon
<1>4. ASSUME s # << >> PROVE Head(s) \in Ids /\ Tail(s) \in UpTo(n, Ids)
  <2>1. Head(s) \in Ids /\ Tail(s) \in Seq(Ids) /\ Len(Tail(s)) = Len(s) - 1
    BY <1>1, <1>4, HeadTailProperties
  <2>2. Len(Tail(s)) <= n
    BY <1>1, <2>1
  <2>3. QED BY <2>1, <2>2, UpToSeq, Zenon
<1>5. QED BY <1>1, <1>2, <1>3, <1>4

LEMMA NoIds ==
  ASSUME NEW n \in Nat
  PROVE  << >> \in UpTo(n, Ids)
<1>1. << >> \in Seq(Ids) /\ Len(<< >>) = 0
  BY EmptySeq
<1>2. Len(<< >>) <= n
  BY <1>1
<1>3. QED BY <1>1, <1>2, UpToSeq, Zenon

-----------------------------------------------------------------------------
(* Typed *)

\* Types, and a row to announce whenever one is being broadcast.
Typed == TypeOK /\ (pub = "broadcast" => log >= 1)

LEMMA TypedInit == Init => Typed
<1> SUFFICES ASSUME Init PROVE Typed
  OBVIOUS
<1>1. << >> \in UpTo(Buffer, Ids) /\ << >> \in UpTo(Wire, Ids)
  BY FeedAssumption, NoIds
<1>2. << >> \in Seq(Ids)
  BY EmptySeq
<1>3. QED BY <1>1, <1>2, FeedAssumption DEF Init, Typed, TypeOK, Places

LEMMA TypedStep == Typed /\ [Next]_vars => Typed'
<1> SUFFICES ASSUME Typed, [Next]_vars PROVE Typed'
  OBVIOUS
<1> USE FeedAssumption
<1>0. /\ Buffer \in Nat /\ Wire \in Nat
      /\ << >> \in UpTo(Buffer, Ids) /\ << >> \in UpTo(Wire, Ids)
  BY NoIds
<1>a. ASSUME NEW h \in Handler, NEW id \in Ids, CanWrite(h), Write(h, id)
      PROVE  wire' \in UpTo(Wire, Ids)
  BY <1>0, <1>a, IdSeq DEF CanWrite, Write, Typed, TypeOK
<1>1. CASE Persist
  BY <1>1 DEF Persist, Typed, TypeOK, server, client, counters
<1>2. CASE Broadcast
  <2>1. log \in Ids
    BY <1>2 DEF Broadcast, Typed, TypeOK, Ids
  <2>2. \A h \in Handler : HasRoom(h) => Append(ch[h], log) \in UpTo(Buffer, Ids)
    BY <1>0, <2>1, IdSeq DEF HasRoom, Typed, TypeOK
  <2>3. ch' \in [Handler -> UpTo(Buffer, Ids)]
    BY <1>2, <2>2 DEF Broadcast, Typed, TypeOK
  <2>4. QED BY <1>2, <2>3 DEF Broadcast, Typed, TypeOK, client, counters
<1>3. ASSUME NEW h \in Handler, Connect(h) PROVE Typed'
  BY <1>3 DEF Connect, Typed, TypeOK, Places, counters
<1>4. ASSUME NEW h \in Handler, ListAfter(h) PROVE Typed'
  BY <1>4 DEF ListAfter, Typed, TypeOK, Places, client, counters
<1>5. ASSUME NEW h \in Handler, Replay(h) PROVE Typed'
  <2>1. after[h] + 1 \in Ids /\ after[h] + 1 \in 0..MaxEvents
    BY <1>5 DEF Replay, Typed, TypeOK, Ids
  <2>2. wire' \in UpTo(Wire, Ids)
    BY <1>5, <1>a, <2>1 DEF Replay
  <2>3. QED BY <1>5, <2>1, <2>2 DEF Replay, Typed, TypeOK, counters
<1>6. ASSUME NEW h \in Handler, Subscribe(h) PROVE Typed'
  BY <1>6 DEF Subscribe, Typed, TypeOK, Places, client, counters
<1>7. ASSUME NEW h \in Handler, SendLive(h) PROVE Typed'
  <2>1. Head(ch[h]) \in Ids /\ Tail(ch[h]) \in UpTo(Buffer, Ids)
    BY <1>0, <1>7, IdSeq DEF SendLive, Typed, TypeOK
  <2>2. wire' \in UpTo(Wire, Ids)
    BY <1>7, <1>a, <2>1 DEF SendLive
  <2>3. QED BY <1>7, <2>1, <2>2 DEF SendLive, Typed, TypeOK, counters
<1>8. ASSUME NEW h \in Handler, ListFails(h) PROVE Typed'
  BY <1>0, <1>8 DEF ListFails, Typed, TypeOK, Places
<1>9. ASSUME NEW h \in Handler, HandlerDone(h) PROVE Typed'
  BY <1>0, <1>9 DEF HandlerDone, Typed, TypeOK, Places, client, counters
<1>10. CASE Receive
  <2>1. Head(wire) \in Ids /\ Tail(wire) \in UpTo(Wire, Ids)
    BY <1>0, <1>10, IdSeq DEF Receive, Typed, TypeOK
  <2>2. Append(received, Head(wire)) \in Seq(Ids)
    BY <2>1, AppendProperties DEF Typed, TypeOK
  <2>3. received' \in Seq(Ids)
    BY <1>10, <2>2 DEF Receive, Typed, TypeOK
  <2>4. Head(wire) \in 0..MaxEvents
    BY <2>1 DEF Ids
  <2>5. last' \in 0..MaxEvents
    BY <1>10, <2>4 DEF Receive, Typed, TypeOK
  <2>6. QED BY <1>10, <2>1, <2>3, <2>5 DEF Receive, Typed, TypeOK, server, counters
<1>11. CASE Disconnect
  BY <1>0, <1>11 DEF Disconnect, Typed, TypeOK, server
<1>12. CASE Crash
  BY <1>0, <1>12 DEF Crash, Typed, TypeOK, Places
<1>13. CASE UNCHANGED vars
  BY <1>13 DEF vars, server, client, counters, Typed, TypeOK
<1>14. QED
  BY <1>1, <1>2, <1>3, <1>4, <1>5, <1>6, <1>7, <1>8, <1>9, <1>10, <1>11, <1>12, <1>13
     DEF Next, Serve

\* Types: an id on its way to a page is a row's, and no buffer holds more than it takes.
THEOREM FeedTypeCorrect == Spec => []TypeOK
<1>1. Typed => TypeOK
  BY DEF Typed
<1>2. QED BY <1>1, TypedInit, TypedStep, PTL DEF Spec

-----------------------------------------------------------------------------
(* Served *)

\* The rows whose broadcast is over.
Announced == IF pub = "broadcast" THEN log - 1 ELSE log

\* What handler h holds.
ServedBy(h) ==
  /\ h \in subs <=> hpc[h] = "live"
  /\ hpc[h] # "live" => ch[h] = << >>
  /\ after[h] <= log /\ listed[h] <= log
  /\ hpc[h] = "replay" => after[h] <= listed[h]
  /\ Within(ch[h], Announced)
  /\ Strict(ch[h])

Served == \A h \in Handler : ServedBy(h)

\* The id a client resumes after is a row's.
LastStored == last <= log

LEMMA NothingHeld == \A b : Within(<< >>, b) /\ Strict(<< >>) /\ Ascending(<< >>, b)
<1>1. 1..Len(<< >>) = {}
  BY EmptySeq
<1>2. QED BY <1>1 DEF Within, Strict, Ascending

\* Types as the steps below use them.
LEMMA Ranges ==
  ASSUME Typed
  PROVE  /\ log \in Nat /\ last \in Nat /\ MaxEvents \in Nat
         /\ Announced \in Nat /\ Announced <= log
         /\ pub = "broadcast" => Announced < log
         /\ received \in Seq(Nat) /\ wire \in Seq(Nat)
         /\ \A h \in Handler : /\ ch[h] \in Seq(Nat) /\ after[h] \in Nat /\ listed[h] \in Nat
                               /\ hpc[h] \in Places
         /\ DOMAIN hpc = Handler /\ DOMAIN after = Handler
         /\ DOMAIN listed = Handler /\ DOMAIN ch = Handler
         /\ cur \in Handler \cup {NoHandler} /\ NoHandler \notin Handler
<1> USE FeedAssumption
<1>1. log \in Nat /\ last \in Nat /\ MaxEvents \in Nat
  BY DEF Typed, TypeOK
<1>2. Announced \in Nat /\ Announced <= log /\ (pub = "broadcast" => Announced < log)
  BY DEF Typed, TypeOK, Announced
<1>3. wire \in Seq(Nat) /\ \A h \in Handler : ch[h] \in Seq(Nat)
  BY IdSeq DEF Typed, TypeOK
<1>4. received \in Seq(Nat)
  <2>1. received \in UpTo(Len(received), Ids)
    BY UpToSeq, LenProperties DEF Typed, TypeOK
  <2>2. QED BY <2>1, IdSeq, LenProperties DEF Typed, TypeOK
<1>5. QED BY <1>1, <1>2, <1>3, <1>4 DEF Typed, TypeOK

LEMMA ServedInit == Init => Served
BY NothingHeld DEF Init, Served, ServedBy

LEMMA ServedStep == Typed /\ LastStored /\ Served /\ [Next]_vars => Served'
<1> SUFFICES ASSUME Typed, LastStored, Served, [Next]_vars, NEW g \in Handler
             PROVE  ServedBy(g)'
  BY DEF Served
<1>r. /\ log \in Nat /\ Announced \in Nat /\ Announced <= log
      /\ pub = "broadcast" => Announced < log
      /\ \A h \in Handler : ch[h] \in Seq(Nat) /\ after[h] \in Nat /\ listed[h] \in Nat
      /\ DOMAIN hpc = Handler /\ DOMAIN after = Handler
      /\ DOMAIN listed = Handler /\ DOMAIN ch = Handler
  BY Ranges
<1>s. ServedBy(g)
  BY DEF Served
<1>f. ASSUME ServedBy(g), UNCHANGED <<log, pub, hpc[g], after[g], listed[g], ch[g]>>, g \in subs' <=> g \in subs
      PROVE  ServedBy(g)'
  <2>1. Announced' = Announced
    BY <1>f DEF Announced
  <2>2. QED BY <1>f, <2>1 DEF ServedBy
<1>1. CASE Persist
  <2>1. Announced' = Announced
    BY <1>1, <1>r DEF Persist, Announced
  <2>2. UNCHANGED <<hpc, after, listed, subs, ch>> /\ log' = log + 1
    BY <1>1 DEF Persist, server
  <2>3. QED BY <1>r, <1>s, <2>1, <2>2 DEF ServedBy
<1>2. CASE Broadcast
  <2>1. Announced' = log
    BY <1>2 DEF Broadcast, Announced
  <2>2. Within(ch[g], log)
    BY <1>r, <1>s, WithinWeaken DEF ServedBy
  <2>3. CASE g \in subs /\ HasRoom(g)
    <3>1. ch'[g] = Append(ch[g], log)
      BY <1>2, <2>3 DEF Broadcast
    <3>2. \A i \in 1..Len(ch[g]) : ch[g][i] < log
      BY <1>2, <1>r, <1>s, BeyondFollows DEF Broadcast, ServedBy
    <3>3. Strict(ch'[g])
      BY <1>r, <1>s, <3>1, <3>2, StrictAppend DEF ServedBy
    <3>4. Within(ch'[g], log)
      BY <1>r, <2>2, <3>1, WithinAppend
    <3>5. QED BY <1>2, <1>s, <2>1, <2>3, <3>3, <3>4 DEF Broadcast, ServedBy
  <2>4. CASE ~(g \in subs /\ HasRoom(g))
    <3>1. ch'[g] = ch[g]
      BY <1>2, <2>4 DEF Broadcast
    <3>2. QED BY <1>2, <1>s, <2>1, <2>2, <3>1 DEF Broadcast, ServedBy
  <2>5. QED BY <2>3, <2>4
<1>3. ASSUME NEW h \in Handler, Connect(h) PROVE ServedBy(g)'
  <2>1. CASE h # g
    BY <1>3, <1>f, <1>r, <1>s, <2>1 DEF Connect
  <2>2. CASE h = g
    <3>1. UNCHANGED <<log, pub, listed, subs, ch>> /\ hpc'[g] = "list" /\ after'[g] = last /\ hpc[g] = "free"
      BY <1>3, <1>r, <2>2 DEF Connect
    <3>2. Announced' = Announced
      BY <3>1 DEF Announced
    <3>3. QED BY <1>s, <3>1, <3>2 DEF ServedBy, LastStored
  <2>3. QED BY <2>1, <2>2
<1>4. ASSUME NEW h \in Handler, ListAfter(h) PROVE ServedBy(g)'
  <2>1. CASE h # g
    BY <1>4, <1>f, <1>r, <1>s, <2>1 DEF ListAfter, client
  <2>2. CASE h = g
    <3>1. /\ UNCHANGED <<log, pub, after, subs, ch>> /\ hpc'[g] = "replay" /\ listed'[g] = log
          /\ hpc[g] = "list"
      BY <1>4, <1>r, <2>2 DEF ListAfter
    <3>2. Announced' = Announced
      BY <3>1 DEF Announced
    <3>3. QED BY <1>r, <1>s, <3>1, <3>2 DEF ServedBy
  <2>3. QED BY <2>1, <2>2
<1>5. ASSUME NEW h \in Handler, Replay(h) PROVE ServedBy(g)'
  <2>1. CASE h # g
    BY <1>5, <1>f, <1>r, <1>s, <2>1 DEF Replay
  <2>2. CASE h = g
    <3>1. /\ UNCHANGED <<log, pub, hpc, listed, subs, ch>> /\ after'[g] = after[g] + 1
          /\ after[g] < listed[g]
      BY <1>5, <1>r, <2>2 DEF Replay
    <3>2. Announced' = Announced
      BY <3>1 DEF Announced
    <3>3. after'[g] <= listed[g] /\ after'[g] <= log
      BY <1>r, <1>s, <3>1 DEF ServedBy
    <3>4. QED BY <1>s, <3>1, <3>2, <3>3 DEF ServedBy
  <2>3. QED BY <2>1, <2>2
<1>6. ASSUME NEW h \in Handler, Subscribe(h) PROVE ServedBy(g)'
  <2>1. CASE h # g
    BY <1>6, <1>f, <1>r, <1>s, <2>1 DEF Subscribe
  <2>2. CASE h = g
    <3>1. /\ UNCHANGED <<log, pub, after, listed, ch>> /\ hpc'[g] = "live" /\ g \in subs'
      BY <1>6, <1>r, <2>2 DEF Subscribe
    <3>2. Announced' = Announced
      BY <3>1 DEF Announced
    <3>3. QED BY <1>s, <3>1, <3>2 DEF ServedBy
  <2>3. QED BY <2>1, <2>2
<1>7. ASSUME NEW h \in Handler, SendLive(h) PROVE ServedBy(g)'
  <2>1. CASE h # g
    BY <1>7, <1>f, <1>r, <1>s, <2>1 DEF SendLive
  <2>2. CASE h = g
    <3>1. /\ UNCHANGED <<log, pub, hpc, after, listed, subs>> /\ ch'[g] = Tail(ch[g])
          /\ hpc[g] = "live" /\ ch[g] # << >>
      BY <1>7, <1>r, <2>2 DEF SendLive
    <3>2. Announced' = Announced
      BY <3>1 DEF Announced
    <3>3. Within(ch'[g], Announced) /\ Strict(ch'[g])
      BY <1>r, <1>s, <3>1, WithinTail, StrictTail DEF ServedBy
    <3>4. QED BY <1>s, <3>1, <3>2, <3>3 DEF ServedBy
  <2>3. QED BY <2>1, <2>2
<1>8. ASSUME NEW h \in Handler, ListFails(h) PROVE ServedBy(g)'
  <2>1. CASE h # g
    BY <1>8, <1>f, <1>r, <1>s, <2>1 DEF ListFails
  <2>2. CASE h = g
    <3>1. /\ UNCHANGED <<log, pub, after, listed, subs, ch>> /\ hpc'[g] = "free" /\ hpc[g] = "list"
      BY <1>8, <1>r, <2>2 DEF ListFails
    <3>2. Announced' = Announced
      BY <3>1 DEF Announced
    <3>3. QED BY <1>s, <3>1, <3>2 DEF ServedBy
  <2>3. QED BY <2>1, <2>2
<1>9. ASSUME NEW h \in Handler, HandlerDone(h) PROVE ServedBy(g)'
  <2>1. CASE h # g
    BY <1>9, <1>f, <1>r, <1>s, <2>1 DEF HandlerDone
  <2>2. CASE h = g
    <3>1. /\ UNCHANGED <<log, pub, after, listed>> /\ hpc'[g] = "free" /\ g \notin subs' /\ ch'[g] = << >>
      BY <1>9, <1>r, <2>2 DEF HandlerDone
    <3>2. QED BY <1>s, <3>1, NothingHeld DEF ServedBy
  <2>3. QED BY <2>1, <2>2
<1>10. CASE Receive
  BY <1>10, <1>f, <1>s DEF Receive, server
<1>11. CASE Disconnect
  BY <1>11, <1>f, <1>s DEF Disconnect, server
<1>12. CASE Crash
  <2>1. /\ UNCHANGED <<log, after, listed>> /\ hpc'[g] = "free" /\ subs' = {} /\ ch'[g] = << >>
    BY <1>12 DEF Crash
  <2>2. QED BY <1>s, <2>1, NothingHeld DEF ServedBy
<1>13. CASE UNCHANGED vars
  BY <1>13, <1>f, <1>s DEF vars, server
<1>14. QED
  BY <1>1, <1>2, <1>3, <1>4, <1>5, <1>6, <1>7, <1>8, <1>9, <1>10, <1>11, <1>12, <1>13
     DEF Next, Serve

-----------------------------------------------------------------------------
(* Fed *)

\* What the page has seen, and then what it is about to.
Feed == received \o wire

\* What may come next through handler h, the one the client is connected to.
Follows(h) ==
  /\ hpc[h] \in {"list", "replay"} => Within(Feed, after[h])
  /\ hpc[h] = "live" => \A k \in 1..Len(ch[h]) : MayFollow(ch[h][k], Feed)

Fed ==
  /\ ~HandlesNamed => received = << >>
  /\ cur = NoHandler => wire = << >>
  /\ ResumesAfterLastSeen
  /\ Ascending(Feed, Announced)
  /\ Within(Feed, log)
  /\ \A h \in Handler : cur = h => hpc[h] # "free" /\ Follows(h)

LEMMA FeedIsSeq == Typed => Feed \in Seq(Nat)
BY Ranges, ConcatProperties DEF Feed

LEMMA EmptyWire ==
  ASSUME NEW s \in Seq(Nat)
  PROVE  s \o << >> = s /\ << >> \o s = s
BY ConcatEmptySeq

\* The last of an ascending sequence bounds it.
LEMMA TipBounds ==
  ASSUME NEW s \in Seq(Nat), NEW b, s # << >>, Ascending(s, b)
  PROVE  Within(s, s[Len(s)])
<1> DEFINE n == Len(s)
<1>1. n \in Nat /\ n >= 1 /\ \A i \in 1..n : s[i] \in Nat
  BY TailEntries
<1>a. \A i, j \in 1..n : i < j => s[i] <= s[j]
  BY DEF Ascending
<1> HIDE DEF n
<1>2. \A i \in 1..n : s[i] <= s[n]
  BY <1>1, <1>a
<1>3. QED BY <1>2 DEF Within, n

LEMMA LastIsStored == Typed /\ Fed => LastStored
<1> SUFFICES ASSUME Typed, Fed PROVE LastStored
  OBVIOUS
<1>1. log \in Nat /\ received \in Seq(Nat) /\ wire \in Seq(Nat)
  BY Ranges
<1>2. Within(received, log)
  BY <1>1, WithinPrefix DEF Fed, Feed
<1>3. CASE received = << >>
  BY <1>1, <1>3 DEF Fed, ResumesAfterLastSeen, LastStored
<1>4. CASE received # << >>
  <2>1. Len(received) \in 1..Len(received)
    BY <1>1, <1>4, TailEntries
  <2>2. last = received[Len(received)]
    BY <1>4 DEF Fed, ResumesAfterLastSeen
  <2>3. QED BY <1>2, <2>1, <2>2 DEF Within, LastStored
<1>5. QED BY <1>3, <1>4

LEMMA FedInit == Init => Fed
<1> SUFFICES ASSUME Init PROVE Fed
  OBVIOUS
<1>1. Feed = << >>
  BY EmptyWire, EmptySeq DEF Init, Feed
<1>2. QED BY <1>1, FeedAssumption, NothingHeld DEF Init, Fed, ResumesAfterLastSeen

\* A frame is written to the client: the feed grows by it.
LEMMA WireGrows ==
  ASSUME Typed, NEW id, wire' = Append(wire, id), received' = received, id \in Nat
  PROVE  Feed' = Append(Feed, id)
<1>1. received \in Seq(Nat) /\ wire \in Seq(Nat)
  BY Ranges
<1>2. received \o Append(wire, id) = Append(received \o wire, id)
  <2>1. Append(wire, id) = wire \o << id >> /\ Append(received \o wire, id) = (received \o wire) \o << id >>
    BY <1>1, AppendIsConcat, ConcatProperties
  <2>2. << id >> \in Seq(Nat)
    OBVIOUS
  <2>3. received \o (wire \o << id >>) = (received \o wire) \o << id >>
    BY <1>1, <2>2, ConcatAssociative
  <2>4. QED BY <2>1, <2>3
<1>3. QED BY <1>2 DEF Feed

\* The connection goes: what was on the wire never reaches the page.
LEMMA WireLost ==
  ASSUME Typed, Fed, wire' = << >>, cur' = NoHandler,
         UNCHANGED <<log, last, received>>, Announced' \in Nat, Announced <= Announced'
  PROVE  Fed'
<1>1. received \in Seq(Nat) /\ wire \in Seq(Nat) /\ Announced \in Nat /\ NoHandler \notin Handler
  BY Ranges
<1>2. Feed' = received
  BY <1>1, EmptyWire DEF Feed
<1>3. Ascending(received, Announced) /\ Within(received, log)
  BY <1>1, AscendingPrefix, WithinPrefix DEF Fed, Feed
<1>4. Ascending(received, Announced')
  BY <1>1, <1>3, AscendingWeaken
<1>5. Ascending(Feed, Announced)' /\ Within(Feed, log)'
  BY <1>2, <1>3, <1>4
<1>6. ResumesAfterLastSeen'
  BY DEF Fed, ResumesAfterLastSeen
<1>7. QED BY <1>1, <1>5, <1>6 DEF Fed

\* A step of a handler that the client is not connected to, or one that moves nothing
\* of what the client has and can get.
LEMMA FedFrame ==
  ASSUME Fed, UNCHANGED <<log, pub, client>>,
         \A h \in Handler : cur = h => UNCHANGED <<hpc[h], after[h], ch[h]>>
  PROVE  Fed'
<1>1. Feed' = Feed /\ Announced' = Announced
  BY DEF client, Feed, Announced
<1>2. \A h \in Handler : cur = h => (hpc[h] # "free" /\ Follows(h))'
  BY <1>1 DEF Fed, Follows, client
<1>3. QED BY <1>1, <1>2 DEF Fed, ResumesAfterLastSeen, client

\* A step of the handler that serves the client, with nothing written.
LEMMA FedServes ==
  ASSUME Fed, UNCHANGED <<log, pub, client>>,
         NEW g \in Handler, cur = g, (hpc[g] # "free" /\ Follows(g))'
  PROVE  Fed'
<1>1. Feed' = Feed /\ Announced' = Announced
  BY DEF client, Feed, Announced
<1>2. QED BY <1>1 DEF Fed, ResumesAfterLastSeen, client

\* A step of the handler that serves the client, with id written.
LEMMA FedWrites ==
  ASSUME Typed, Fed, NEW g \in Handler, cur = g, NEW id \in Nat,
         UNCHANGED <<log, pub, cur, last, received>>, wire' = Append(wire, id),
         id <= log, MayFollow(id, Feed), id <= Announced \/ \A i \in 1..Len(Feed) : Feed[i] < id,
         (hpc[g] # "free" /\ Follows(g))'
  PROVE  Fed'
<1>1. Feed' = Append(Feed, id) /\ Feed \in Seq(Nat) /\ Announced' = Announced
  BY WireGrows, FeedIsSeq DEF Announced
<1>2. log \in Nat /\ Announced \in Nat /\ NoHandler \notin Handler
  BY Ranges
<1>3. Ascending(Append(Feed, id), Announced)
  BY <1>1, <1>2, AscendingAppend DEF Fed
<1>4. Within(Append(Feed, id), log)
  BY <1>1, <1>2, WithinAppend DEF Fed
<1>5. Ascending(Feed, Announced)' /\ Within(Feed, log)'
  BY <1>1, <1>3, <1>4
<1>6. ResumesAfterLastSeen'
  BY DEF Fed, ResumesAfterLastSeen
<1>7. QED BY <1>2, <1>5, <1>6 DEF Fed

LEMMA FedPersist == Typed /\ Fed /\ Persist => Fed'
<1> SUFFICES ASSUME Typed, Fed, Persist PROVE Fed'
  OBVIOUS
<1>1. UNCHANGED <<hpc, after, ch, cur, wire, last, received>> /\ log' = log + 1
  BY DEF Persist, server, client
<1>2. log \in Nat /\ Announced' = Announced /\ Feed' = Feed
  BY <1>1, Ranges DEF Persist, Announced, Feed
<1>3. Within(Feed, log + 1)
  BY <1>2, FeedIsSeq, WithinWeaken DEF Fed
<1>4. \A h \in Handler : Follows(h)' <=> Follows(h)
  BY <1>1, <1>2 DEF Follows
<1>5. QED BY <1>1, <1>2, <1>3, <1>4 DEF Fed, ResumesAfterLastSeen

LEMMA FedBroadcast == Typed /\ Fed /\ Broadcast => Fed'
<1> SUFFICES ASSUME Typed, Fed, Broadcast PROVE Fed'
  OBVIOUS
<1>1. UNCHANGED <<log, hpc, after, cur, wire, last, received>> /\ pub = "broadcast" /\ Announced' = log
  BY DEF Broadcast, client, Announced
<1>2. /\ log \in Nat /\ Announced \in Nat /\ Announced < log /\ Feed \in Seq(Nat)
      /\ \A h \in Handler : ch[h] \in Seq(Nat)
  BY <1>1, Ranges, FeedIsSeq
<1>3. Feed' = Feed /\ Ascending(Feed, log)
  <2>1. Ascending(Feed, log)
    BY <1>2, AscendingWeaken DEF Fed
  <2>2. QED BY <1>1, <2>1 DEF Feed
<1>4. MayFollow(log, Feed)
  <2>1. \A i \in 1..Len(Feed) : Feed[i] \in Nat /\ Feed[i] <= log
    BY <1>2, LenProperties, ElementOfSeq DEF Fed, Within
  <2>2. \A i \in 1..Len(Feed) : i + 1 \in 1..Len(Feed) /\ Feed[i] = Feed[i + 1] => Feed[i] <= Announced
    BY DEF Fed, Ascending
  <2>3. \A i \in 1..Len(Feed) : Feed[i] <= Announced => Feed[i] < log
    BY <1>2, <2>1
  <2>4. QED BY <2>1, <2>2, <2>3 DEF MayFollow
<1>5. ASSUME NEW h \in Handler, cur = h PROVE Follows(h)'
  <2>1. ASSUME hpc[h] = "live", NEW k \in 1..Len(ch'[h]) PROVE MayFollow(ch'[h][k], Feed)
    <3>1. Follows(h) /\ \A j \in 1..Len(ch[h]) : MayFollow(ch[h][j], Feed)
      BY <1>5, <2>1 DEF Fed, Follows
    <3>2. CASE ch'[h] = ch[h]
      BY <2>1, <3>1, <3>2
    <3>3. CASE ch'[h] = Append(ch[h], log)
      <4>1. k \in 1..Len(ch[h]) \/ k = Len(ch[h]) + 1
        BY <1>2, <2>1, <3>3, AppendEntries
      <4>2. ch'[h][k] = IF k \in 1..Len(ch[h]) THEN ch[h][k] ELSE log
        BY <1>2, <3>3, <4>1, AppendEntries
      <4>3. QED BY <1>4, <3>1, <4>2
    <3>4. QED BY <3>2, <3>3 DEF Broadcast
  <2>2. hpc[h] \in {"list", "replay"} => Within(Feed, after[h])
    BY <1>5 DEF Fed, Follows
  <2>3. QED BY <1>1, <1>3, <2>1, <2>2 DEF Follows
<1>6. QED BY <1>1, <1>3, <1>5 DEF Fed, ResumesAfterLastSeen

LEMMA FedConnect ==
  ASSUME Typed, Served, Fed, NEW h \in Handler, Connect(h)
  PROVE  Fed'
<1>1. /\ UNCHANGED <<log, pub, wire, last, received>> /\ cur = NoHandler /\ cur' = h
      /\ hpc'[h] = "list" /\ after'[h] = last
  BY Ranges DEF Connect
<1>2. received \in Seq(Nat) /\ last \in Nat /\ NoHandler \notin Handler
  BY Ranges
<1>3. Feed = received /\ Feed' = received /\ Announced' = Announced
  BY <1>1, <1>2, EmptyWire DEF Fed, Feed, Announced
<1>4. Within(received, last)
  <2>1. CASE received = << >>
    BY <2>1, NothingHeld
  <2>2. CASE received # << >>
    BY <1>2, <1>3, <2>2, TipBounds DEF Fed, ResumesAfterLastSeen
  <2>3. QED BY <2>1, <2>2
<1>5. (hpc[h] # "free" /\ Follows(h))'
  BY <1>1, <1>3, <1>4 DEF Follows
<1>6. QED BY <1>1, <1>2, <1>3, <1>5 DEF Fed, ResumesAfterLastSeen

LEMMA FedReplay ==
  ASSUME Typed, Served, Fed, NEW h \in Handler, Replay(h)
  PROVE  Fed'
<1>1. CASE cur # h
  <2>1. UNCHANGED client
    BY <1>1 DEF Replay, Write, client
  <2>2. \A g \in Handler : cur = g => UNCHANGED <<hpc[g], after[g], ch[g]>>
    BY <1>1, Ranges DEF Replay
  <2>3. QED BY <2>1, <2>2, FedFrame DEF Replay
<1>2. CASE cur = h
  <2> DEFINE id == after[h] + 1
  <2>1. /\ log \in Nat /\ after[h] \in Nat /\ listed[h] \in Nat /\ Feed \in Seq(Nat)
        /\ DOMAIN after = Handler
    BY Ranges, FeedIsSeq
  <2>2. /\ hpc[h] = "replay" /\ after[h] < listed[h] /\ wire' = Append(wire, id)
        /\ after'[h] = id /\ hpc' = hpc /\ received' = received
    BY <1>2, <2>1 DEF Replay, Write
  <2>3. id \in Nat /\ id <= log /\ after[h] < id /\ after[h] <= id
    <3>1. listed[h] <= log
      BY DEF Served, ServedBy
    <3>2. QED BY <2>1, <2>2, <3>1
  <2> HIDE DEF id
  <2>4. Within(Feed, after[h])
    BY <1>2, <2>2 DEF Fed, Follows
  <2>5. MayFollow(id, Feed) /\ \A i \in 1..Len(Feed) : Feed[i] < id
    BY <2>1, <2>3, <2>4, BeyondFollows
  <2>6. Within(Append(Feed, id), id)
    BY <2>1, <2>3, <2>4, WithinWeaken, WithinAppend
  <2>7. (hpc[h] # "free" /\ Follows(h))'
    BY <2>2, <2>3, <2>6, WireGrows DEF Follows
  <2>8. QED BY <1>2, <2>2, <2>3, <2>5, <2>7, FedWrites DEF Replay
<1>3. QED BY <1>1, <1>2

LEMMA FedSendLive ==
  ASSUME Typed, Served, Fed, NEW h \in Handler, SendLive(h)
  PROVE  Fed'
<1>1. CASE cur # h
  <2>1. UNCHANGED client
    BY <1>1 DEF SendLive, Write, client
  <2>2. \A g \in Handler : cur = g => UNCHANGED <<hpc[g], after[g], ch[g]>>
    BY <1>1, Ranges DEF SendLive
  <2>3. QED BY <2>1, <2>2, FedFrame DEF SendLive
<1>2. CASE cur = h
  <2> DEFINE id == Head(ch[h])
  <2>1. /\ ch[h] \in Seq(Nat) /\ Feed \in Seq(Nat) /\ DOMAIN ch = Handler
        /\ log \in Nat /\ Announced \in Nat /\ Announced <= log
    BY Ranges, FeedIsSeq
  <2>2. /\ hpc[h] = "live" /\ ch[h] # << >> /\ wire' = Append(wire, id)
        /\ ch'[h] = Tail(ch[h]) /\ hpc' = hpc /\ received' = received
    BY <1>2, <2>1 DEF SendLive, Write
  <2>3. Within(ch[h], Announced) /\ Strict(ch[h])
    BY DEF Served, ServedBy
  <2>4. id \in Nat /\ id = ch[h][1] /\ 1 \in 1..Len(ch[h])
    BY <2>1, <2>2, TailEntries
  <2>5. id <= Announced
    BY <2>1, <2>2, <2>3, WithinTail
  <2>6. \A k \in 1..Len(ch'[h]) : id < ch'[h][k] /\ ch'[h][k] \in Nat
    BY <2>1, <2>2, <2>3, StrictTail
  <2>7. MayFollow(id, Feed)
    BY <1>2, <2>2, <2>4 DEF Fed, Follows
  <2> HIDE DEF id
  <2>8. id <= log
    BY <2>1, <2>4, <2>5
  <2>9. \A k \in 1..Len(ch'[h]) : MayFollow(ch'[h][k], Append(Feed, id))
    BY <2>1, <2>4, <2>6, <2>7, FollowAppend
  <2>10. (hpc[h] # "free" /\ Follows(h))'
    BY <2>2, <2>4, <2>9, WireGrows DEF Follows
  <2>11. QED BY <1>2, <2>2, <2>4, <2>5, <2>7, <2>8, <2>10, FedWrites DEF SendLive
<1>3. QED BY <1>1, <1>2

LEMMA FedReceive == Typed /\ Fed /\ Receive => Fed'
<1> SUFFICES ASSUME Typed, Fed, Receive PROVE Fed'
  OBVIOUS
<1>1. /\ UNCHANGED <<log, pub, hpc, after, ch, cur>> /\ wire' = Tail(wire) /\ wire # << >>
      /\ Announced' = Announced
  BY DEF Receive, server, Announced
<1>2. /\ received \in Seq(Nat) /\ wire \in Seq(Nat) /\ Feed \in Seq(Nat) /\ last \in Nat
      /\ NoHandler \notin Handler
  BY Ranges, FeedIsSeq
<1>3. Head(wire) \in Nat
  BY <1>1, <1>2, TailEntries
<1>n. cur # NoHandler
  BY <1>1 DEF Fed
<1>4. CASE HandlesNamed
  <2>1. received' = Append(received, Head(wire))
    BY <1>4 DEF Receive
  <2>2. Feed' = Feed
    <3>1. wire = << Head(wire) >> \o Tail(wire) /\ Tail(wire) \in Seq(Nat)
      BY <1>1, <1>2, HeadTailProperties, ConcatSimplifications
    <3>2. << Head(wire) >> \in Seq(Nat)
      BY <1>3
    <3>3. received' = received \o << Head(wire) >>
      BY <1>2, <1>3, <2>1, AppendIsConcat
    <3>4. (received \o << Head(wire) >>) \o Tail(wire) = received \o (<< Head(wire) >> \o Tail(wire))
      BY <1>2, <3>1, <3>2, ConcatAssociative
    <3>5. QED BY <1>1, <3>1, <3>3, <3>4 DEF Feed
  <2>3. last' = Head(wire)
    <3>1. last <= Head(wire)
      <4>1. CASE received = << >>
        BY <1>3, <4>1 DEF Fed, ResumesAfterLastSeen
      <4>2. CASE received # << >>
        <5> DEFINE n == Len(received)
        <5>1. /\ n \in Nat /\ n >= 1 /\ Len(wire) \in Nat /\ Len(wire) >= 1 /\ wire[1] = Head(wire)
              /\ Len(Feed) = n + Len(wire)
          BY <1>1, <1>2, <4>2, TailEntries, ConcatProperties DEF Feed
        <5>2. n \in 1..Len(Feed) /\ n + 1 \in 1..Len(Feed) /\ n < n + 1
          BY <5>1
        <5>3. Feed[n] = received[n] /\ Feed[n + 1] = wire[1]
          <6>1. \A i \in 1..Len(Feed) :
                  Feed[i] = IF i <= Len(received) THEN received[i] ELSE wire[i - Len(received)]
            BY <1>2, ConcatProperties DEF Feed
          <6>2. n <= n /\ ~(n + 1 <= n) /\ (n + 1) - n = 1
            BY <5>1
          <6>3. QED BY <5>2, <6>1, <6>2
        <5>4. Feed[n] <= Feed[n + 1]
          BY <5>2 DEF Fed, Ascending
        <5>5. QED BY <4>2, <5>1, <5>3, <5>4 DEF Fed, ResumesAfterLastSeen
      <4>3. QED BY <4>1, <4>2
    <3>2. last' = IF Head(wire) > last THEN Head(wire) ELSE last
      BY <1>4 DEF Receive
    <3>3. QED BY <1>2, <1>3, <3>1, <3>2
  <2>4. ResumesAfterLastSeen'
    <3>1. received' # << >> /\ received'[Len(received')] = Head(wire)
      <4>1. /\ Len(received) \in Nat /\ Len(received') = Len(received) + 1
            /\ received'[Len(received) + 1] = Head(wire)
        BY <1>2, <1>3, <2>1, AppendEntries
      <4>2. Len(received') # 0
        BY <4>1
      <4>3. QED BY <4>1, <4>2, EmptySeq
    <3>2. QED BY <2>3, <3>1 DEF ResumesAfterLastSeen
  <2>5. \A h \in Handler : Follows(h)' <=> Follows(h)
    BY <1>1, <2>2 DEF Follows
  <2>6. QED BY <1>1, <1>4, <1>n, <2>2, <2>4, <2>5 DEF Fed
<1>5. CASE ~HandlesNamed
  <2>1. received = << >> /\ UNCHANGED <<last, received>>
    BY <1>5 DEF Fed, Receive
  <2>2. Feed = wire /\ Feed' = Tail(Feed)
    <3>1. Tail(wire) \in Seq(Nat)
      BY <1>1, <1>2, HeadTailProperties
    <3>2. QED BY <1>1, <1>2, <2>1, <3>1, EmptyWire DEF Feed
  <2>3. /\ Ascending(Tail(Feed), Announced)
        /\ \A x : MayFollow(x, Feed) => MayFollow(x, Tail(Feed))
        /\ \A b : Within(Feed, b) => Within(Tail(Feed), b)
    BY <1>1, <1>2, <2>2, AscendingTail, WithinTail DEF Fed
  <2>4. \A h \in Handler : Follows(h) => Follows(h)'
    BY <1>1, <2>2, <2>3 DEF Follows
  <2>5. Ascending(Feed, Announced)' /\ Within(Feed, log)'
    BY <1>1, <2>2, <2>3 DEF Fed
  <2>6. QED BY <1>1, <1>n, <2>1, <2>4, <2>5 DEF Fed, ResumesAfterLastSeen
<1>6. QED BY <1>4, <1>5

LEMMA FedStep == Typed /\ Served /\ Fed /\ [Next]_vars => Fed'
<1> SUFFICES ASSUME Typed, Served, Fed, [Next]_vars PROVE Fed'
  OBVIOUS
<1>r. /\ log \in Nat /\ Announced \in Nat /\ Announced <= log /\ DOMAIN hpc = Handler
      /\ cur \in Handler \cup {NoHandler} /\ NoHandler \notin Handler
  BY Ranges
<1>1. CASE Persist
  BY <1>1, FedPersist
<1>2. CASE Broadcast
  BY <1>2, FedBroadcast
<1>3. ASSUME NEW h \in Handler, Connect(h) PROVE Fed'
  BY <1>3, FedConnect
<1>4. ASSUME NEW h \in Handler, ListAfter(h) PROVE Fed'
  <2>1. CASE cur # h
    BY <1>4, <2>1, FedFrame DEF ListAfter
  <2>2. CASE cur = h
    <3>1. hpc'[h] = "replay" /\ after' = after /\ Feed' = Feed /\ hpc[h] = "list"
      BY <1>4, <1>r DEF ListAfter, client, Feed
    <3>2. (hpc[h] # "free" /\ Follows(h))'
      BY <2>2, <3>1 DEF Fed, Follows
    <3>3. QED BY <1>4, <2>2, <3>2, FedServes DEF ListAfter
  <2>3. QED BY <2>1, <2>2
<1>5. ASSUME NEW h \in Handler, Replay(h) PROVE Fed'
  BY <1>5, FedReplay
<1>6. ASSUME NEW h \in Handler, Subscribe(h) PROVE Fed'
  <2>1. CASE cur # h
    BY <1>6, <2>1, FedFrame DEF Subscribe
  <2>2. CASE cur = h
    <3>1. hpc'[h] = "live" /\ ch' = ch /\ ch[h] = << >>
      BY <1>6, <1>r DEF Subscribe, Served, ServedBy
    <3>2. 1..Len(ch'[h]) = {}
      BY <3>1, EmptySeq
    <3>3. (hpc[h] # "free" /\ Follows(h))'
      BY <3>1, <3>2 DEF Follows
    <3>4. QED BY <1>6, <2>2, <3>3, FedServes DEF Subscribe
  <2>3. QED BY <2>1, <2>2
<1>7. ASSUME NEW h \in Handler, SendLive(h) PROVE Fed'
  BY <1>7, FedSendLive
<1>8. ASSUME NEW h \in Handler, ListFails(h) PROVE Fed'
  <2>1. CASE cur # h
    <3>1. UNCHANGED client
      BY <1>8, <2>1 DEF ListFails, client
    <3>2. QED BY <1>8, <2>1, <3>1, FedFrame DEF ListFails
  <2>2. CASE cur = h
    <3>1. Announced' = Announced
      BY <1>8 DEF ListFails, Announced
    <3>2. QED BY <1>8, <1>r, <2>2, <3>1, WireLost DEF ListFails
  <2>3. QED BY <2>1, <2>2
<1>9. ASSUME NEW h \in Handler, HandlerDone(h) PROVE Fed'
  BY <1>9, FedFrame DEF HandlerDone
<1>10. CASE Receive
  BY <1>10, FedReceive
<1>11. CASE Disconnect
  <2>1. Announced' = Announced
    BY <1>11 DEF Disconnect, Announced
  <2>2. QED BY <1>11, <1>r, <2>1, WireLost DEF Disconnect
<1>12. CASE Crash
  <2>1. Announced' = log
    BY <1>12 DEF Crash, Announced
  <2>2. QED BY <1>12, <1>r, <2>1, WireLost DEF Crash
<1>13. CASE UNCHANGED vars
  BY <1>13, FedFrame DEF vars, server
<1>14. QED
  BY <1>1, <1>2, <1>3, <1>4, <1>5, <1>6, <1>7, <1>8, <1>9, <1>10, <1>11, <1>12, <1>13
     DEF Next, Serve

LEMMA FeedInvariant == Spec => [](Typed /\ Served /\ Fed)
<1>1. Init => Typed /\ Served /\ Fed
  BY TypedInit, ServedInit, FedInit
<1>2. Typed /\ Served /\ Fed /\ [Next]_vars => (Typed /\ Served /\ Fed)'
  BY TypedStep, ServedStep, FedStep, LastIsStored
<1>3. QED BY <1>1, <1>2, PTL DEF Spec

\* The page sees the events in the order the workflow produced them, whatever was lost,
\* replayed or sent twice on the way; an event comes twice at most, and twice in a row.
THEOREM PageSeesTheWorkflowInOrder == Spec => []ReceivedInOrder
<1>1. Typed /\ Fed => ReceivedInOrder
  <2> SUFFICES ASSUME Typed, Fed PROVE ReceivedInOrder
    OBVIOUS
  <2>1. received \in Seq(Nat) /\ wire \in Seq(Nat)
    BY Ranges
  <2>2. Ascending(received, Announced)
    BY <2>1, AscendingPrefix DEF Fed, Feed
  <2>3. DOMAIN received = 1..Len(received)
    BY <2>1, LenProperties
  <2>4. QED BY <2>2, <2>3 DEF Ascending, ReceivedInOrder
<1>2. QED BY <1>1, FeedInvariant, PTL

\* A reconnection asks for what follows the last event the page has seen: neither for one
\* it has, nor past one that was on the wire when the connection broke.
THEOREM ResumptionIsExact == Spec => []ResumesAfterLastSeen
<1>1. Fed => ResumesAfterLastSeen
  BY DEF Fed
<1>2. QED BY <1>1, FeedInvariant, PTL

\* No page, connection or channel holds an event whose row is not committed.
THEOREM OnlyStoredEventsAreShown == Spec => []OnlyPersistedIsSent
<1>1. Typed /\ Served /\ Fed => OnlyPersistedIsSent
  <2> SUFFICES ASSUME Typed, Served, Fed PROVE OnlyPersistedIsSent
    OBVIOUS
  <2>1. /\ received \in Seq(Nat) /\ wire \in Seq(Nat) /\ \A h \in Handler : ch[h] \in Seq(Nat)
        /\ log \in Nat /\ Announced \in Nat /\ Announced <= log
    BY Ranges
  <2>2. Within(received, log) /\ Within(wire, log)
    BY <2>1, WithinPrefix DEF Fed, Feed
  <2>3. \A h \in Handler : Within(ch[h], log)
    BY <2>1, WithinWeaken DEF Served, ServedBy
  <2>4. \A s \in Seq(Nat) : Within(s, log) => \A i \in DOMAIN s : s[i] <= log
    BY LenProperties DEF Within
  <2>5. QED BY <2>1, <2>2, <2>3, <2>4 DEF OnlyPersistedIsSent
<1>2. QED BY <1>1, FeedInvariant, PTL
=============================================================================
