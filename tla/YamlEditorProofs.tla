-------------------------- MODULE YamlEditorProofs --------------------------
(***************************************************************************)
(* Theorems of YamlEditor, for any objects, hosts, saves under way and     *)
(* texts.                                                                  *)
(***************************************************************************)
EXTENDS YamlEditor, QueryCacheProofs

\* A cache entry of an object whose manifests are ms: its answer and the oldest answer
\* it may get are manifests the object has had.
EntryOK(q, ms) ==
  /\ q \in QueryType
  /\ q.data \in {-1} \cup (1..Len(ms)) /\ q.since \in {-1} \cup (1..Len(ms))

Queries(qs, cl) ==
  /\ cl \in [Object -> Seq(Text)] /\ DOMAIN qs = Object /\ qs = [o \in Object |-> qs[o]]
  /\ \A o \in Object : Len(cl[o]) >= 1 /\ EntryOK(qs[o], cl[o])

\* A clean draft is the text of the answer.
Synced ==
  (open /\ HasData(query[target]) /\ draft = baseline) =>
    draft = cluster[target][query[target].data]

Editor ==
  /\ open \in BOOLEAN /\ target \in Object /\ draft \in Text /\ baseline \in Text
  /\ Queries(query, cluster) /\ Synced

Saves ==
  /\ saves \in [Save -> SaveType \cup {FreeSave}]
  /\ \A s \in Save : saves[s].phase # "free" => saves[s].text.of = saves[s].target

Sound == host \in Hosts /\ texts \in 0..MaxTexts /\ Editor /\ Saves

LEMMA EmptyTyped == Empty \in Text /\ (\A o \in Object : [of |-> o, rev |-> 0] \in Text)
BY EditorAssumption DEF Empty, Text

\* The two effects leave a draft that is edited or the answer's text.
LEMMA ShownSound ==
  ASSUME NEW isOpen \in BOOLEAN, NEW o \in Object, NEW q, NEW d \in Text, NEW b \in Text,
         Queries(q, cluster), Shown(isOpen, o, q, d, b), UNCHANGED cluster
  PROVE  Editor'
<1>1. /\ open' = isOpen /\ target' = o /\ query' = q /\ cluster' = cluster
      /\ EntryOK(q[o], cluster[o]) /\ cluster[o] \in Seq(Text)
  BY DEF Shown, Queries
<1> DEFINE content == cluster[o][q[o].data]
           both == CASE ~isOpen        -> <<Empty, Empty>>
                     [] ~HasData(q[o]) -> <<d, b>>
                     [] OTHER          -> Reconciled(d, b, content)
<1>2. draft' = both[1] /\ baseline' = both[2]
  BY Zenon DEF Shown
<1>3. ASSUME HasData(q[o]) PROVE content \in Text
  <2>1. q[o].data \in 1..Len(cluster[o])
    BY <1>1, <1>3 DEF EntryOK, HasData, NoData
  <2>2. QED BY <1>1, <2>1
<1>4. /\ draft' \in Text /\ baseline' \in Text
      /\ (isOpen /\ HasData(q[o]) /\ draft' = baseline') => draft' = content
  <2>1. CASE ~isOpen
    BY <1>2, <2>1, EmptyTyped
  <2>2. CASE isOpen /\ ~HasData(q[o])
    BY <1>2, <2>2
  <2>3. CASE isOpen /\ HasData(q[o])
    <3>1. both = Reconciled(d, b, content)
      BY <2>3
    <3> HIDE DEF content, both
    <3>2. QED BY <1>2, <1>3, <2>3, <3>1 DEF Reconciled
  <2>4. QED BY <2>1, <2>2, <2>3
<1>5. QED BY <1>1, <1>4 DEF Editor, Synced

\* Asking for the manifest of one object.
LEMMA AskedQueries ==
  ASSUME Queries(query, cluster), NEW o \in Object, NEW e,
         e \in {Observed(query[o], Version(o)), Refetched(query[o], Version(o)), Failed(query[o])}
  PROVE  Queries([query EXCEPT ![o] = e], cluster)
<1>1. /\ EntryOK(query[o], cluster[o]) /\ Version(o) \in 1..Len(cluster[o]) /\ Version(o) \in Int
  BY DEF Queries, Version
<1>2. query[o] \in QueryType
  BY <1>1 DEF EntryOK
<1>3. e \in QueryType /\ e.data = query[o].data /\ e.since \in {query[o].since, Version(o), -1}
  <2>1. Version(o) \in Int
    BY <1>1
  <2>2. CASE e = Failed(query[o])
    BY <1>2, <2>2, FailedTyped
  <2>3. CASE e # Failed(query[o])
    <3>1. e \in {Observed(query[o], Version(o)), Refetched(query[o], Version(o))}
      BY <2>3
    <3>2. \A q \in QueryType : \A n \in Int :
            /\ Refetched(q, n) \in QueryType /\ Observed(q, n) \in QueryType
            /\ Refetched(q, n).data = q.data /\ Observed(q, n).data = q.data
            /\ Refetched(q, n).since \in {q.since, n} /\ Observed(q, n).since \in {q.since, n}
      BY AskedTyped
    <3> DEFINE q == query[o]
               n == Version(o)
    <3>3. /\ Refetched(q, n) \in QueryType /\ Observed(q, n) \in QueryType
          /\ Refetched(q, n).data = q.data /\ Observed(q, n).data = q.data
          /\ Refetched(q, n).since \in {q.since, n} /\ Observed(q, n).since \in {q.since, n}
      BY <1>2, <2>1, <3>2
    <3>4. QED BY <3>1, <3>3
  <2>4. QED BY <2>2, <2>3
<1>4. EntryOK(e, cluster[o])
  BY <1>1, <1>3 DEF EntryOK
<1>5. QED BY <1>4 DEF Queries

\* The answer is a manifest the object has had.
LEMMA AnsweredQueries ==
  ASSUME Queries(query, cluster), NEW o \in Object, Fetching(query[o]),
         NEW n \in query[o].since..Version(o)
  PROVE  Queries([query EXCEPT ![o] = Answered(query[o], n)], cluster)
<1>1. n \in 1..Len(cluster[o]) /\ n \in Int /\ query[o] \in QueryType
  BY DEF Queries, EntryOK, Version, Fetching, Idle
<1>2. EntryOK(Answered(query[o], n), cluster[o])
  BY <1>1, AnsweredTyped DEF EntryOK
<1>3. QED BY <1>2 DEF Queries

\* A manifest more changes none of the answers there are.
LEMMA WrittenEditor ==
  ASSUME Editor, NEW o \in Object, NEW t \in Text,
         cluster' = [cluster EXCEPT ![o] = Append(cluster[o], t)],
         UNCHANGED <<open, target, draft, baseline, query>>
  PROVE  Editor'
<1>1. cluster \in [Object -> Seq(Text)]
  BY DEF Editor, Queries
<1>2. \A p \in Object : /\ cluster'[p] \in Seq(Text) /\ Len(cluster'[p]) >= Len(cluster[p])
                        /\ \A i \in 1..Len(cluster[p]) : cluster'[p][i] = cluster[p][i]
  <2> SUFFICES ASSUME NEW p \in Object
               PROVE  /\ cluster'[p] \in Seq(Text) /\ Len(cluster'[p]) >= Len(cluster[p])
                      /\ \A i \in 1..Len(cluster[p]) : cluster'[p][i] = cluster[p][i]
    OBVIOUS
  <2>1. cluster[p] \in Seq(Text) /\ cluster'[p] \in {cluster[p], Append(cluster[p], t)}
    BY <1>1
  <2>2. /\ Append(cluster[p], t) \in Seq(Text) /\ Len(Append(cluster[p], t)) = Len(cluster[p]) + 1
        /\ \A i \in 1..Len(cluster[p]) : Append(cluster[p], t)[i] = cluster[p][i]
        /\ Len(cluster[p]) \in Nat
    BY <2>1
  <2>3. QED BY <2>1, <2>2
<1>3. Queries(query, cluster)'
  <2>1. cluster' \in [Object -> Seq(Text)]
    BY <1>1, <1>2
  <2>2. \A p \in Object : Len(cluster'[p]) >= 1 /\ EntryOK(query[p], cluster'[p])
    <3>1. \A p \in Object : /\ Len(cluster[p]) >= 1 /\ EntryOK(query[p], cluster[p])
                            /\ Len(cluster[p]) \in Nat /\ Len(cluster'[p]) \in Nat
      BY <1>1, <1>2 DEF Editor, Queries
    <3>2. QED BY <1>2, <3>1 DEF EntryOK
  <2>3. QED BY <2>1, <2>2 DEF Editor, Queries
<1>4. Synced'
  <2>1. HasData(query[target]) => query[target].data \in 1..Len(cluster[target])
    BY DEF Editor, Queries, EntryOK, HasData, NoData
  <2>2. QED BY <1>2, <2>1 DEF Editor, Synced
<1>5. QED BY <1>3, <1>4 DEF Editor

\* Saves that a step ends or moves on.
LEMMA SavesMoved ==
  ASSUME Saves, NEW s \in Save, NEW p \in {"sent", "saved", "refused", "refresh", "lost"},
         saves[s].phase # "free"
  PROVE  /\ saves' = [saves EXCEPT ![s] = [saves[s] EXCEPT !.phase = p]] => Saves'
         /\ saves' = [saves EXCEPT ![s] = FreeSave] => Saves'
<1>1. saves[s] \in SaveType /\ saves[s].text.of = saves[s].target /\ FreeSave.phase = "free"
  BY DEF Saves, FreeSave
<1> DEFINE m == [saves[s] EXCEPT !.phase = p]
<1>2. m \in SaveType /\ m.text = saves[s].text /\ m.target = saves[s].target
  BY <1>1 DEF SaveType
<1> HIDE DEF m
<1>3. saves' = [saves EXCEPT ![s] = m] => Saves'
  BY <1>1, <1>2 DEF Saves
<1>4. saves' = [saves EXCEPT ![s] = FreeSave] => Saves'
  BY <1>1 DEF Saves
<1>5. QED BY <1>3, <1>4 DEF m

LEMMA InitSound == EditorInit => Sound
<1> SUFFICES ASSUME EditorInit PROVE Sound
  OBVIOUS
<1>1. \A o \in Object : /\ cluster[o] = <<[of |-> o, rev |-> 0]>> /\ cluster[o] \in Seq(Text)
                        /\ Len(cluster[o]) = 1
  <2>1. ASSUME NEW t \in Text PROVE <<t>> \in Seq(Text) /\ Len(<<t>>) = 1
    BY <2>1
  <2>2. \A o \in Object : cluster[o] = <<[of |-> o, rev |-> 0]>>
    BY DEF EditorInit
  <2>3. QED BY <2>1, <2>2, EmptyTyped
<1>2. Queries(query, cluster)
  <2>1. \A o \in Object : EntryOK(query[o], cluster[o])
    BY NotAskedTyped DEF EditorInit, EntryOK
  <2>2. QED BY <1>1, <2>1 DEF EditorInit, Queries
<1>3. Editor
  BY <1>2, EmptyTyped DEF EditorInit, Editor, Synced
<1>4. Saves
  BY DEF EditorInit, Saves, FreeSave
<1>5. QED BY <1>3, <1>4, EditorAssumption DEF EditorInit, Sound

LEMMA StepSound == Sound /\ [EditorNext]_vars => Sound'
<1> SUFFICES ASSUME Sound, [EditorNext]_vars PROVE Sound'
  OBVIOUS
<1>1. /\ host \in Hosts /\ host \in HostType /\ texts \in 0..MaxTexts /\ MaxTexts \in Nat
      /\ open \in BOOLEAN /\ target \in Object /\ draft \in Text /\ baseline \in Text
      /\ Queries(query, cluster) /\ Editor /\ Saves
  BY EditorAssumption DEF Sound, Editor
<1>2. CASE UNCHANGED vars
  BY <1>1, <1>2 DEF vars, Sound, Editor, Synced, Saves
<1>3. ASSUME UNCHANGED <<host, cluster, texts, saves>>, Editor' PROVE Sound'
  BY <1>1, <1>3 DEF Sound, Saves
<1>4. ASSUME NEW o \in Object, OpenEditor(o) PROVE Sound'
  <2>1. Editor'
    BY <1>1, <1>4, AskedQueries, EmptyTyped, ShownSound DEF OpenEditor
  <2>2. QED BY <1>3, <1>4, <2>1 DEF OpenEditor
<1>5. ASSUME NEW o \in Object, Navigate(o) PROVE Sound'
  <2> DEFINE stays == open /\ host.route = "stays"
             q == IF stays THEN [query EXCEPT ![o] = Observed(@, Version(o))] ELSE query
  <2>1. stays \in BOOLEAN /\ Queries(q, cluster)
    <3>1. stays \in BOOLEAN
      BY Zenon
    <3>2. Queries([query EXCEPT ![o] = Observed(query[o], Version(o))], cluster)
      BY <1>1, AskedQueries
    <3>3. QED BY <1>1, <3>1, <3>2
  <2>2. Shown(stays, o, q, draft, baseline) /\ UNCHANGED <<host, cluster, texts, saves>>
    BY <1>5 DEF Navigate
  <2>3. Editor'
    <3> HIDE DEF stays, q
    <3>1. QED BY <1>1, <2>1, <2>2, ShownSound
  <2>4. QED BY <1>3, <2>2, <2>3
<1>6. CASE Edit
  <2>1. texts' = texts + 1 /\ texts' \in 0..MaxTexts
    BY <1>1, <1>6 DEF Edit, NextRev
  <2>2. PICK of \in Object \cup {Nothing} :
          Shown(TRUE, target, query, [of |-> of, rev |-> NextRev], baseline)
    BY <1>6 DEF Edit
  <2>3. [of |-> of, rev |-> NextRev] \in Text
    BY <2>1 DEF Text, NextRev
  <2>4. Editor'
    BY <1>1, <1>6, <2>2, <2>3, ShownSound DEF Edit
  <2>5. QED BY <1>1, <1>6, <2>1, <2>4 DEF Edit, Sound, Saves
<1>7. CASE Reset
  <2> DEFINE content == IF HasData(query[target]) THEN cluster[target][query[target].data] ELSE Empty
  <2>1. content \in Text
    BY <1>1, EmptyTyped DEF Queries, EntryOK, HasData, NoData
  <2>2. Shown(TRUE, target, query, content, content) /\ UNCHANGED <<host, cluster, texts, saves>>
    BY <1>7 DEF Reset
  <2>3. Editor'
    <3> HIDE DEF content
    <3>1. QED BY <1>1, <2>1, <2>2, ShownSound
  <2>4. QED BY <1>3, <2>2, <2>3
<1>8. CASE Refresh
  <2>1. Editor'
    BY <1>1, <1>8, AskedQueries, ShownSound DEF Refresh
  <2>2. QED BY <1>3, <1>8, <2>1 DEF Refresh
<1>9. CASE CloseEditor
  <2>1. Editor'
    BY <1>1, <1>9, EmptyTyped, ShownSound DEF CloseEditor
  <2>2. QED BY <1>3, <1>9, <2>1 DEF CloseEditor
<1>10. ASSUME NEW o \in Object, AnswerYaml(o) \/ FailYaml(o) PROVE Sound'
  <2>1. UNCHANGED <<host, cluster, texts, saves>>
    BY <1>10 DEF AnswerYaml, FailYaml
  <2>2. CASE AnswerYaml(o)
    <3>1. PICK n \in query[o].since..Version(o) :
            Shown(open, target, [query EXCEPT ![o] = Answered(query[o], n)], draft, baseline)
      BY <2>2 DEF AnswerYaml
    <3>2. Editor'
      BY <1>1, <2>1, <2>2, <3>1, AnsweredQueries, ShownSound DEF AnswerYaml
    <3>3. QED BY <1>3, <2>1, <3>2
  <2>3. CASE FailYaml(o)
    <3>1. Editor'
      BY <1>1, <2>1, <2>3, AskedQueries, ShownSound DEF FailYaml
    <3>2. QED BY <1>3, <2>1, <3>1
  <2>4. QED BY <1>10, <2>2, <2>3
<1>11. ASSUME NEW o \in Object, WriteElsewhere(o) PROVE Sound'
  <2>1. texts' \in 0..MaxTexts /\ NextRev \in 0..MaxTexts
    BY <1>1, <1>11 DEF WriteElsewhere, NextRev
  <2>2. [of |-> o, rev |-> NextRev] \in Text
    BY <2>1 DEF Text
  <2>3. Editor'
    BY <1>1, <1>11, <2>2, WrittenEditor DEF WriteElsewhere
  <2>4. QED BY <1>1, <1>11, <2>1, <2>3 DEF WriteElsewhere, Sound, Saves
<1>12. ASSUME NEW s \in Save, SaveDraft(s) PROVE Sound'
  <2> DEFINE k == [phase |-> "sent", target |-> target, text |-> draft]
  <2>1. k \in SaveType /\ k.text.of = k.target
    BY <1>1, <1>12 DEF SaveDraft, Valid, SaveType
  <2>2. saves' = [saves EXCEPT ![s] = k]
    BY <1>12 DEF SaveDraft
  <2>3. Saves'
    <3> HIDE DEF k
    <3>1. QED BY <1>1, <2>1, <2>2 DEF Saves
  <2>4. QED BY <1>1, <1>12, <2>3 DEF SaveDraft, Sound, Editor, Synced
<1>13. ASSUME NEW s \in Save, TakeSave(s) PROVE Sound'
  <2>1. /\ saves[s].phase # "free" /\ UNCHANGED <<host, texts, open, target, draft, baseline, query>>
        /\ cluster' = [cluster EXCEPT ![saves[s].target] = Append(cluster[saves[s].target], saves[s].text)]
        /\ \/ saves' = [saves EXCEPT ![s] = FreeSave]
           \/ saves' = [saves EXCEPT ![s] = [saves[s] EXCEPT !.phase = "saved"]]
    BY <1>13 DEF TakeSave
  <2>2. saves[s].target \in Object /\ saves[s].text \in Text
    BY <1>1, <2>1 DEF Saves, SaveType, FreeSave
  <2>3. Editor' /\ Saves'
    BY <1>1, <2>1, <2>2, WrittenEditor, SavesMoved
  <2>4. QED BY <1>1, <2>1, <2>3 DEF Sound
<1>14. ASSUME NEW s \in Save, RefuseSave(s) \/ SaveError(s) \/ SaveTimeOut(s) PROVE Sound'
  <2>1. /\ saves[s].phase # "free"
        /\ UNCHANGED <<host, cluster, texts, open, target, draft, baseline, query>>
    BY <1>14 DEF RefuseSave, SaveError, SaveTimeOut
  <2>2. \/ saves' = [saves EXCEPT ![s] = FreeSave]
        \/ \E p \in {"refused", "lost"} : saves' = [saves EXCEPT ![s] = [saves[s] EXCEPT !.phase = p]]
    BY <1>14 DEF RefuseSave, SaveError, SaveTimeOut
  <2>3. Saves'
    BY <1>1, <2>1, <2>2, SavesMoved
  <2>4. QED BY <1>1, <2>1, <2>3 DEF Sound, Editor, Synced
<1>15. ASSUME NEW s \in Save, saves[s].phase # "free", SaveOver(s) PROVE Sound'
  <2>1. Editor'
    BY <1>1, <1>15, AskedQueries, EmptyTyped, ShownSound DEF SaveOver
  <2>2. Saves'
    BY <1>1, <1>15, SavesMoved DEF SaveOver
  <2>3. QED BY <1>1, <1>15, <2>1, <2>2 DEF SaveOver, Sound
<1>16. ASSUME NEW s \in Save, SaveReply(s) PROVE Sound'
  <2>1. saves[s].phase # "free"
    BY <1>16 DEF SaveReply
  <2>2. CASE SaveOver(s)
    BY <1>15, <2>1, <2>2
  <2>3. CASE ~SaveOver(s)
    <3>1. /\ saves' = [saves EXCEPT ![s] = [saves[s] EXCEPT !.phase = "refresh"]]
          /\ UNCHANGED <<host, cluster, texts, open, target, draft, baseline, query>>
      BY <1>1, <1>16, <2>3 DEF SaveReply, Saves
    <3>2. Saves'
      BY <1>1, <2>1, <3>1, SavesMoved
    <3>3. QED BY <1>1, <3>1, <3>2 DEF Sound, Editor, Synced
  <2>4. QED BY <2>2, <2>3
<1>17. ASSUME NEW s \in Save, SaveRefreshed(s) PROVE Sound'
  BY <1>15, <1>17 DEF SaveRefreshed
<1>18. QED BY <1>2, <1>4, <1>5, <1>6, <1>7, <1>8, <1>9, <1>10, <1>11, <1>12, <1>13, <1>14,
           <1>16, <1>17 DEF EditorNext

LEMMA AlwaysSound == EditorSpec => []Sound
<1>1. EditorInit => Sound
  BY InitSound
<1>2. Sound /\ [EditorNext]_vars => Sound'
  BY StepSound
<1>3. QED BY <1>1, <1>2, PTL DEF EditorSpec

ReloadTyped == reloading \in BOOLEAN

LEMMA AlwaysReloadTyped == EditorSpec => []ReloadTyped
<1>1. EditorInit => ReloadTyped
  BY DEF EditorInit, ReloadTyped
<1>2. ReloadTyped /\ [EditorNext]_vars => ReloadTyped'
  <2>1. EditorNext => UNCHANGED reloading \/ Reloads(FALSE) \/ Reloads(Dirty)
    <3>1. ASSUME NEW o \in Object, OpenEditor(o) \/ Navigate(o) \/ AnswerYaml(o) \/ FailYaml(o)
          PROVE  Reloads(FALSE)
      BY <3>1, Zenon DEF OpenEditor, Navigate, AnswerYaml, FailYaml
    <3>2. ASSUME Edit \/ Reset \/ Refresh \/ CloseEditor PROVE Reloads(FALSE) \/ Reloads(Dirty)
      BY <3>2, Zenon DEF Edit, Reset, Refresh, CloseEditor
    <3>3. ASSUME NEW o \in Object, WriteElsewhere(o) PROVE UNCHANGED reloading
      BY <3>3 DEF WriteElsewhere
    <3>4. ASSUME NEW s \in Save,
                 \/ SaveDraft(s) \/ TakeSave(s) \/ RefuseSave(s) \/ SaveError(s)
                 \/ SaveTimeOut(s) \/ SaveReply(s) \/ SaveRefreshed(s)
          PROVE  UNCHANGED reloading \/ Reloads(FALSE)
      <4>1. CASE SaveOver(s)
        BY <4>1, Zenon DEF SaveOver
      <4>2. CASE ~SaveOver(s)
        BY <3>4, <4>2 DEF SaveDraft, TakeSave, RefuseSave, SaveError, SaveTimeOut, SaveReply,
             SaveRefreshed
      <4>3. QED BY <4>1, <4>2
    <3>5. QED BY <3>1, <3>2, <3>3, <3>4 DEF EditorNext
  <2>2. Reloads(FALSE) => reloading' \in BOOLEAN
    BY Zenon DEF Reloads
  <2>3. Reloads(Dirty) => reloading' \in BOOLEAN
    BY Zenon DEF Reloads
  <2>4. UNCHANGED vars => reloading' = reloading
    BY Zenon DEF vars
  <2>5. QED BY <2>1, <2>2, <2>3, <2>4, Zenon DEF ReloadTyped
<1>3. QED BY <1>1, <1>2, PTL DEF EditorSpec

-----------------------------------------------------------------------------
\* The editor keeps to its types.
THEOREM EditorTypeCorrect == EditorSpec => []EditorTypeOK
<1>1. ASSUME Sound, ReloadTyped PROVE EditorTypeOK
  <2>1. \A o \in Object : /\ query[o] \in QueryType /\ query[o].data \in {NoData} \cup (1..Len(cluster[o]))
                          /\ cluster[o] \in Seq(Text)
    BY <1>1 DEF Sound, Editor, Queries, EntryOK, NoData
  <2>2. QED BY <1>1, <2>1 DEF Sound, Editor, Saves, ReloadTyped, EditorTypeOK
<1>2. QED BY <1>1, AlwaysSound, AlwaysReloadTyped, PTL

\* One object's manifest is never saved to another, on whatever page the editor is
\* open and whatever becomes its target while it is.
THEOREM ManifestsAreSavedToTheirObject == EditorSpec => []SavesNameTheirTarget
<1>1. Sound => SavesNameTheirTarget
  BY DEF Sound, Saves, SavesNameTheirTarget
<1>2. QED BY <1>1, AlwaysSound, PTL

\* A draft without edits is the answer's text, whatever was open, saved or answered before.
THEOREM CleanDraftsAreTheTargets == EditorSpec => []SyncedDraftIsTheTargets
<1>1. Sound => SyncedDraftIsTheTargets
  BY DEF Sound, Editor, Synced, SyncedDraftIsTheTargets, Settled, Dirty
<1>2. QED BY <1>1, AlwaysSound, PTL

\* No answer, no failure and no refetch changes an edited draft, whatever else is under
\* way; of the answer to a confirmed Reload nothing is claimed
\* (components/workload/ResourceYamlEditorModal.tsx, the effect on result.content).
THEOREM EditsSurviveAnswers == EditorSpec => AnswersKeepEdits
<1> DEFINE Keeps ==
      (/\ query' # query /\ open /\ open' /\ target' = target
       /\ Dirty /\ baseline # Empty
       /\ ~(reloading /\ AnswerYaml(target)))
        => draft' = draft
<1>1. ASSUME Sound, [EditorNext]_vars PROVE [Keeps]_vars
  <2> SUFFICES ASSUME query' # query, open, open', target' = target, Dirty, baseline # Empty
               PROVE  draft' = draft
    OBVIOUS
  <2>1. ASSUME NEW q, Shown(open, target, q, draft, baseline) PROVE draft' = draft
    <3>1. CASE HasData(q[target])
      BY <2>1, <3>1 DEF Shown, Reconciled, Dirty
    <3>2. CASE ~HasData(q[target])
      BY <2>1, <3>2 DEF Shown
    <3>3. QED BY <3>1, <3>2
  <2>2. ASSUME NEW o \in Object, AnswerYaml(o) \/ FailYaml(o) PROVE draft' = draft
    BY <2>1, <2>2 DEF AnswerYaml, FailYaml
  <2>3. CASE Refresh
    <3>1. Shown(open, target, [query EXCEPT ![target] = Refetched(@, Version(target))], draft, baseline)
      BY <2>3 DEF Refresh, Shown
    <3>2. QED BY <2>1, <3>1
  <2>4. QED BY <1>1, <2>2, <2>3 DEF EditorNext, vars, OpenEditor, Navigate, Edit, Reset, CloseEditor,
          WriteElsewhere, SaveDraft, TakeSave, RefuseSave, SaveError, SaveTimeOut, SaveReply,
          SaveRefreshed, SaveOver, Shown
<1>2. QED BY <1>1, AlwaysSound, PTL DEF EditorSpec, AnswersKeepEdits
=============================================================================
