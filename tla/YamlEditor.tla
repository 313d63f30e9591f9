------------------------------ MODULE YamlEditor ------------------------------
(***************************************************************************)
(* components/workload/ResourceYamlEditorModal.tsx, in the pages that host *)
(* it: a draft of one object's manifest, the query behind it, and the      *)
(* saves under way.  The editor's two effects run after every step, so     *)
(* they are part of each (Shown).                                          *)
(***************************************************************************)
EXTENDS QueryCache, Sequences

CONSTANTS
  Object,         \* objects of the kind
  Nothing,        \* a text that names none of them: not a manifest of the kind
  Save,           \* saves the browser can have under way
  Hosts,          \* the ways pages host the editor
  MaxTexts        \* bound: texts typed, here or by other clients

\* route  "menu":   a list page, the target is the row chosen in the menu
\*        "closes": a page about one object that closes the editor on another route
\*        "stays":  one that leaves it open
\* waits  a save ends after the refetch of the page
HostType == [route: {"menu", "closes", "stays"}, waits: BOOLEAN]

ASSUME EditorAssumption ==
  /\ Nothing \notin Object /\ Hosts \subseteq HostType
  /\ MaxTexts \in Nat

VARIABLES
  host,
  cluster,        \* the manifests each object has had, the last one is its own
  texts,          \* texts typed so far, here or by other clients
  open, target,   \* is the editor open, and on what
  draft, baseline,
  query,          \* the editor's query, one cache entry per object
  saves,          \* updateXYaml requests
  reloading       \* history: a confirmed Reload of this editor is unanswered

vars == <<host, cluster, texts, open, target, draft, baseline, query, saves, reloading>>

\* A text and the object its kind, name and namespace lines name.
Text == [of: Object \cup {Nothing}, rev: 0..MaxTexts]
Empty == [of |-> Nothing, rev |-> 0]
FreeSave == [phase |-> "free"]
SaveType == [phase: {"sent", "saved", "refused", "refresh", "lost"},
             target: Object, text: Text]

EditorTypeOK ==
  /\ host \in Hosts
  /\ texts \in 0..MaxTexts
  /\ open \in BOOLEAN /\ target \in Object
  /\ draft \in Text /\ baseline \in Text
  /\ \A o \in Object :
       /\ query[o] \in QueryType /\ query[o].data \in {NoData} \cup (1..Len(cluster[o]))
       /\ \A i \in 1..Len(cluster[o]) : cluster[o][i] \in Text
  /\ saves \in [Save -> SaveType \cup {FreeSave}]
  /\ reloading \in BOOLEAN

EditorInit ==
  /\ host \in Hosts
  /\ cluster = [o \in Object |-> <<[of |-> o, rev |-> 0]>>]
  /\ texts = 0
  /\ open = FALSE /\ target \in Object
  /\ draft = Empty /\ baseline = Empty
  /\ query = [o \in Object |-> NotAsked]
  /\ saves = [s \in Save |-> FreeSave]
  /\ reloading = FALSE

-----------------------------------------------------------------------------
Version(o) == Len(cluster[o])
NextRev == texts + 1   \* tells texts apart
Dirty == draft # baseline
Saving == \E s \in Save : saves[s].phase \in {"sent", "saved", "refused", "refresh"}

\* expectedIdentity: a draft may only name the object in the title.
\* Mutant: The identity is not compared.
AnyManifest == draft.of # Nothing
Valid == draft.of = target

\* Mutant: The effect leaves a clean draft alone.
ReconciledOnce(d, b, content) ==
  IF b = Empty THEN <<content, content>> ELSE <<d, IF d = content THEN content ELSE b>>

\* The first effect: the cluster's text replaces what was not edited.
Reconciled(d, b, content) ==
  IF b = Empty \/ d = b THEN <<content, content>>
  ELSE <<d, IF d = content THEN content ELSE b>>

\* The editor after a step: q the queries, o the target, d and b the texts before.
Shown(isOpen, o, q, d, b) ==
  /\ open' = isOpen /\ target' = o /\ query' = q
  /\ LET both == CASE ~isOpen        -> <<Empty, Empty>>
                   [] ~HasData(q[o]) -> <<d, b>>
                   [] OTHER          -> Reconciled(d, b, cluster[o][q[o].data])
     IN draft' = both[1] /\ baseline' = both[2]

\* A confirmed Reload is awaited until its query ends, or the editor turns elsewhere.
Reloads(confirmed) ==
  reloading' = (/\ reloading \/ confirmed
                /\ open' /\ target' = target /\ Fetching(query'[target]))

-----------------------------------------------------------------------------
\* "Edit YAML": the query of the target becomes enabled.
OpenEditor(o) ==
  /\ ~open /\ (host.route # "menu" => o = target)
  /\ Shown(TRUE, o, [query EXCEPT ![o] = Observed(@, Version(o))], Empty, Empty)
  /\ Reloads(FALSE)
  /\ UNCHANGED <<host, cluster, texts, saves>>

\* Another route of the same page, by the browser's history.
Navigate(o) ==
  /\ host.route # "menu" /\ o # target
  /\ LET stays == open /\ host.route = "stays"
         q == IF stays THEN [query EXCEPT ![o] = Observed(@, Version(o))] ELSE query
     IN Shown(stays, o, q, draft, baseline)
  /\ Reloads(FALSE)
  /\ UNCHANGED <<host, cluster, texts, saves>>

\* Typing.
Edit ==
  /\ open /\ texts < MaxTexts
  /\ texts' = NextRev
  /\ \E of \in Object \cup {Nothing} :
       Shown(TRUE, target, query, [of |-> of, rev |-> NextRev], baseline)
  /\ Reloads(FALSE)
  /\ UNCHANGED <<host, cluster, saves>>

\* "Reset".
Reset ==
  /\ open /\ Dirty
  /\ LET content == IF HasData(query[target]) THEN cluster[target][query[target].data]
                    ELSE Empty
     IN Shown(TRUE, target, query, content, content)
  /\ Reloads(FALSE)
  /\ UNCHANGED <<host, cluster, texts, saves>>

\* "Refresh"; when there are edits, after "Reload" in the confirmation that says they
\* will be replaced.
Refresh ==
  /\ open
  /\ Shown(TRUE, target, [query EXCEPT ![target] = Refetched(@, Version(target))], draft, baseline)
  /\ Reloads(Dirty)
  /\ UNCHANGED <<host, cluster, texts, saves>>

\* The corner cross, after "Discard" in the confirmation when there are edits.
CloseEditor ==
  /\ open
  /\ Shown(FALSE, target, query, Empty, Empty)
  /\ Reloads(FALSE)
  /\ UNCHANGED <<host, cluster, texts, saves>>

-----------------------------------------------------------------------------
\* "Save YAML", or Ctrl-S.
SaveDraft(s) ==
  /\ open /\ draft # Empty /\ Dirty /\ Valid /\ ~Saving
  /\ saves[s] = FreeSave
  /\ saves' = [saves EXCEPT ![s] = [phase |-> "sent", target |-> target, text |-> draft]]
  /\ UNCHANGED <<host, cluster, texts, open, target, draft, baseline, query, reloading>>

\* The cluster takes the manifest (resourceVersion is not in it: the last save wins).
TakeSave(s) ==
  /\ saves[s].phase \in {"sent", "lost"} /\ Version(saves[s].target) <= MaxTexts
  /\ cluster' = [cluster EXCEPT ![saves[s].target] = Append(@, saves[s].text)]
  /\ saves' = [saves EXCEPT ![s] =
       IF @.phase = "lost" THEN FreeSave ELSE [@ EXCEPT !.phase = "saved"]]
  /\ UNCHANGED <<host, texts, open, target, draft, baseline, query, reloading>>

RefuseSave(s) ==
  /\ saves[s].phase \in {"sent", "lost"}
  /\ saves' = [saves EXCEPT ![s] =
       IF @.phase = "lost" THEN FreeSave ELSE [@ EXCEPT !.phase = "refused"]]
  /\ UNCHANGED <<host, cluster, texts, open, target, draft, baseline, query, reloading>>

\* Another client's write.
WriteElsewhere(o) ==
  /\ texts < MaxTexts
  /\ texts' = NextRev
  /\ cluster' = [cluster EXCEPT ![o] = Append(@, [of |-> o, rev |-> NextRev])]
  /\ UNCHANGED <<host, open, target, draft, baseline, query, saves, reloading>>

\* Mutant: The save's end is noted, its text kept.
SaveErrorKeeps(s) ==
  /\ saves[s].phase = "refused"
  /\ saves' = [saves EXCEPT ![s].phase = "free"]
  /\ UNCHANGED <<host, cluster, texts, open, target, draft, baseline, query, reloading>>

\* An error leaves the editor as it is.
SaveError(s) ==
  /\ saves[s].phase = "refused"
  /\ saves' = [saves EXCEPT ![s] = FreeSave]
  /\ UNCHANGED <<host, cluster, texts, open, target, draft, baseline, query, reloading>>

SaveTimeOut(s) ==
  /\ saves[s].phase \in {"sent", "saved"}
  /\ saves' = [saves EXCEPT ![s] =
       IF @.phase = "sent" THEN [@ EXCEPT !.phase = "lost"] ELSE FreeSave]
  /\ UNCHANGED <<host, cluster, texts, open, target, draft, baseline, query, reloading>>

\* The mutation is over: refetch the target of now, close the editor of now.
SaveOver(s) ==
  /\ Shown(FALSE, target, [query EXCEPT ![target] = Refetched(@, Version(target))], Empty, Empty)
  /\ Reloads(FALSE)
  /\ saves' = [saves EXCEPT ![s] = FreeSave]
  /\ UNCHANGED <<host, cluster, texts>>

SaveReply(s) ==
  /\ saves[s].phase = "saved"
  /\ \/ ~host.waits /\ SaveOver(s)
     \/ /\ host.waits
        /\ saves' = [saves EXCEPT ![s].phase = "refresh"]
        /\ UNCHANGED <<host, cluster, texts, open, target, draft, baseline, query, reloading>>

\* The page's own refetch, which a waiting save sits out, ended.
SaveRefreshed(s) ==
  /\ saves[s].phase = "refresh"
  /\ SaveOver(s)

-----------------------------------------------------------------------------
\* Mutant: Whatever is answered goes into the editor.
AnswerYamlOverwrites(o) ==
  /\ Fetching(query[o])
  /\ \E seen \in query[o].since..Version(o) :
       Shown(open, target, [query EXCEPT ![o] = Answered(@, seen)],
             IF open THEN cluster[o][seen] ELSE draft, baseline)
  /\ Reloads(FALSE)
  /\ UNCHANGED <<host, cluster, texts, saves>>

\* The answer is the object's manifest at some moment since it was asked for.
AnswerYaml(o) ==
  /\ Fetching(query[o])
  /\ \E seen \in query[o].since..Version(o) :
       Shown(open, target, [query EXCEPT ![o] = Answered(@, seen)], draft, baseline)
  /\ Reloads(FALSE)
  /\ UNCHANGED <<host, cluster, texts, saves>>

FailYaml(o) ==
  /\ Fetching(query[o])
  /\ Shown(open, target, [query EXCEPT ![o] = Failed(@)], draft, baseline)
  /\ Reloads(FALSE)
  /\ UNCHANGED <<host, cluster, texts, saves>>

-----------------------------------------------------------------------------
EditorNext ==
  \/ \E o \in Object : OpenEditor(o) \/ Navigate(o) \/ WriteElsewhere(o)
                       \/ AnswerYaml(o) \/ FailYaml(o)
  \/ Edit \/ Reset \/ Refresh \/ CloseEditor
  \/ \E s \in Save : SaveDraft(s) \/ TakeSave(s) \/ RefuseSave(s) \/ SaveError(s)
                     \/ SaveTimeOut(s) \/ SaveReply(s) \/ SaveRefreshed(s)

EditorSpec == EditorInit /\ [][EditorNext]_vars

-----------------------------------------------------------------------------
(* Properties. *)

\* A save never carries one object's manifest to another, although the editor of some
\* pages stays open, with its edits, while the page turns to another object.
SavesNameTheirTarget ==
  \A s \in Save : saves[s].phase # "free" => saves[s].text.of = saves[s].target

\* A draft shown as synced, with nothing under way, is the text the target had at the
\* last answer: never what was left of another object or of an earlier save.
SyncedDraftIsTheTargets ==
  (open /\ ~Dirty /\ Settled(query[target])) => draft = cluster[target][query[target].data]

\* Answers, late ones of another object included, failures and refetches never touch
\* edits, unless the user confirmed that this answer should (which is then not a claim:
\* the effect keeps the edits, against the words of the confirmation).
\* (Typing before the first answer is replaced by it: baseline is still ''.)
AnswersKeepEdits ==
  [][ (/\ query' # query /\ open /\ open' /\ target' = target
       /\ Dirty /\ baseline # Empty
       /\ ~(reloading /\ AnswerYaml(target)))
      => draft' = draft ]_vars
=============================================================================
