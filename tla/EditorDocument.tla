--------------------------- MODULE EditorDocument ---------------------------
(* The working copy of a Level, edited by several tabs at once: the row of
   level_working_copies with its transactions in backend/server.js, the editor
   page in frontend/src/ui/LevelEditor.tsx, the merge of both
   (core/sharedLevelMerge.ts) and the drafts in localStorage
   (ui/levelEditorDraft.ts, ui/levelEditorPersistence.ts).

   A page shows a board built on the body of the revision it was last told of,
   its base.  Autosaves and a poll every second move page and document towards
   each other; Save publishes, Discard goes back to what is published.  Every
   await is a step boundary: a request is sent, served and answered in three
   steps, and a tab that closes leaves its requests behind.

   A body is a value per field (the merge works field by field); every edit
   makes a new value, which names its page.  All pages are tabs of one browser,
   so that they share localStorage. *)
EXTENDS Naturals, FiniteSets

CONSTANTS
  Pages,        \* page sessions: a reload keeps one, navigation ends it
  Fields,
  None,
  UserActs,     \* what users may do besides editing: a subset of AllActs
  MaxRevision,
  MaxEvents     \* edits, acts and lost messages together

AllActs == {"save", "discard", "leave", "unload", "publish"}

ASSUME BoundAssumption == UserActs \subseteq AllActs /\ {MaxRevision, MaxEvents} \subseteq Nat

VARIABLES
  doc,        \* the row: body, revision, saved_revision, baseline_hash
  canonical,  \* the Level in the workspace, None if it was never saved
  stored,     \* every value in level_working_copy_revisions, whose pruning is left out
  pages,
  late,       \* requests of pages that are gone, which may still arrive
  branches,   \* localStorage: drafts of ended sessions and archived recoveries
  typed,      \* per page and field, what its user typed last and did not discard
  astray,     \* pages that put a board on a base it was not built on
  events

vars == <<doc, canonical, stored, pages, late, branches, typed, astray, events>>

----------------------------------------------------------------------------
Values == [by : Pages \cup {None}, n : Nat]
Bodies == [Fields -> Values]
Original == [f \in Fields |-> [by |-> None, n |-> 0]]

ASSUME NoneAssumption == None \notin Pages \cup Bodies

Docs == [body : Bodies, revision : Nat, saved : Nat, baseline : Bodies \cup {None}]
\* What an answer says of the document: `moved` is baseline_conflict, `saved` has_saved_baseline.
Views == [body : Bodies, revision : Nat, moved : BOOLEAN, saved : BOOLEAN]

Requests ==
  [kind : {"autosave", "save", "discard"}, by : Pages, level : Bodies, base : Bodies, revision : Nat]
Failure == [status |-> "fail", view |-> [body |-> Original, revision |-> 0, moved |-> FALSE, saved |-> FALSE]]
Answers == [status : {"ok", "conflict", "fail"}, view : Views]
Calls == [request : Requests \cup {None}, answer : Answers \cup {None}]
Idle == [request |-> None, answer |-> None]
Kinds == {"auto", "act"}

Bases == [body : Bodies, revision : Nat]
PageStates ==
  [at : {"away", "open", "unloaded", "gone"},
   shown : Bodies,                                  \* currentCandidateRef
   base : Bases,                                    \* editorDocumentRef, documentRevisionRef
   conflict : BOOLEAN,                              \* documentConflictRef
   target : BOOLEAN,                                \* editorDocumentHasDiscardTarget
   state : {"live", "conflict", "error"},           \* cloudSaveState; pending, saving, saved are live
   draft : BOOLEAN,                                 \* does localStorage hold this page's board?
   act : {"none", "save", "discard", "leave"},      \* what waits for the autosave in flight
   level : Bodies,                                  \* the level a Save was pressed with
   seen : Views \cup {None},                        \* the poll's answer
   calls : [Kinds -> Calls]]

Session(at) ==
  [at |-> at, shown |-> Original, base |-> [body |-> Original, revision |-> 0], conflict |-> FALSE,
   target |-> FALSE, state |-> "live", draft |-> FALSE, act |-> "none", level |-> Original, seen |-> None,
   calls |-> [k \in Kinds |-> Idle]]

----------------------------------------------------------------------------
(* The merge and the server: each handler is one transaction on the row. *)

\* mergeSharedLevel(base, local, remote): what `local` changed since `base` wins.
Merge(base, local, remote) ==
  [f \in Fields |-> IF local[f] = base[f] THEN remote[f] ELSE local[f]]

View(d, level) ==
  [body |-> d.body, revision |-> d.revision, moved |-> d.baseline # level, saved |-> d.baseline # None]

Written(body, saved, baseline) ==
  [body |-> body, revision |-> doc.revision + 1, saved |-> saved, baseline |-> baseline]

Effect(status, d, level) ==
  [status |-> status, doc |-> d, canonical |-> level]
Refusal(status) == Effect(status, doc, canonical)

\* Mutant: an autosave that is behind is taken as it is.
Autosave_Overwrites(q) ==
  Effect("ok", Written(q.level, IF q.level = doc.baseline /\ doc.baseline = canonical THEN doc.revision + 1 ELSE doc.saved,
                       doc.baseline), canonical)

\* dbAutosaveEditorDocument: what is behind is merged
Autosave(q) ==
  LET body == IF q.revision < doc.revision THEN Merge(q.base, q.level, doc.body) ELSE q.level
      clean == body = doc.baseline /\ doc.baseline = canonical IN
  Effect("ok", Written(body, IF clean THEN doc.revision + 1 ELSE doc.saved, doc.baseline), canonical)

\* Mutant: Save leaves the baseline where it was.
Save_OldBaseline(q) ==
  IF q.revision # doc.revision \/ doc.baseline # canonical THEN Refusal("conflict")
  ELSE Effect("ok", Written(q.level, doc.revision + 1, doc.baseline), q.level)

\* dbSaveEditorDocument: only at the current revision and baseline
Save(q) ==
  IF q.revision # doc.revision \/ doc.baseline # canonical THEN Refusal("conflict")
  ELSE Effect("ok", Written(q.level, doc.revision + 1, q.level), q.level)

\* Mutant: Discard puts the body back under the revision it had.
Discard_SameRevision(q) ==
  IF q.revision # doc.revision THEN Refusal("conflict")
  ELSE IF canonical = None THEN Refusal("fail")
  ELSE Effect("ok", [doc EXCEPT !.body = canonical, !.saved = doc.revision, !.baseline = canonical], canonical)

\* dbDiscardEditorDocument: a Level deleted since is no_saved_level
Discard(q) ==
  IF q.revision # doc.revision THEN Refusal("conflict")
  ELSE IF canonical = None THEN Refusal("fail")
  ELSE Effect("ok", Written(canonical, doc.revision + 1, canonical), canonical)

\* assertActiveEditorEditSession: a closed session changes nothing.
Outcome(q) ==
  IF pages[q.by].at = "gone" THEN Refusal("fail")
  ELSE IF q.kind = "autosave" THEN Autosave(q)
  ELSE IF q.kind = "save" THEN Save(q)
  ELSE Discard(q)

Apply(q) ==
  /\ doc' = Outcome(q).doc
  /\ canonical' = Outcome(q).canonical
  /\ stored' = stored \cup {doc'.body[f] : f \in Fields}
  /\ doc'.revision <= MaxRevision

----------------------------------------------------------------------------
(* The page *)

IsOpen(p) == pages[p].at = "open"
Unsynced(pg) == pg.shown # pg.base.body
Waiting(pg, c) == pg.calls[c] # Idle
Saving(pg) == pg.act \in {"save", "discard"}

Base(view) == [body |-> view.body, revision |-> view.revision]

\* The page draws `board` on what the server told; the draft follows every render.
Drawn(pg, board, view) ==
  [pg EXCEPT !.shown = board, !.base = Base(view), !.conflict = view.moved, !.target = view.saved \/ view.moved,
             !.state = IF view.moved THEN "conflict" ELSE "live", !.draft = TRUE]

\* A refused Save or Discard keeps the board and takes the document as its base.
Refused(pg, view) ==
  [pg EXCEPT !.base = Base(view), !.conflict = TRUE, !.target = view.saved \/ view.moved,
             !.state = "conflict", !.draft = TRUE]

Request(p, kind, level) ==
  [kind |-> kind, by |-> p, level |-> level, base |-> pages[p].base.body, revision |-> pages[p].base.revision]

SetPage(p, pg) == pages' = [pages EXCEPT ![p] = pg]
Send(pg, c, q) == [pg EXCEPT !.calls[c] = [request |-> q, answer |-> None]]
Return(pg, c) == [pg EXCEPT !.calls[c] = Idle]
Done(pg) == [Return(pg, "act") EXCEPT !.act = "none", !.level = Original]
Count == events < MaxEvents /\ events' = events + 1
Astray(p, is) == astray' = IF is THEN astray \cup {p} ELSE astray

----------------------------------------------------------------------------
(* Opening the document *)

Drafts(p) == {pages[q].shown : q \in {r \in Pages \ {p} : pages[r].at \in {"open", "unloaded"} /\ pages[r].draft}}
\* listPreservedScopedLevelEditorRecoveries, those that differ from the document
Preserved(p) == (branches \cup Drafts(p)) \ {doc.body}

HasDraft(pg) == pg.at = "unloaded" /\ pg.draft /\ pg.shown # doc.body

\* shouldRestoreLocalEditorRecovery
Restorable(pg) == HasDraft(pg) /\ ~pg.conflict /\ pg.base = Base(doc)

\* shouldAdoptPreservedEditorBranch; which branch is the newest is a choice
Boards(p) ==
  IF Restorable(pages[p]) THEN {pages[p].shown}
  ELSE IF doc.saved = doc.revision /\ Preserved(p) # {} THEN Preserved(p)
  ELSE {doc.body}

\* preserveScopedLevelEditorRecovery
Archived(pg) == IF HasDraft(pg) /\ ~Restorable(pg) THEN {pg.shown} ELSE {}

Open(p) ==
  /\ pages[p].at \in {"away", "unloaded"}
  /\ branches' = (branches \ {doc.body}) \cup Archived(pages[p])
  /\ \E board \in Boards(p) :
       /\ pages' = [q \in Pages |->
            IF q = p THEN [Drawn(pages[p], board, View(doc, canonical)) EXCEPT !.at = "open"]
            ELSE IF pages[q].shown = doc.body THEN [pages[q] EXCEPT !.draft = FALSE]
            ELSE pages[q]]
       /\ Astray(p, board # doc.body /\ ~Restorable(pages[p]))
  /\ UNCHANGED <<doc, canonical, stored, late, typed, events>>

----------------------------------------------------------------------------
(* Editing, autosave and poll *)

Edit(p, f) ==
  LET v == [by |-> p, n |-> typed[p][f].n + 1] IN
  /\ IsOpen(p) /\ ~Saving(pages[p]) /\ Count
  /\ SetPage(p, [pages[p] EXCEPT !.shown[f] = v, !.draft = TRUE])
  /\ typed' = [typed EXCEPT ![p][f] = v]
  /\ UNCHANGED <<doc, canonical, stored, late, branches, astray>>

StartAutosave(p) ==
  LET pg == pages[p] IN
  /\ IsOpen(p) /\ pg.state = "live" /\ Unsynced(pg) /\ ~Waiting(pg, "auto")
  /\ ~(Saving(pg) /\ Waiting(pg, "act"))
  /\ SetPage(p, Send(pg, "auto", Request(p, "autosave", pg.shown)))
  /\ UNCHANGED <<doc, canonical, stored, late, branches, typed, astray, events>>

\* Mutant: the acknowledged body replaces what was typed meanwhile.
Acknowledged_Replaced(pg, q, view) == Drawn(pg, view.body, view)

Acknowledged(pg, q, view) ==
  Drawn(pg, IF pg.shown = q.level THEN view.body ELSE Merge(q.level, pg.shown, view.body), view)

AutosaveAnswered(p) ==
  LET pg == pages[p] c == pg.calls["auto"] IN
  /\ IsOpen(p) /\ c.answer # None
  /\ IF c.answer.status = "ok"
     THEN /\ SetPage(p, Return(Acknowledged(pg, c.request, c.answer.view), "auto"))
          /\ Astray(p, pg.base.revision # c.request.revision)
     ELSE SetPage(p, [Return(pg, "auto") EXCEPT !.state = "error"]) /\ UNCHANGED astray
  /\ UNCHANGED <<doc, canonical, stored, late, branches, typed, events>>

\* The Retry button, or the browser is online again.
Retry(p) ==
  /\ IsOpen(p) /\ pages[p].state = "error"
  /\ SetPage(p, [pages[p] EXCEPT !.state = "live"])
  /\ UNCHANGED <<doc, canonical, stored, late, branches, typed, astray, events>>

PollRead(p) ==
  /\ IsOpen(p) /\ doc.revision > pages[p].base.revision /\ pages[p].seen = None
  /\ SetPage(p, [pages[p] EXCEPT !.seen = View(doc, canonical)])
  /\ UNCHANGED <<doc, canonical, stored, late, branches, typed, astray, events>>

\* A page without changes of its own mounts what the poll brings.
Polled(pg, view) == Merge(pg.base.body, pg.shown, view.body)

PollApply(p) ==
  LET pg == pages[p] IN
  /\ IsOpen(p) /\ pg.seen # None
  /\ SetPage(p, [(IF pg.seen.revision <= pg.base.revision THEN pg ELSE Drawn(pg, Polled(pg, pg.seen), pg.seen))
                   EXCEPT !.seen = None])
  /\ UNCHANGED <<doc, canonical, stored, late, branches, typed, astray, events>>

----------------------------------------------------------------------------
(* Save, Discard and navigation: each is asked for, waits for the autosave in
   flight, and is sent with the revision of that moment. *)

Ask(p, act) ==
  LET pg == pages[p] IN
  /\ IsOpen(p) /\ act \in UserActs /\ pg.act = "none"
  /\ act = "save" => ~pg.conflict
  /\ act = "discard" => pg.target
  /\ Count
  /\ SetPage(p, [pg EXCEPT !.act = act, !.level = IF act = "save" THEN pg.shown ELSE Original])
  /\ UNCHANGED <<doc, canonical, stored, late, branches, typed, astray>>

Ready(p, act) ==
  /\ IsOpen(p) /\ pages[p].act = act
  /\ ~Waiting(pages[p], "auto") /\ ~Waiting(pages[p], "act")

SendSave(p) ==
  LET pg == pages[p] IN
  /\ Ready(p, "save")
  /\ IF pg.conflict
     THEN SetPage(p, Done(pg)) /\ UNCHANGED astray
     ELSE SetPage(p, Send(pg, "act", [Request(p, "save", pg.level) EXCEPT !.base = Original])) /\ Astray(p, pg.level # pg.shown)
  /\ UNCHANGED <<doc, canonical, stored, late, branches, typed, events>>

SendDiscard(p) ==
  /\ Ready(p, "discard")
  /\ SetPage(p, Send(pages[p], "act", [Request(p, "discard", Original) EXCEPT !.base = Original]))
  /\ UNCHANGED <<doc, canonical, stored, late, branches, typed, astray, events>>

ActAnswered(p) ==
  LET pg == pages[p] c == pg.calls["act"] view == c.answer.view IN
  /\ IsOpen(p) /\ Saving(pg) /\ c.answer # None
  /\ SetPage(p, Done(IF c.answer.status = "fail" THEN pg
                     ELSE IF c.answer.status = "conflict" THEN Refused(pg, view)
                     ELSE IF pg.act = "save" THEN Drawn(pg, pg.shown, view)
                     ELSE Drawn(pg, view.body, view)))
  /\ Astray(p, \/ c.answer.status = "conflict" /\ pg.base # Base(view)
               \/ c.answer.status = "ok" /\ pg.act = "save" /\ pg.base.revision # c.request.revision)
  /\ typed' = IF c.answer.status = "ok" /\ pg.act = "discard" THEN [typed EXCEPT ![p] = [f \in Fields |-> [typed[p][f] EXCEPT !.by = None]]] ELSE typed
  /\ UNCHANGED <<doc, canonical, stored, late, branches, events>>

Pending(pg) == {pg.calls[c].request : c \in {k \in Kinds : Waiting(pg, k) /\ pg.calls[k].answer = None}}

\* What a page leaves behind: its board as a draft, and requests on the wire.
Ended(pg, at) ==
  [pg EXCEPT !.at = at, !.seen = None, !.act = "none", !.level = Original, !.calls = [k \in Kinds |-> Idle]]

\* retireLevelEditorClientIdentity: the draft stays under the old session.
EndSession(p) ==
  /\ SetPage(p, Session("gone"))
  /\ branches' = IF pages[p].draft THEN branches \cup {pages[p].shown} ELSE branches

SendLeave(p) ==
  LET pg == pages[p] IN
  /\ Ready(p, "leave")
  /\ IF Unsynced(pg) /\ ~pg.conflict
     THEN SetPage(p, Send(pg, "act", Request(p, "autosave", pg.shown))) /\ UNCHANGED branches
     ELSE EndSession(p)
  /\ UNCHANGED <<doc, canonical, stored, late, typed, astray, events>>

LeaveAnswered(p) ==
  /\ IsOpen(p) /\ pages[p].act = "leave" /\ pages[p].calls["act"].answer # None
  /\ EndSession(p)
  /\ UNCHANGED <<doc, canonical, stored, late, typed, astray, events>>

\* flushLatest: the last board, sent while the page is hidden
Flush(p) ==
  IF Unsynced(pages[p]) /\ ~pages[p].conflict THEN {Request(p, "autosave", pages[p].shown)} ELSE {}

\* A reload, or a tab that is closed and may be restored.
Unload(p) ==
  /\ IsOpen(p) /\ "unload" \in UserActs /\ Count
  /\ \E arriving \in SUBSET (Pending(pages[p]) \cup Flush(p)) : late' = late \cup arriving
  /\ SetPage(p, Ended(pages[p], "unloaded"))
  /\ UNCHANGED <<doc, canonical, stored, branches, typed, astray>>

----------------------------------------------------------------------------
(* The network, and the other writer of the workspace *)

Serve(p, c) ==
  LET call == pages[p].calls[c] IN
  /\ call.request # None /\ call.answer = None
  /\ Apply(call.request)
  /\ SetPage(p, [pages[p] EXCEPT !.calls[c].answer =
                   IF Outcome(call.request).status = "fail" THEN Failure
                   ELSE [status |-> Outcome(call.request).status, view |-> View(doc', canonical')]])
  /\ UNCHANGED <<late, branches, typed, astray, events>>

ServeLate(q) ==
  /\ Apply(q)
  /\ late' = late \ {q}
  /\ UNCHANGED <<pages, branches, typed, astray, events>>

\* A request, or its answer, is lost: the page sees a failure.
Lose(p, c) ==
  LET call == pages[p].calls[c] IN
  /\ call.request # None /\ Count
  /\ SetPage(p, [pages[p] EXCEPT !.calls[c].answer = Failure])
  /\ UNCHANGED <<doc, canonical, stored, late, branches, typed, astray>>

\* dbPutWorkspace: the Campaign Editor writes the whole workspace, where the Level may
\* differ, be gone, or be back.  The id of a Level never saved is reserved.
Publish(f) ==
  LET level == IF canonical = None THEN Original ELSE canonical IN
  /\ "publish" \in UserActs /\ Count
  /\ doc.baseline # None \/ doc.saved # 0
  /\ canonical' \in {[level EXCEPT ![f] = [by |-> None, n |-> events + 1]], None}
  /\ UNCHANGED <<doc, stored, pages, late, branches, typed, astray>>

----------------------------------------------------------------------------

Init ==
  /\ canonical \in {Original, None}     \* dbResolveEditorDocument, dbCreateEditorDocument
  /\ doc = [body |-> Original, revision |-> 1, saved |-> IF canonical = None THEN 0 ELSE 1, baseline |-> canonical]
  /\ stored = {Original[f] : f \in Fields}
  /\ pages = [p \in Pages |-> Session("away")]
  /\ late = {} /\ branches = {}
  /\ typed = [p \in Pages |-> Original]
  /\ astray = {} /\ events = 0

\* A page that leaves does nothing else before its last autosave is sent.
Next ==
  \/ \E p \in Pages : SendLeave(p)
  \/ \E p \in Pages :
       /\ ~Ready(p, "leave")
       /\ \/ Open(p) \/ StartAutosave(p) \/ AutosaveAnswered(p) \/ Retry(p) \/ PollRead(p) \/ PollApply(p)
          \/ SendSave(p) \/ SendDiscard(p) \/ ActAnswered(p) \/ LeaveAnswered(p) \/ Unload(p)
          \/ \E f \in Fields : Edit(p, f)
          \/ \E act \in {"save", "discard", "leave"} : Ask(p, act)
          \/ \E c \in Kinds : Serve(p, c) \/ Lose(p, c)
  \/ \E q \in late : ServeLate(q)
  \/ \E f \in Fields : Publish(f)

Spec == Init /\ [][Next]_vars

----------------------------------------------------------------------------

\* The types; no page holds a revision the document has not reached.
TypeOK ==
  /\ doc \in Docs
  /\ canonical \in Bodies \cup {None}
  /\ stored \subseteq Values
  /\ pages \in [Pages -> PageStates]
  /\ late \subseteq Requests
  /\ branches \subseteq Bodies
  /\ typed \in [Pages -> Bodies]
  /\ astray \subseteq Pages
  /\ events \in Nat
  /\ \A p \in Pages : pages[p].base.revision <= doc.revision

\* A document that counts as saved (saved_revision = revision) holds what was last
\* published; the editor then clears its drafts and offers nothing to Save or Discard.
CleanMeansPublished ==
  /\ doc.saved = doc.revision => doc.body = doc.baseline
  /\ doc.saved <= doc.revision
  /\ doc.saved = 0 <=> doc.baseline = None

\* A revision names one body, for pages and for requests however late: Save, Discard and
\* Autosave look only at the revision to decide that a board is built on the document.
RevisionNamesBody ==
  /\ \A p \in Pages : pages[p].base.revision = doc.revision => pages[p].base.body = doc.body
  /\ \A q \in late : q.kind = "autosave" /\ q.revision = doc.revision => q.base = doc.body

\* What a user typed and did not discard is in the history of the document, on the
\* page, in its draft, or in a branch the editor offers: reloads, lost answers, merges
\* and closed tabs never take the only copy.
NothingTypedIsLost ==
  \A p \in Pages, f \in Fields :
    \/ typed[p][f].by = None
    \/ typed[p][f] \in stored
    \/ pages[p].at \in {"open", "unloaded"} /\ pages[p].draft /\ pages[p].shown[f] = typed[p][f]
    \/ \E body \in branches : body[f] = typed[p][f]

Writes(p) ==
  \/ \E c \in Kinds : Serve(p, c) /\ pages[p].calls[c].request.kind # "discard"
  \/ \E q \in late : q.by = p /\ q.kind # "discard" /\ ServeLate(q)

\* Independent work survives (docs/adr/0304): a write changes only fields its own user
\* typed, however old the revision it was made at.  `astray` holds the pages for which
\* the code does not keep this: the board of a Save pressed before an autosave was
\* answered, an answer overtaken by a poll, a refused Save, an adopted draft.
IndependentWorkSurvives ==
  [][\A p \in Pages \ astray :
       Writes(p) => \A f \in Fields : doc'.body[f] # doc.body[f] => doc'.body[f].by = p]_vars
=============================================================================
