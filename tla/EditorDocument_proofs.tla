----------------------- MODULE EditorDocument_proofs -----------------------
(* What holds of the editor's documents for any number of tabs and fields, any
   edits, and any loss and delay of requests.

   The properties look at pages and documents; the invariant also says what the
   messages between them say.  Whatever a page, a request or an answer knows of
   the document is a revision the document has reached, under which it had that
   body, whose values are stored (Known, Sent).  An autosave in flight is not
   newer than the page's base and excludes a Save or Discard in flight
   (InFlight).  Both are needed for the two results on top: Kept says where the
   copy of a typed value is, Own that a board differs from its base by its own
   user's values only. *)
EXTENDS EditorDocument, TLAPS

Known(x, d, st) ==
  /\ x.revision <= d.revision
  /\ x.revision = d.revision => x.body = d.body
  /\ \A f \in Fields : x.body[f] \in st

Sent(q, d, st) ==
  /\ q.revision <= d.revision
  /\ q.kind = "autosave" /\ q.revision = d.revision => q.base = d.body
  /\ q.kind = "autosave" => \A f \in Fields : q.base[f] \in st

CallOK(p, c, d, st) ==
  /\ c.request # None => c.request.by = p /\ Sent(c.request, d, st)
  /\ c.answer # None => c.request # None
  /\ c.answer # None /\ c.answer.status # "fail" => Known(c.answer.view, d, st)
  /\ c.answer # None /\ c.answer.status = "ok" /\ c.request.kind = "autosave" =>
       \A f \in Fields : c.request.level[f] \in st
  /\ c.answer # None /\ c.answer.status = "ok" /\ c.request.kind = "save" =>
       c.answer.view.body = c.request.level

Told(p, pg, d, st) ==
  /\ Known(pg.base, d, st)
  /\ pg.seen # None => Known(pg.seen, d, st)
  /\ \A k \in Kinds : CallOK(p, pg.calls[k], d, st)

InFlight(base, act, auto, call) ==
  /\ auto.request # None =>
       /\ auto.request.kind = "autosave"
       /\ auto.request.revision <= base.revision
       /\ ~(act \in {"save", "discard"} /\ call # Idle)
  /\ act = "none" => call = Idle
  /\ call.request # None /\ act \in {"save", "discard"} =>
       call.request.kind = act /\ call.request.revision <= base.revision

PageOK(p, pg, d, st) ==
  /\ pg \in PageStates
  /\ Told(p, pg, d, st)
  /\ InFlight(pg.base, pg.act, pg.calls["auto"], pg.calls["act"])
  /\ pg.at # "open" => pg.calls["auto"] = Idle /\ pg.calls["act"] = Idle

DocOK(d, st) ==
  /\ d \in Docs
  /\ d.revision >= 1
  /\ \A f \in Fields : d.body[f] \in st
  /\ d.saved = d.revision => d.body = d.baseline
  /\ d.saved <= d.revision
  /\ d.saved = 0 <=> d.baseline = None

Inv ==
  /\ DocOK(doc, stored)
  /\ canonical \in Bodies \cup {None}
  /\ stored \subseteq Values /\ \A f \in Fields : Original[f] \in stored
  /\ pages \in [Pages -> PageStates]
  /\ \A p \in Pages : PageOK(p, pages[p], doc, stored)
  /\ late \subseteq Requests
  /\ \A q \in late : Sent(q, doc, stored)
  /\ branches \subseteq Bodies
  /\ typed \in [Pages -> Bodies]
  /\ astray \subseteq Pages
  /\ events \in Nat

----------------------------------------------------------------------------
(* Bodies, and what a growing document leaves true *)

LEMMA OriginalIsBody == Original \in Bodies
BY DEF Original, Bodies, Values

LEMMA MergeIsBody ==
  ASSUME NEW base, NEW local \in Bodies, NEW remote \in Bodies
  PROVE  /\ Merge(base, local, remote) \in Bodies
         /\ \A f \in Fields : Merge(base, local, remote)[f] = IF local[f] = base[f] THEN remote[f] ELSE local[f]
BY DEF Merge, Bodies

Grows(d, e) == e = d \/ e.revision > d.revision

LEMMA KnownGrows ==
  ASSUME NEW d \in Docs, NEW e \in Docs, NEW st, NEW tt, NEW x, x.revision \in Nat,
         Grows(d, e), st \subseteq tt, Known(x, d, st)
  PROVE  Known(x, e, tt)
<1>1. d.revision \in Nat /\ e.revision \in Nat BY DEF Docs
<1> QED BY <1>1 DEF Known, Grows

LEMMA SentGrows ==
  ASSUME NEW d \in Docs, NEW e \in Docs, NEW st, NEW tt, NEW q \in Requests,
         Grows(d, e), st \subseteq tt, Sent(q, d, st)
  PROVE  Sent(q, e, tt)
<1>1. d.revision \in Nat /\ e.revision \in Nat /\ q.revision \in Nat BY DEF Docs, Requests
<1> QED BY <1>1 DEF Sent, Grows

LEMMA CallGrows ==
  ASSUME NEW d \in Docs, NEW e \in Docs, NEW st, NEW tt, NEW p, NEW c \in Calls,
         Grows(d, e), st \subseteq tt, CallOK(p, c, d, st)
  PROVE  CallOK(p, c, e, tt)
<1>1. c.request # None => c.request \in Requests BY DEF Calls
<1>2. c.answer # None => c.answer \in Answers BY DEF Calls
<1>3. c.request # None => Sent(c.request, e, tt) BY <1>1, SentGrows DEF CallOK
<1>4. ASSUME c.answer # None, c.answer.status # "fail" PROVE Known(c.answer.view, e, tt)
  <2>1. c.answer.view \in Views BY <1>2, <1>4 DEF Answers
  <2>2. c.answer.view.revision \in Nat BY <2>1 DEF Views
  <2> QED BY <2>2, <1>4, KnownGrows DEF CallOK
<1> QED BY <1>3, <1>4 DEF CallOK

LEMMA PageGrows ==
  ASSUME NEW d \in Docs, NEW e \in Docs, NEW st, NEW tt, NEW p, NEW pg,
         Grows(d, e), st \subseteq tt, PageOK(p, pg, d, st)
  PROVE  PageOK(p, pg, e, tt)
<1>1. /\ pg.base \in Bases
      /\ pg.seen \in Views \cup {None}
      /\ pg.calls \in [Kinds -> Calls]
  BY DEF PageOK, PageStates
<1>2. Known(pg.base, e, tt)
  <2>1. pg.base.revision \in Nat BY <1>1 DEF Bases
  <2> QED BY <2>1, KnownGrows DEF PageOK, Told
<1>3. ASSUME pg.seen # None PROVE Known(pg.seen, e, tt)
  <2>1. pg.seen.revision \in Nat BY <1>1, <1>3 DEF Views
  <2> QED BY <2>1, <1>3, KnownGrows DEF PageOK, Told
<1>4. \A k \in Kinds : CallOK(p, pg.calls[k], e, tt)
  <2>1. \A k \in Kinds : pg.calls[k] \in Calls BY <1>1
  <2> QED BY <2>1, CallGrows DEF PageOK, Told
<1> QED BY <1>2, <1>3, <1>4 DEF PageOK, Told

----------------------------------------------------------------------------
(* The page's records *)

\* The fields of a page.
LEMMA PageFields ==
  ASSUME NEW pg \in PageStates
  PROVE  /\ pg.at \in {"away", "open", "unloaded", "gone"}
         /\ pg.shown \in Bodies /\ pg.base \in Bases /\ pg.level \in Bodies
         /\ pg.base.body \in Bodies /\ pg.base.revision \in Nat
         /\ pg.conflict \in BOOLEAN /\ pg.target \in BOOLEAN /\ pg.draft \in BOOLEAN
         /\ pg.state \in {"live", "conflict", "error"}
         /\ pg.act \in {"none", "save", "discard", "leave"}
         /\ pg.seen \in Views \cup {None}
         /\ pg.calls \in [Kinds -> Calls]
         /\ pg.calls["auto"] \in Calls /\ pg.calls["act"] \in Calls
<1>1. pg.base \in Bases /\ pg.calls \in [Kinds -> Calls] BY DEF PageStates
<1>2. "auto" \in Kinds /\ "act" \in Kinds BY DEF Kinds
<1>3. pg.base.body \in Bodies /\ pg.base.revision \in Nat BY <1>1 DEF Bases
<1> QED BY <1>1, <1>2, <1>3 DEF PageStates

LEMMA DrawnFields ==
  ASSUME NEW pg \in PageStates, NEW board \in Bodies, NEW view \in Views
  PROVE  LET n == Drawn(pg, board, view)
         IN /\ n \in PageStates
            /\ n.at = pg.at /\ n.act = pg.act /\ n.level = pg.level /\ n.seen = pg.seen
            /\ n.calls = pg.calls /\ n.shown = board /\ n.base = Base(view) /\ n.draft
<1>1. Base(view) \in Bases BY DEF Base, Bases, Views
<1>2. view.moved \in BOOLEAN /\ (view.saved \/ view.moved) \in BOOLEAN BY DEF Views
<1> DEFINE s == IF view.moved THEN "conflict" ELSE "live"
           t == view.saved \/ view.moved
           b == Base(view)
<1>3. s \in {"live", "conflict", "error"} OBVIOUS
<1>4. Drawn(pg, board, view) = [pg EXCEPT !.shown = board, !.base = b, !.conflict = view.moved, !.target = t,
                                          !.state = s, !.draft = TRUE]
  BY DEF Drawn
<1> HIDE DEF s, t, b
<1> QED BY <1>1, <1>2, <1>3, <1>4 DEF PageStates, b, t

LEMMA RefusedFields ==
  ASSUME NEW pg \in PageStates, NEW view \in Views
  PROVE  LET n == Refused(pg, view)
         IN /\ n \in PageStates
            /\ n.at = pg.at /\ n.act = pg.act /\ n.level = pg.level /\ n.seen = pg.seen
            /\ n.calls = pg.calls /\ n.shown = pg.shown /\ n.base = Base(view) /\ n.draft
<1>1. Base(view) \in Bases BY DEF Base, Bases, Views
<1>2. (view.saved \/ view.moved) \in BOOLEAN BY DEF Views
<1> DEFINE t == view.saved \/ view.moved
           b == Base(view)
<1>4. Refused(pg, view) = [pg EXCEPT !.base = b, !.conflict = TRUE, !.target = t, !.state = "conflict", !.draft = TRUE]
  BY DEF Refused
<1> HIDE DEF t, b
<1> QED BY <1>1, <1>2, <1>4 DEF PageStates, b, t

LEMMA CallFields ==
  ASSUME NEW pg \in PageStates, NEW k \in Kinds, NEW c \in Calls
  PROVE  LET n == [pg EXCEPT !.calls[k] = c]
         IN /\ n \in PageStates
            /\ n.at = pg.at /\ n.act = pg.act /\ n.level = pg.level /\ n.seen = pg.seen
            /\ n.shown = pg.shown /\ n.base = pg.base /\ n.draft = pg.draft
            /\ n.calls = [pg.calls EXCEPT ![k] = c]
<1> DEFINE cs == [pg.calls EXCEPT ![k] = c]
<1>1. cs \in [Kinds -> Calls] BY PageFields
<1>2. [pg EXCEPT !.calls[k] = c] = [pg EXCEPT !.calls = cs] BY DEF PageStates
<1> HIDE DEF cs
<1>3. [pg EXCEPT !.calls = cs].calls = cs BY DEF PageStates
<1>4. [pg EXCEPT !.calls[k] = c].calls = [pg.calls EXCEPT ![k] = c] BY <1>2, <1>3 DEF cs
<1> QED BY <1>1, <1>2, <1>4 DEF PageStates

LEMMA DoneFields ==
  ASSUME NEW pg \in PageStates
  PROVE  LET n == Done(pg)
         IN /\ n \in PageStates
            /\ n.at = pg.at /\ n.seen = pg.seen /\ n.act = "none"
            /\ n.shown = pg.shown /\ n.base = pg.base /\ n.draft = pg.draft
            /\ n.calls["auto"] = pg.calls["auto"] /\ n.calls["act"] = Idle
<1> DEFINE r == Return(pg, "act")
<1>1. "act" \in Kinds /\ "auto" \in Kinds /\ Idle \in Calls BY DEF Kinds, Idle, Calls
<1>2. /\ r \in PageStates
      /\ r.at = pg.at /\ r.seen = pg.seen /\ r.shown = pg.shown /\ r.base = pg.base /\ r.draft = pg.draft
      /\ r.calls = [pg.calls EXCEPT !["act"] = Idle]
  BY <1>1, CallFields DEF Return
<1>3. r.calls["act"] = Idle /\ r.calls["auto"] = pg.calls["auto"] BY <1>1, <1>2, PageFields
<1>4. Done(pg) = [r EXCEPT !.act = "none", !.level = Original] BY DEF Done
<1> HIDE DEF r
<1> QED BY <1>2, <1>3, <1>4, OriginalIsBody DEF PageStates

LEMMA ViewIsKnown ==
  ASSUME NEW d, NEW st, DocOK(d, st), NEW level
  PROVE  /\ View(d, level) \in Views
         /\ View(d, level).body = d.body
         /\ Base(View(d, level)) = [body |-> d.body, revision |-> d.revision]
         /\ Known(View(d, level), d, st)
<1>1. d.body \in Bodies /\ d.revision \in Nat BY DEF DocOK, Docs
<1>2. View(d, level) = [body |-> d.body, revision |-> d.revision, moved |-> d.baseline # level, saved |-> d.baseline # None]
  BY DEF View
<1>3. (d.baseline # level) \in BOOLEAN /\ (d.baseline # None) \in BOOLEAN OBVIOUS
<1> QED BY <1>1, <1>2, <1>3 DEF Views, Base, Known, DocOK

----------------------------------------------------------------------------
(* What a handler of the server does to the document *)

\* A write is a document again, of the next revision.
LEMMA WrittenIsDoc ==
  ASSUME DocOK(doc, stored), stored \subseteq Values,
         NEW body \in Bodies, NEW saved, NEW baseline \in Bodies \cup {None},
         NEW tt, stored \subseteq tt, \A f \in Fields : body[f] \in tt,
         \/ saved = doc.revision + 1 /\ body = baseline
         \/ saved = doc.saved /\ baseline = doc.baseline
  PROVE  /\ DocOK(Written(body, saved, baseline), tt)
         /\ Written(body, saved, baseline).revision > doc.revision
         /\ Written(body, saved, baseline).body = body
<1> DEFINE w == Written(body, saved, baseline)
<1>1. /\ w.body = body /\ w.revision = doc.revision + 1 /\ w.saved = saved /\ w.baseline = baseline
      /\ w = [body |-> body, revision |-> doc.revision + 1, saved |-> saved, baseline |-> baseline]
  BY DEF Written
<1>2. /\ doc.revision \in Nat /\ doc.revision >= 1 /\ doc.saved \in Nat /\ doc.saved <= doc.revision
      /\ doc.saved = 0 <=> doc.baseline = None
  BY DEF DocOK, Docs
<1> HIDE DEF w
<1>3. saved \in Nat /\ saved <= doc.revision + 1 /\ doc.revision + 1 \in Nat BY <1>2
<1>4. w \in Docs BY <1>1, <1>3 DEF Docs
<1>5. saved = doc.revision + 1 => body = baseline BY <1>2
<1>6. saved = 0 <=> baseline = None BY <1>2, NoneAssumption
<1> QED BY <1>1, <1>2, <1>3, <1>4, <1>5, <1>6 DEF DocOK, w

LEMMA AutosaveDoc ==
  ASSUME Inv, NEW q \in Requests, q.kind = "autosave", Sent(q, doc, stored),
         NEW tt, stored \subseteq tt, \A f \in Fields : Autosave(q).doc.body[f] \in tt
  PROVE  /\ DocOK(Autosave(q).doc, tt)
         /\ Autosave(q).doc.revision > doc.revision
         /\ Autosave(q).canonical = canonical
         /\ Autosave(q).status = "ok"
         /\ \A f \in Fields : q.level[f] \in tt
<1> DEFINE body == IF q.revision < doc.revision THEN Merge(q.base, q.level, doc.body) ELSE q.level
           saved == IF body = doc.baseline /\ doc.baseline = canonical THEN doc.revision + 1 ELSE doc.saved
<1>1. /\ Autosave(q).doc = Written(body, saved, doc.baseline)
      /\ Autosave(q).canonical = canonical /\ Autosave(q).status = "ok"
  BY DEF Autosave, Effect
<1>2. q.level \in Bodies /\ doc.body \in Bodies /\ doc.baseline \in Bodies \cup {None}
  BY DEF Requests, Inv, DocOK, Docs
<1>3. body \in Bodies BY <1>2, MergeIsBody
<1>4. \/ saved = doc.revision + 1 /\ body = doc.baseline
      \/ saved = doc.saved /\ doc.baseline = doc.baseline
  OBVIOUS
<1>5. Autosave(q).doc.body = body BY <1>1 DEF Written
<1>6. \A f \in Fields : q.level[f] \in tt
  <2>1. SUFFICES ASSUME NEW f \in Fields PROVE q.level[f] \in tt OBVIOUS
  <2>2. body[f] \in tt BY <1>5
  <2>3. CASE q.revision < doc.revision
    <3>1. body[f] = IF q.level[f] = q.base[f] THEN doc.body[f] ELSE q.level[f] BY <2>3, <1>2, MergeIsBody
    <3>2. q.base[f] \in tt BY DEF Sent
    <3> QED BY <2>2, <3>1, <3>2
  <2>4. CASE ~(q.revision < doc.revision) BY <2>2, <2>4
  <2> QED BY <2>3, <2>4
<1>7. \A f \in Fields : body[f] \in tt BY <1>5
<1> HIDE DEF body, saved
<1>8. /\ DocOK(Written(body, saved, doc.baseline), tt)
      /\ Written(body, saved, doc.baseline).revision > doc.revision
  BY <1>2, <1>3, <1>4, <1>7, WrittenIsDoc DEF Inv
<1> QED BY <1>1, <1>6, <1>8

\* The result of any request: a document again, and an answer that tells it.
Served(q, d, level, tt, status) ==
  /\ DocOK(d, tt)
  /\ Grows(doc, d)
  /\ level \in Bodies \cup {None}
  /\ status \in {"ok", "conflict", "fail"}
  /\ status = "ok" /\ q.kind = "autosave" => \A f \in Fields : q.level[f] \in tt
  /\ status = "ok" /\ q.kind = "save" => d.body = q.level

LEMMA OutcomeIsServed ==
  ASSUME Inv, NEW q \in Requests, Sent(q, doc, stored),
         NEW tt, stored \subseteq tt, \A f \in Fields : Outcome(q).doc.body[f] \in tt
  PROVE  Served(q, Outcome(q).doc, Outcome(q).canonical, tt, Outcome(q).status)
<1>1. DocOK(doc, tt) BY DEF Inv, DocOK
<1>2. doc \in Docs /\ canonical \in Bodies \cup {None} BY DEF Inv, DocOK
<1>3. \A s \in {"conflict", "fail"} : Served(q, Refusal(s).doc, Refusal(s).canonical, tt, Refusal(s).status)
  <2>1. \A s : Refusal(s).doc = doc /\ Refusal(s).canonical = canonical /\ Refusal(s).status = s BY DEF Refusal, Effect
  <2> QED BY <2>1, <1>1, <1>2 DEF Served, Grows
<1>4. CASE pages[q.by].at = "gone" BY <1>3, <1>4 DEF Outcome
<1>5. CASE pages[q.by].at # "gone" /\ q.kind = "autosave"
  <2>1. Outcome(q) = Autosave(q) BY <1>5 DEF Outcome
  <2> QED BY <2>1, <1>5, <1>2, AutosaveDoc DEF Served, Grows
<1>6. CASE pages[q.by].at # "gone" /\ q.kind = "save"
  <2>1. Outcome(q) = Save(q) BY <1>6 DEF Outcome
  <2>2. CASE q.revision # doc.revision \/ doc.baseline # canonical BY <2>1, <2>2, <1>3 DEF Save
  <2>3. CASE ~(q.revision # doc.revision \/ doc.baseline # canonical)
    <3> DEFINE w == Written(q.level, doc.revision + 1, q.level)
    <3>1. Outcome(q).doc = w /\ Outcome(q).canonical = q.level /\ Outcome(q).status = "ok"
      BY <2>1, <2>3 DEF Save, Effect
    <3>2. w.body = q.level BY DEF Written
    <3>3. q.level \in Bodies /\ \A f \in Fields : q.level[f] \in tt BY <3>1, <3>2 DEF Requests
    <3>4. DocOK(w, tt) /\ w.revision > doc.revision BY <3>3, WrittenIsDoc DEF Inv
    <3> HIDE DEF w
    <3> QED BY <3>1, <3>2, <3>3, <3>4, <1>6 DEF Served, Grows
  <2> QED BY <2>2, <2>3
<1>7. CASE pages[q.by].at # "gone" /\ q.kind # "autosave" /\ q.kind # "save"
  <2>1. Outcome(q) = Discard(q) BY <1>7 DEF Outcome
  <2>2. CASE q.revision # doc.revision \/ canonical = None BY <2>1, <2>2, <1>3 DEF Discard
  <2>3. CASE ~(q.revision # doc.revision \/ canonical = None)
    <3> DEFINE w == Written(canonical, doc.revision + 1, canonical)
    <3>1. Outcome(q).doc = w /\ Outcome(q).canonical = canonical /\ Outcome(q).status = "ok"
      BY <2>1, <2>3 DEF Discard, Effect
    <3>2. w.body = canonical BY DEF Written
    <3>3. canonical \in Bodies /\ \A f \in Fields : canonical[f] \in tt BY <3>1, <3>2, <2>3, <1>2
    <3>4. DocOK(w, tt) /\ w.revision > doc.revision BY <3>3, WrittenIsDoc DEF Inv
    <3> HIDE DEF w
    <3> QED BY <3>1, <3>2, <3>3, <3>4, <1>7 DEF Served, Grows
  <2> QED BY <2>2, <2>3
<1> QED BY <1>4, <1>5, <1>6, <1>7

LEMMA ApplyServes ==
  ASSUME Inv, NEW q \in Requests, Sent(q, doc, stored), Apply(q)
  PROVE  /\ Served(q, doc', canonical', stored', Outcome(q).status)
         /\ stored \subseteq stored' /\ stored' \subseteq Values
<1>1. doc' = Outcome(q).doc /\ canonical' = Outcome(q).canonical BY DEF Apply
<1>2. stored \subseteq stored' /\ \A f \in Fields : doc'.body[f] \in stored' BY DEF Apply
<1>3. Served(q, doc', canonical', stored', Outcome(q).status) BY <1>1, <1>2, OutcomeIsServed
<1>4. doc'.body \in Bodies BY <1>3 DEF Served, DocOK, Docs
<1>5. \A f \in Fields : doc'.body[f] \in Values BY <1>4 DEF Bodies
<1>6. stored' = stored \cup {doc'.body[f] : f \in Fields} BY DEF Apply
<1> QED BY <1>2, <1>3, <1>5, <1>6 DEF Inv

----------------------------------------------------------------------------
(* Steps that change pages only *)

\* What the other variables do in a step that leaves document and history alone.
Beside ==
  /\ UNCHANGED <<doc, stored>>
  /\ canonical' \in Bodies \cup {None}
  /\ late' \subseteq Requests /\ \A q \in late' : Sent(q, doc, stored)
  /\ branches' \subseteq Bodies
  /\ typed' \in [Pages -> Bodies]
  /\ astray' \subseteq Pages
  /\ events' \in Nat

LEMMA PagesKeepInv ==
  ASSUME Inv, Beside, pages' \in [Pages -> PageStates], \A p \in Pages : PageOK(p, pages'[p], doc, stored)
  PROVE  Inv'
BY DEF Inv, Beside

LEMMA PageKeepsInv ==
  ASSUME Inv, Beside, NEW p \in Pages, NEW n, PageOK(p, n, doc, stored), SetPage(p, n)
  PROVE  /\ Inv'
         /\ pages'[p] = n
         /\ \A q \in Pages \ {p} : pages'[q] = pages[q]
<1>1. pages \in [Pages -> PageStates] /\ \A q \in Pages : PageOK(q, pages[q], doc, stored) BY DEF Inv
<1>2. n \in PageStates BY DEF PageOK
<1>3. /\ pages' \in [Pages -> PageStates]
      /\ \A q \in Pages : pages'[q] = IF q = p THEN n ELSE pages[q]
  BY <1>1, <1>2 DEF SetPage
<1> QED BY <1>1, <1>3, PagesKeepInv

LEMMA CountIsNat == ASSUME events \in Nat, Count PROVE events' \in Nat
BY DEF Count

\* The calls of a page whose records of them are replaced.
LEMMA ToldAgain ==
  ASSUME NEW p, NEW pg \in PageStates, NEW n \in PageStates, NEW d, NEW st,
         Told(p, pg, d, st), Known(n.base, d, st),
         n.seen = pg.seen \/ n.seen = None,
         CallOK(p, n.calls["auto"], d, st), CallOK(p, n.calls["act"], d, st)
  PROVE  Told(p, n, d, st)
BY DEF Told, Kinds

LEMMA IdleIsOK ==
  /\ Idle \in Calls
  /\ Idle.request = None /\ Idle.answer = None
  /\ \A p, d, st : CallOK(p, Idle, d, st)
BY DEF Idle, Calls, CallOK

\* What the invariant says of one page.
LEMMA PageFacts ==
  ASSUME Inv, NEW p \in Pages
  PROVE  LET pg == pages[p] IN
         /\ pg \in PageStates
         /\ PageOK(p, pg, doc, stored)
         /\ Told(p, pg, doc, stored)
         /\ Known(pg.base, doc, stored)
         /\ CallOK(p, pg.calls["auto"], doc, stored) /\ CallOK(p, pg.calls["act"], doc, stored)
         /\ InFlight(pg.base, pg.act, pg.calls["auto"], pg.calls["act"])
         /\ pg.at # "open" => pg.calls["auto"] = Idle /\ pg.calls["act"] = Idle
         /\ \A k \in Kinds : Waiting(pg, k) <=> pg.calls[k].request # None
<1>1. PageOK(p, pages[p], doc, stored) /\ pages[p] \in PageStates BY DEF Inv
<1>2. Told(p, pages[p], doc, stored) BY <1>1 DEF PageOK
<1>3. "auto" \in Kinds /\ "act" \in Kinds BY DEF Kinds
<1>4. ASSUME NEW k \in Kinds PROVE Waiting(pages[p], k) <=> pages[p].calls[k].request # None
  <2> DEFINE c == pages[p].calls[k]
  <2>1. c \in Calls BY <1>1, PageFields
  <2>2. c.answer # None => c.request # None BY <1>2 DEF Told, CallOK
  <2> HIDE DEF c
  <2>3. c # Idle <=> c.request # None BY <2>1, <2>2 DEF Calls, Idle
  <2> QED BY <2>3 DEF Waiting, c
<1> QED BY <1>1, <1>2, <1>3, <1>4 DEF PageOK, Told

LEMMA EditKeeps ==
  ASSUME Inv, NEW p \in Pages, NEW f \in Fields, Edit(p, f)
  PROVE  Inv'
<1> DEFINE pg == pages[p]
           v == [by |-> p, n |-> typed[p][f].n + 1]
           shown == [pg.shown EXCEPT ![f] = v]
           n == [pg EXCEPT !.shown = shown, !.draft = TRUE]
<1>1. typed[p] \in Bodies /\ typed[p][f] \in Values BY DEF Inv, Bodies
<1>2. v \in Values BY <1>1 DEF Values
<1>3. pg \in PageStates /\ pg.shown \in Bodies BY PageFacts, PageFields
<1>4. shown \in Bodies BY <1>2, <1>3 DEF Bodies
<1>5. SetPage(p, n)
  <2>1. SetPage(p, [pg EXCEPT !.shown[f] = v, !.draft = TRUE]) BY DEF Edit
  <2>2. [pg EXCEPT !.shown[f] = v, !.draft = TRUE] = n BY <1>3 DEF PageStates
  <2> QED BY <2>1, <2>2
<1>6. [typed[p] EXCEPT ![f] = v] \in Bodies BY <1>1, <1>2 DEF Bodies
<1>7. typed' \in [Pages -> Bodies] BY <1>6 DEF Edit, Inv
<1>8. Beside BY <1>7, CountIsNat DEF Edit, Inv, Beside
<1> HIDE DEF shown
<1>9. n \in PageStates /\ n.base = pg.base /\ n.seen = pg.seen /\ n.calls = pg.calls /\ n.act = pg.act /\ n.at = pg.at
  BY <1>3, <1>4 DEF PageStates
<1> HIDE DEF n
<1>10. PageOK(p, n, doc, stored) BY <1>9, PageFacts DEF PageOK, Told
<1> QED BY <1>5, <1>8, <1>10, PageKeepsInv

\* A page in the same calls, on the same base or a later one.
LEMMA SameCalls ==
  ASSUME Inv, NEW p \in Pages, NEW n \in PageStates, LET pg == pages[p] IN
           /\ n.calls = pg.calls /\ n.act = pg.act
           /\ n.seen = pg.seen \/ n.seen = None \/ Known(n.seen, doc, stored)
           /\ n.at = pg.at \/ n.at = "open"
           /\ Known(n.base, doc, stored) /\ n.base.revision >= pg.base.revision
  PROVE  PageOK(p, n, doc, stored)
<1> DEFINE pg == pages[p]
<1>1. pg \in PageStates /\ PageOK(p, pg, doc, stored) BY PageFacts
<1>2. pg.calls["auto"] \in Calls /\ pg.calls["act"] \in Calls BY <1>1, PageFields
<1>3. /\ pg.calls["auto"].request # None => pg.calls["auto"].request.revision \in Nat
      /\ pg.calls["act"].request # None => pg.calls["act"].request.revision \in Nat
  BY <1>2 DEF Calls, Requests
<1>4. n.base.revision \in Nat /\ pg.base.revision \in Nat BY <1>1, PageFields
<1>5. InFlight(n.base, n.act, n.calls["auto"], n.calls["act"])
  <2>1. InFlight(pg.base, pg.act, pg.calls["auto"], pg.calls["act"]) BY <1>1 DEF PageOK
  <2> QED BY <2>1, <1>3, <1>4 DEF InFlight
<1> QED BY <1>1, <1>5 DEF PageOK, Told

LEMMA StartAutosaveKeeps ==
  ASSUME Inv, NEW p \in Pages, StartAutosave(p)
  PROVE  Inv'
<1> DEFINE pg == pages[p]
           q == Request(p, "autosave", pg.shown)
           c == [request |-> q, answer |-> None]
           n == [pg EXCEPT !.calls["auto"] = c]
<1>1. pg \in PageStates /\ Told(p, pg, doc, stored) /\ Known(pg.base, doc, stored)
      /\ InFlight(pg.base, pg.act, pg.calls["auto"], pg.calls["act"])
  BY PageFacts
<1>2. /\ q \in Requests /\ q.kind = "autosave" /\ q.by = p /\ q.revision = pg.base.revision /\ q.base = pg.base.body
  BY <1>1, PageFields DEF Request, Requests
<1>3. Sent(q, doc, stored) BY <1>1, <1>2 DEF Sent, Known
<1> HIDE DEF q
<1>4. c \in Calls /\ c.request = q /\ c.answer = None BY <1>2 DEF Calls
<1>5. CallOK(p, c, doc, stored) BY <1>2, <1>3, <1>4 DEF CallOK
<1> HIDE DEF c
<1>6. "auto" \in Kinds /\ "act" \in Kinds BY DEF Kinds
<1>7. /\ n \in PageStates /\ n.at = pg.at /\ n.act = pg.act /\ n.seen = pg.seen /\ n.base = pg.base
      /\ n.calls = [pg.calls EXCEPT !["auto"] = c]
  BY <1>1, <1>4, <1>6, CallFields
<1>8. n.calls["auto"] = c /\ n.calls["act"] = pg.calls["act"] BY <1>1, <1>6, <1>7, PageFields
<1>9. SetPage(p, n)
  <2>1. SetPage(p, Send(pg, "auto", Request(p, "autosave", pg.shown))) BY DEF StartAutosave
  <2> QED BY <2>1 DEF Send, c, q
<1> HIDE DEF n
<1>10. InFlight(n.base, n.act, n.calls["auto"], n.calls["act"])
  <2>1. ~(pg.act \in {"save", "discard"} /\ pg.calls["act"] # Idle) BY DEF StartAutosave, Saving, Waiting
  <2>2. pg.base.revision \in Nat BY <1>1, PageFields
  <2> QED BY <1>1, <1>2, <1>4, <1>7, <1>8, <2>1, <2>2 DEF InFlight
<1>11. Told(p, n, doc, stored) BY <1>1, <1>5, <1>7, <1>8, <1>6, ToldAgain, PageFacts
<1>12. n.at = "open" BY <1>7 DEF StartAutosave, IsOpen
<1>13. Beside BY DEF StartAutosave, Inv, Beside
<1> QED BY <1>7, <1>9, <1>10, <1>11, <1>12, <1>13, PageKeepsInv DEF PageOK

LEMMA RetryKeeps ==
  ASSUME Inv, NEW p \in Pages, Retry(p)
  PROVE  Inv'
<1> DEFINE pg == pages[p]
           n == [pg EXCEPT !.state = "live"]
<1>1. pg \in PageStates /\ Known(pg.base, doc, stored) BY PageFacts
<1>2. /\ n \in PageStates /\ n.base = pg.base /\ n.seen = pg.seen /\ n.calls = pg.calls /\ n.act = pg.act /\ n.at = pg.at
  BY <1>1 DEF PageStates
<1>3. SetPage(p, n) /\ Beside BY DEF Retry, Beside, Inv
<1> HIDE DEF n
<1>4. PageOK(p, n, doc, stored) BY <1>1, <1>2, SameCalls, PageFields
<1> QED BY <1>3, <1>4, PageKeepsInv

LEMMA PollReadKeeps ==
  ASSUME Inv, NEW p \in Pages, PollRead(p)
  PROVE  Inv'
<1> DEFINE pg == pages[p]
           v == View(doc, canonical)
           n == [pg EXCEPT !.seen = v]
<1>1. pg \in PageStates /\ Known(pg.base, doc, stored) BY PageFacts
<1>2. v \in Views /\ Known(v, doc, stored) BY ViewIsKnown DEF Inv
<1> HIDE DEF v
<1>3. /\ n \in PageStates /\ n.base = pg.base /\ n.seen = v /\ n.calls = pg.calls /\ n.act = pg.act /\ n.at = pg.at
  BY <1>1, <1>2 DEF PageStates
<1>4. SetPage(p, n) /\ Beside BY DEF PollRead, Beside, Inv, v
<1> HIDE DEF n
<1>5. PageOK(p, n, doc, stored) BY <1>1, <1>2, <1>3, SameCalls, PageFields
<1> QED BY <1>4, <1>5, PageKeepsInv

LEMMA PollApplyKeeps ==
  ASSUME Inv, NEW p \in Pages, PollApply(p)
  PROVE  Inv'
<1> DEFINE pg == pages[p]
           v == pg.seen
           board == Polled(pg, v)
           m == IF v.revision <= pg.base.revision THEN pg ELSE Drawn(pg, board, v)
           n == [m EXCEPT !.seen = None]
<1>1. pg \in PageStates /\ Known(pg.base, doc, stored) /\ Told(p, pg, doc, stored) BY PageFacts
<1>2. v \in Views /\ Known(v, doc, stored) BY <1>1, PageFields DEF PollApply, Told
<1>3. board \in Bodies
  <2>1. v.body \in Bodies /\ pg.shown \in Bodies BY <1>1, <1>2, PageFields DEF Views
  <2> QED BY <2>1, MergeIsBody DEF Polled
<1> HIDE DEF board
<1>4. /\ m \in PageStates /\ m.at = pg.at /\ m.calls = pg.calls /\ m.act = pg.act
      /\ Known(m.base, doc, stored) /\ m.base.revision >= pg.base.revision
  <2>1. CASE v.revision <= pg.base.revision BY <2>1, <1>1, PageFields
  <2>2. CASE ~(v.revision <= pg.base.revision)
    <3>1. m = Drawn(pg, board, v) BY <2>2
    <3>2. Base(v).body = v.body /\ Base(v).revision = v.revision BY DEF Base
    <3>3. Known(Base(v), doc, stored) BY <3>2, <1>2 DEF Known
    <3>4. v.revision \in Nat /\ pg.base.revision \in Nat BY <1>1, <1>2, PageFields DEF Views
    <3> QED BY <3>1, <3>2, <3>3, <3>4, <2>2, <1>1, <1>2, <1>3, DrawnFields
  <2> QED BY <2>1, <2>2
<1>5. SetPage(p, n) /\ Beside BY DEF PollApply, Beside, Inv, board
<1> HIDE DEF m
<1>6. /\ n \in PageStates /\ n.base = m.base /\ n.seen = None /\ n.calls = m.calls /\ n.act = m.act /\ n.at = m.at
  BY <1>4 DEF PageStates
<1> HIDE DEF n
<1>7. PageOK(p, n, doc, stored) BY <1>4, <1>6, SameCalls
<1> QED BY <1>5, <1>7, PageKeepsInv

LEMMA AutosaveAnsweredKeeps ==
  ASSUME Inv, NEW p \in Pages, AutosaveAnswered(p)
  PROVE  Inv'
<1> DEFINE pg == pages[p]
           c == pg.calls["auto"]
<1>1. /\ pg \in PageStates /\ Known(pg.base, doc, stored) /\ Told(p, pg, doc, stored)
      /\ CallOK(p, c, doc, stored) /\ CallOK(p, pg.calls["act"], doc, stored)
      /\ InFlight(pg.base, pg.act, c, pg.calls["act"])
  BY PageFacts
<1>2. "auto" \in Kinds /\ "act" \in Kinds BY DEF Kinds
<1>3. c.request # None /\ c.answer \in Answers BY <1>1, PageFields DEF AutosaveAnswered, CallOK, Calls
\* Whatever is drawn, the call is over and no Save or Discard is in flight.
<1>4. ASSUME NEW m \in PageStates, m.at = "open", m.act = pg.act, m.seen = pg.seen, m.calls = pg.calls,
             Known(m.base, doc, stored), Beside, SetPage(p, Return(m, "auto"))
      PROVE  Inv'
  <2> DEFINE n == Return(m, "auto")
  <2>1. /\ n \in PageStates /\ n.at = "open" /\ n.act = pg.act /\ n.seen = pg.seen /\ n.base = m.base
        /\ n.calls = [m.calls EXCEPT !["auto"] = Idle]
    BY <1>2, <1>4, IdleIsOK, CallFields DEF Return
  <2>2. n.calls["auto"] = Idle /\ n.calls["act"] = pg.calls["act"] BY <1>2, <1>4, <2>1, PageFields
  <2> HIDE DEF n
  <2>3. Told(p, n, doc, stored) BY <1>1, <1>4, <2>1, <2>2, IdleIsOK, ToldAgain
  <2>4. InFlight(n.base, n.act, n.calls["auto"], n.calls["act"])
    <3>1. pg.act \in {"save", "discard"} => pg.calls["act"] = Idle BY <1>1, <1>3 DEF InFlight
    <3>2. pg.act = "none" => pg.calls["act"] = Idle BY <1>1 DEF InFlight
    <3> QED BY <2>1, <2>2, <3>1, <3>2, IdleIsOK DEF InFlight
  <2>5. PageOK(p, n, doc, stored) BY <2>1, <2>3, <2>4 DEF PageOK
  <2> QED BY <1>4, <2>5, PageKeepsInv DEF n
<1>5. Beside BY DEF AutosaveAnswered, Beside, Inv, Astray
<1>6. pg.at = "open" BY DEF AutosaveAnswered, IsOpen
<1>7. CASE c.answer.status = "ok"
  <2> DEFINE view == c.answer.view
             board == IF pg.shown = c.request.level THEN view.body ELSE Merge(c.request.level, pg.shown, view.body)
             m == Drawn(pg, board, view)
  <2>1. view \in Views BY <1>3 DEF Answers
  <2>2. Known(view, doc, stored) BY <1>1, <1>7 DEF CallOK, AutosaveAnswered
  <2>3. board \in Bodies
    <3>1. view.body \in Bodies /\ pg.shown \in Bodies BY <1>1, <2>1, PageFields DEF Views
    <3> QED BY <3>1, MergeIsBody
  <2>4. SetPage(p, Return(m, "auto")) BY <1>7 DEF AutosaveAnswered, Acknowledged
  <2> HIDE DEF board, view
  <2>5. Known(Base(view), doc, stored) BY <2>2 DEF Base, Known
  <2>6. m \in PageStates /\ m.at = pg.at /\ m.act = pg.act /\ m.seen = pg.seen /\ m.calls = pg.calls /\ m.base = Base(view)
    BY <1>1, <2>1, <2>3, DrawnFields
  <2> HIDE DEF m
  <2> QED BY <1>4, <1>5, <1>6, <2>4, <2>5, <2>6
<1>8. CASE c.answer.status # "ok"
  <2> DEFINE m == [pg EXCEPT !.state = "error"]
  <2>1. /\ m \in PageStates /\ m.at = pg.at /\ m.act = pg.act /\ m.seen = pg.seen /\ m.calls = pg.calls /\ m.base = pg.base
    BY <1>1 DEF PageStates
  <2>2. SetPage(p, [Return(pg, "auto") EXCEPT !.state = "error"]) BY <1>8 DEF AutosaveAnswered
  <2>3. [Return(pg, "auto") EXCEPT !.state = "error"] = Return(m, "auto") BY <1>1 DEF Return, PageStates
  <2> HIDE DEF m
  <2> QED BY <1>1, <1>4, <1>5, <1>6, <2>1, <2>2, <2>3
<1> QED BY <1>7, <1>8

LEMMA AskKeeps ==
  ASSUME Inv, NEW p \in Pages, NEW act \in {"save", "discard", "leave"}, Ask(p, act)
  PROVE  Inv'
<1> DEFINE pg == pages[p]
           level == IF act = "save" THEN pg.shown ELSE Original
           n == [pg EXCEPT !.act = act, !.level = level]
<1>1. /\ pg \in PageStates /\ PageOK(p, pg, doc, stored) /\ Told(p, pg, doc, stored)
      /\ InFlight(pg.base, pg.act, pg.calls["auto"], pg.calls["act"])
  BY PageFacts
<1>2. pg.act = "none" /\ pg.at = "open" BY DEF Ask, IsOpen
<1>3. level \in Bodies BY <1>1, PageFields, OriginalIsBody
<1>4. SetPage(p, n) /\ Beside BY CountIsNat DEF Ask, Beside, Inv
<1> HIDE DEF level
<1>5. /\ n \in PageStates /\ n.base = pg.base /\ n.seen = pg.seen /\ n.calls = pg.calls /\ n.at = pg.at /\ n.act = act
  BY <1>1, <1>3 DEF PageStates
<1> HIDE DEF n
<1>6. InFlight(n.base, n.act, n.calls["auto"], n.calls["act"])
  BY <1>1, <1>2, <1>5, IdleIsOK DEF InFlight
<1>7. PageOK(p, n, doc, stored) BY <1>1, <1>2, <1>5, <1>6 DEF PageOK, Told
<1> QED BY <1>4, <1>7, PageKeepsInv

\* A page that sends a request of its own while nothing else is on the wire.
LEMMA SendKeeps ==
  ASSUME Inv, NEW p \in Pages, NEW act \in {"save", "discard", "leave"}, Ready(p, act),
         NEW q \in Requests, q.by = p, q.revision = pages[p].base.revision,
         q.kind = "autosave" => q.base = pages[p].base.body,
         act # "leave" => q.kind = act,
         Beside, SetPage(p, Send(pages[p], "act", q))
  PROVE  Inv'
<1> DEFINE pg == pages[p]
           c == [request |-> q, answer |-> None]
           n == [pg EXCEPT !.calls["act"] = c]
<1>1. /\ pg \in PageStates /\ Told(p, pg, doc, stored) /\ Known(pg.base, doc, stored)
      /\ CallOK(p, pg.calls["auto"], doc, stored)
  BY PageFacts
<1>2. pg.at = "open" /\ pg.act = act /\ pg.calls["auto"] = Idle BY DEF Ready, IsOpen, Waiting
<1>3. Sent(q, doc, stored) BY <1>1 DEF Sent, Known
<1>4. c \in Calls /\ c.request = q /\ c.answer = None BY DEF Calls
<1>5. CallOK(p, c, doc, stored) BY <1>3, <1>4 DEF CallOK
<1> HIDE DEF c
<1>6. "auto" \in Kinds /\ "act" \in Kinds BY DEF Kinds
<1>7. /\ n \in PageStates /\ n.at = pg.at /\ n.act = pg.act /\ n.seen = pg.seen /\ n.base = pg.base
      /\ n.calls = [pg.calls EXCEPT !["act"] = c]
  BY <1>1, <1>4, <1>6, CallFields
<1>8. n.calls["act"] = c /\ n.calls["auto"] = pg.calls["auto"] BY <1>1, <1>6, <1>7, PageFields
<1>9. SetPage(p, n) BY DEF Send, c
<1> HIDE DEF n
<1>10. InFlight(n.base, n.act, n.calls["auto"], n.calls["act"])
  <2>1. pg.base.revision \in Nat BY <1>1, PageFields
  <2> QED BY <1>2, <1>4, <1>7, <1>8, <2>1, IdleIsOK DEF InFlight
<1>11. Told(p, n, doc, stored) BY <1>1, <1>5, <1>7, <1>8, <1>6, ToldAgain
<1> QED BY <1>2, <1>7, <1>9, <1>10, <1>11, PageKeepsInv DEF PageOK

LEMMA RequestFields ==
  ASSUME Inv, NEW p \in Pages, NEW kind \in {"autosave", "save", "discard"}, NEW level \in Bodies
  PROVE  LET q == Request(p, kind, level) r == [q EXCEPT !.base = Original] IN
         /\ q \in Requests /\ q.kind = kind /\ q.by = p /\ q.level = level
         /\ q.revision = pages[p].base.revision /\ q.base = pages[p].base.body
         /\ r \in Requests /\ r.kind = kind /\ r.by = p /\ r.level = level /\ r.revision = pages[p].base.revision
BY PageFacts, PageFields, OriginalIsBody DEF Request, Requests

\* A page whose Save or Discard is over.
LEMMA DoneKeeps ==
  ASSUME Inv, NEW p \in Pages, NEW m \in PageStates, pages[p].at = "open", pages[p].act \in {"save", "discard"},
         m.at = "open", m.seen = pages[p].seen, m.calls = pages[p].calls, Known(m.base, doc, stored),
         pages[p].calls["act"] # Idle \/ m.base = pages[p].base,
         Beside, SetPage(p, Done(m))
  PROVE  Inv'
<1> DEFINE pg == pages[p]
           n == Done(m)
<1>1. /\ pg \in PageStates /\ Told(p, pg, doc, stored) /\ CallOK(p, pg.calls["auto"], doc, stored)
      /\ InFlight(pg.base, pg.act, pg.calls["auto"], pg.calls["act"])
  BY PageFacts
<1>2. /\ n \in PageStates /\ n.at = "open" /\ n.seen = pg.seen /\ n.base = m.base /\ n.act = "none"
      /\ n.calls["auto"] = pg.calls["auto"] /\ n.calls["act"] = Idle
  BY DoneFields
<1> HIDE DEF n
<1>3. InFlight(n.base, n.act, n.calls["auto"], n.calls["act"])
  <2>1. pg.calls["auto"].request # None => m.base = pg.base BY <1>1 DEF InFlight
  <2> QED BY <1>1, <1>2, <2>1, IdleIsOK DEF InFlight
<1>4. Told(p, n, doc, stored) BY <1>1, <1>2, IdleIsOK, ToldAgain
<1> QED BY <1>2, <1>3, <1>4, PageKeepsInv DEF PageOK, n

LEMMA SendSaveKeeps ==
  ASSUME Inv, NEW p \in Pages, SendSave(p)
  PROVE  Inv'
<1> DEFINE pg == pages[p]
           q == [Request(p, "save", pg.level) EXCEPT !.base = Original]
<1>1. pg \in PageStates /\ Known(pg.base, doc, stored) BY PageFacts
<1>2. pg.at = "open" /\ pg.act = "save" /\ Ready(p, "save") BY DEF SendSave, Ready, IsOpen
<1>3. Beside BY DEF SendSave, Beside, Inv, Astray
<1>4. CASE pg.conflict
  <2>1. SetPage(p, Done(pg)) BY <1>4 DEF SendSave
  <2> QED BY <1>1, <1>2, <1>3, <2>1, DoneKeeps
<1>5. CASE ~pg.conflict
  <2>1. SetPage(p, Send(pg, "act", q)) BY <1>5 DEF SendSave
  <2>2. q \in Requests /\ q.kind = "save" /\ q.by = p /\ q.revision = pg.base.revision
    BY <1>1, PageFields, RequestFields
  <2> HIDE DEF q
  <2> QED BY <1>2, <1>3, <2>1, <2>2, SendKeeps
<1> QED BY <1>4, <1>5

LEMMA SendDiscardKeeps ==
  ASSUME Inv, NEW p \in Pages, SendDiscard(p)
  PROVE  Inv'
<1> DEFINE q == [Request(p, "discard", Original) EXCEPT !.base = Original]
<1>1. Ready(p, "discard") /\ SetPage(p, Send(pages[p], "act", q)) BY DEF SendDiscard
<1>2. Beside BY DEF SendDiscard, Beside, Inv
<1>3. q \in Requests /\ q.kind = "discard" /\ q.by = p /\ q.revision = pages[p].base.revision
  BY OriginalIsBody, RequestFields
<1> HIDE DEF q
<1> QED BY <1>1, <1>2, <1>3, SendKeeps

LEMMA ActAnsweredKeeps ==
  ASSUME Inv, NEW p \in Pages, ActAnswered(p)
  PROVE  Inv'
<1> DEFINE pg == pages[p]
           c == pg.calls["act"]
           view == c.answer.view
<1>1. /\ pg \in PageStates /\ Known(pg.base, doc, stored) /\ CallOK(p, c, doc, stored)
      /\ c \in Calls
  BY PageFacts, PageFields
<1>2. pg.at = "open" /\ pg.act \in {"save", "discard"} /\ c.answer # None BY DEF ActAnswered, IsOpen, Saving
<1>3. c # Idle /\ c.answer \in Answers /\ view \in Views BY <1>1, <1>2, IdleIsOK DEF Calls, Answers
<1>4. Beside
  <2>1. typed \in [Pages -> Bodies] BY DEF Inv
  <2>2. [f \in Fields |-> [typed[p][f] EXCEPT !.by = None]] \in Bodies
    <3>1. \A f \in Fields : typed[p][f] \in Values BY <2>1 DEF Bodies
    <3>2. \A v \in Values : [v EXCEPT !.by = None] \in Values BY DEF Values
    <3> QED BY <3>1, <3>2 DEF Bodies
  <2>3. typed' \in [Pages -> Bodies]
    <3>1. \/ typed' = typed
          \/ typed' = [typed EXCEPT ![p] = [f \in Fields |-> [typed[p][f] EXCEPT !.by = None]]]
      BY DEF ActAnswered
    <3> QED BY <2>1, <2>2, <3>1
  <2> QED BY <2>3 DEF ActAnswered, Beside, Inv, Astray
<1>5. CASE c.answer.status = "fail"
  <2>1. SetPage(p, Done(pg)) BY <1>5 DEF ActAnswered
  <2> QED BY <1>1, <1>2, <1>4, <2>1, DoneKeeps
<1>6. CASE c.answer.status # "fail"
  <2> DEFINE m == IF c.answer.status = "conflict" THEN Refused(pg, view)
                  ELSE IF pg.act = "save" THEN Drawn(pg, pg.shown, view)
                  ELSE Drawn(pg, view.body, view)
  <2>1. SetPage(p, Done(m)) BY <1>6 DEF ActAnswered
  <2>2. Known(view, doc, stored) BY <1>1, <1>2, <1>6 DEF CallOK
  <2>3. Known(Base(view), doc, stored) BY <2>2 DEF Base, Known
  <2>4. view.body \in Bodies /\ pg.shown \in Bodies BY <1>1, <1>3, PageFields DEF Views
  <2>5. m \in PageStates /\ m.at = pg.at /\ m.seen = pg.seen /\ m.calls = pg.calls /\ m.base = Base(view)
    <3>1. CASE c.answer.status = "conflict" BY <3>1, <1>1, <1>3, RefusedFields
    <3>2. CASE c.answer.status # "conflict" /\ pg.act = "save"
      <4>1. m = Drawn(pg, pg.shown, view) BY <3>2
      <4> HIDE DEF m, view
      <4> QED BY <4>1, <1>1, <1>3, <2>4, DrawnFields
    <3>3. CASE c.answer.status # "conflict" /\ pg.act # "save"
      <4>1. m = Drawn(pg, view.body, view) BY <3>3
      <4> HIDE DEF m, view
      <4> QED BY <4>1, <1>1, <1>3, <2>4, DrawnFields
    <3> QED BY <3>1, <3>2, <3>3
  <2> HIDE DEF m, view
  <2> QED BY <1>2, <1>3, <1>4, <2>1, <2>3, <2>5, DoneKeeps
<1> QED BY <1>5, <1>6

\* A page without a session, or whose session is over.
LEMMA SessionOK ==
  ASSUME NEW d, NEW st, DocOK(d, st), \A f \in Fields : Original[f] \in st,
         NEW p, NEW at \in {"away", "gone"}
  PROVE  PageOK(p, Session(at), d, st)
<1> DEFINE n == Session(at)
           cs == [k \in Kinds |-> Idle]
           b == [body |-> Original, revision |-> 0]
<1>1. cs \in [Kinds -> Calls] /\ cs["auto"] = Idle /\ cs["act"] = Idle BY IdleIsOK DEF Kinds
<1>2. b \in Bases /\ b.body = Original /\ b.revision = 0 BY OriginalIsBody DEF Bases
<1>3. n = [at |-> at, shown |-> Original, base |-> b, conflict |-> FALSE, target |-> FALSE, state |-> "live",
           draft |-> FALSE, act |-> "none", level |-> Original, seen |-> None, calls |-> cs]
  BY DEF Session
<1> HIDE DEF cs, b, n
<1>4. n \in PageStates BY <1>1, <1>2, <1>3, OriginalIsBody DEF PageStates
<1>5. n.base = b /\ n.act = "none" /\ n.seen = None /\ n.calls = cs BY <1>3
<1>6. Known(b, d, st)
  <2>1. d.revision \in Nat /\ d.revision >= 1 BY DEF DocOK, Docs
  <2> QED BY <2>1, <1>2 DEF Known
<1>7. Told(p, n, d, st) BY <1>1, <1>5, <1>6, IdleIsOK DEF Told, Kinds
<1>8. InFlight(n.base, n.act, n.calls["auto"], n.calls["act"]) BY <1>1, <1>5, IdleIsOK DEF InFlight
<1> QED BY <1>1, <1>4, <1>5, <1>7, <1>8 DEF PageOK, n

LEMMA EndSessionKeeps ==
  ASSUME Inv, NEW p \in Pages, EndSession(p), UNCHANGED <<doc, canonical, stored, late, typed, astray, events>>
  PROVE  Inv'
<1>1. pages[p].shown \in Bodies BY PageFacts, PageFields
<1>2. Beside BY <1>1 DEF EndSession, Beside, Inv
<1>3. PageOK(p, Session("gone"), doc, stored) BY SessionOK DEF Inv
<1> QED BY <1>2, <1>3, PageKeepsInv DEF EndSession

LEMMA SendLeaveKeeps ==
  ASSUME Inv, NEW p \in Pages, SendLeave(p)
  PROVE  Inv'
<1> DEFINE q == Request(p, "autosave", pages[p].shown)
           send == Unsynced(pages[p]) /\ ~pages[p].conflict
<1>1. Ready(p, "leave") BY DEF SendLeave
<1>2. CASE send
  <2>1. SetPage(p, Send(pages[p], "act", q)) /\ Beside BY <1>2 DEF SendLeave, Beside, Inv
  <2>2. pages[p].shown \in Bodies BY PageFacts, PageFields
  <2>3. q \in Requests /\ q.by = p /\ q.revision = pages[p].base.revision /\ q.base = pages[p].base.body
    BY <2>2, PageFacts, PageFields DEF Request, Requests
  <2> HIDE DEF q
  <2> QED BY <1>1, <2>1, <2>3, SendKeeps
<1>3. CASE ~send
  <2>1. EndSession(p) /\ UNCHANGED <<doc, canonical, stored, late, typed, astray, events>> BY <1>3 DEF SendLeave
  <2> QED BY <2>1, EndSessionKeeps
<1> QED BY <1>2, <1>3

\* What a page leaves on the wire is what it had sent, or its board on its base.
LEMMA LeftBehind ==
  ASSUME Inv, NEW p \in Pages, NEW q \in Pending(pages[p]) \cup Flush(p)
  PROVE  q \in Requests /\ q.by = p /\ Sent(q, doc, stored)
<1>1. CASE q \in Pending(pages[p])
  <2>1. PICK k \in Kinds : Waiting(pages[p], k) /\ q = pages[p].calls[k].request BY <1>1 DEF Pending
  <2>2. pages[p].calls[k] \in Calls /\ CallOK(p, pages[p].calls[k], doc, stored)
    BY PageFacts, PageFields DEF Told
  <2>3. q # None BY <2>1, PageFacts
  <2> QED BY <2>1, <2>2, <2>3 DEF Calls, CallOK
<1>2. CASE q \in Flush(p)
  <2>1. q = Request(p, "autosave", pages[p].shown) BY <1>2 DEF Flush
  <2>2. pages[p].shown \in Bodies /\ Known(pages[p].base, doc, stored) BY PageFacts, PageFields
  <2>3. /\ q \in Requests /\ q.by = p /\ q.kind = "autosave"
        /\ q.revision = pages[p].base.revision /\ q.base = pages[p].base.body
    BY <2>1, <2>2, PageFacts, PageFields DEF Request, Requests
  <2> QED BY <2>2, <2>3 DEF Sent, Known
<1> QED BY <1>1, <1>2

LEMMA UnloadKeeps ==
  ASSUME Inv, NEW p \in Pages, Unload(p)
  PROVE  Inv'
<1> DEFINE pg == pages[p]
           cs == [k \in Kinds |-> Idle]
           n == Ended(pg, "unloaded")
<1>1. pg \in PageStates /\ Known(pg.base, doc, stored) BY PageFacts
<1>2. cs \in [Kinds -> Calls] /\ cs["auto"] = Idle /\ cs["act"] = Idle BY IdleIsOK DEF Kinds
<1>3. n = [pg EXCEPT !.at = "unloaded", !.seen = None, !.act = "none", !.level = Original, !.calls = cs] BY DEF Ended
<1> HIDE DEF cs
<1>4. /\ n \in PageStates /\ n.at = "unloaded" /\ n.base = pg.base /\ n.seen = None /\ n.act = "none" /\ n.calls = cs
  BY <1>1, <1>2, <1>3, OriginalIsBody DEF PageStates
<1>5. SetPage(p, n) BY DEF Unload
<1> HIDE DEF n
<1>6. Told(p, n, doc, stored) BY <1>1, <1>2, <1>4, IdleIsOK DEF Told, Kinds
<1>7. InFlight(n.base, n.act, n.calls["auto"], n.calls["act"]) BY <1>2, <1>4, IdleIsOK DEF InFlight
<1>8. Beside
  <2>1. PICK arriving \in SUBSET (Pending(pg) \cup Flush(p)) : late' = late \cup arriving BY DEF Unload
  <2>2. late' \subseteq Requests /\ \A q \in late' : Sent(q, doc, stored) BY <2>1, LeftBehind DEF Inv
  <2> QED BY <2>2, CountIsNat DEF Unload, Beside, Inv
<1> QED BY <1>2, <1>4, <1>5, <1>6, <1>7, <1>8, PageKeepsInv DEF PageOK

\* The board a page opens with; the base is the document as it is.
LEMMA BoardIsBody ==
  ASSUME Inv, NEW p \in Pages, NEW board \in Boards(p)
  PROVE  board \in Bodies
<1>1. \A q \in Pages : pages[q].shown \in Bodies BY PageFacts, PageFields
<1>2. doc.body \in Bodies BY DEF Inv, DocOK, Docs
<1>3. Preserved(p) \subseteq Bodies BY <1>1 DEF Preserved, Drafts, Inv
<1> QED BY <1>1, <1>2, <1>3 DEF Boards

\* The page that opens with a board, and the others, whose draft may be cleared.
Opened(p, board) == [Drawn(pages[p], board, View(doc, canonical)) EXCEPT !.at = "open"]

LEMMA OpenPages ==
  ASSUME Inv, NEW p \in Pages, NEW board \in Bodies
  PROVE  LET n == Opened(p, board) IN
         /\ n \in PageStates /\ n.at = "open" /\ n.shown = board /\ n.draft
         /\ n.base = [body |-> doc.body, revision |-> doc.revision]
         /\ PageOK(p, n, doc, stored)
<1> DEFINE v == View(doc, canonical)
           m == Drawn(pages[p], board, v)
           n == [m EXCEPT !.at = "open"]
<1>1. pages[p] \in PageStates /\ Known(pages[p].base, doc, stored) BY PageFacts
<1>2. v \in Views /\ Known(v, doc, stored) /\ Base(v) = [body |-> doc.body, revision |-> doc.revision]
  BY ViewIsKnown DEF Inv
<1> HIDE DEF v
<1>3. /\ m \in PageStates /\ m.act = pages[p].act /\ m.seen = pages[p].seen /\ m.calls = pages[p].calls
      /\ m.shown = board /\ m.base = Base(v) /\ m.draft
  BY <1>1, <1>2, DrawnFields
<1> HIDE DEF m
<1>4. /\ n \in PageStates /\ n.at = "open" /\ n.act = m.act /\ n.seen = m.seen /\ n.calls = m.calls
      /\ n.shown = m.shown /\ n.base = m.base /\ n.draft = m.draft
  BY <1>3 DEF PageStates
<1>5. n = Opened(p, board) BY DEF Opened, m, v
<1> HIDE DEF n
<1>6. Known(n.base, doc, stored) /\ n.base.revision >= pages[p].base.revision
  <2>1. n.base.body = doc.body /\ n.base.revision = doc.revision BY <1>2, <1>3, <1>4
  <2>2. pages[p].base.revision <= doc.revision BY <1>1 DEF Known
  <2>3. doc.revision \in Nat /\ \A f \in Fields : doc.body[f] \in stored BY DEF Inv, DocOK, Docs
  <2> QED BY <2>1, <2>2, <2>3, <1>1, PageFields DEF Known
<1>7. PageOK(p, n, doc, stored) BY <1>3, <1>4, <1>6, SameCalls
<1> QED BY <1>2, <1>3, <1>4, <1>5, <1>7

LEMMA ClearedPages ==
  ASSUME Inv, NEW q \in Pages
  PROVE  LET n == [pages[q] EXCEPT !.draft = FALSE] IN
         /\ n \in PageStates /\ PageOK(q, n, doc, stored)
         /\ n.at = pages[q].at /\ n.shown = pages[q].shown /\ n.base = pages[q].base /\ n.act = pages[q].act
         /\ n.calls = pages[q].calls /\ n.level = pages[q].level
<1> DEFINE n == [pages[q] EXCEPT !.draft = FALSE]
<1>1. pages[q] \in PageStates /\ Known(pages[q].base, doc, stored) BY PageFacts
<1>2. /\ n \in PageStates /\ n.at = pages[q].at /\ n.shown = pages[q].shown /\ n.base = pages[q].base
      /\ n.act = pages[q].act /\ n.seen = pages[q].seen /\ n.calls = pages[q].calls /\ n.level = pages[q].level
  BY <1>1 DEF PageStates
<1> HIDE DEF n
<1>3. PageOK(q, n, doc, stored) BY <1>1, <1>2, SameCalls, PageFields
<1> QED BY <1>2, <1>3 DEF n

\* What an opening makes of every page.
LEMMA OpenStep ==
  ASSUME Inv, NEW p \in Pages, Open(p)
  PROVE  \E board \in Boards(p) :
           /\ board \in Bodies
           /\ pages'[p] = Opened(p, board)
           /\ \A q \in Pages \ {p} : \/ pages'[q] = pages[q]
                                     \/ pages[q].shown = doc.body /\ pages'[q] = [pages[q] EXCEPT !.draft = FALSE]
           /\ Astray(p, board # doc.body /\ ~Restorable(pages[p]))
           /\ pages' = [q \in Pages |-> pages'[q]]
<1>1. PICK board \in Boards(p) :
        /\ pages' = [q \in Pages |->
             IF q = p THEN Opened(p, board)
             ELSE IF pages[q].shown = doc.body THEN [pages[q] EXCEPT !.draft = FALSE]
             ELSE pages[q]]
        /\ Astray(p, board # doc.body /\ ~Restorable(pages[p]))
  BY DEF Open, Opened
<1>2. board \in Bodies BY BoardIsBody
<1>3. pages'[p] = Opened(p, board) BY <1>1
<1>4. \A q \in Pages \ {p} : \/ pages'[q] = pages[q]
                             \/ pages[q].shown = doc.body /\ pages'[q] = [pages[q] EXCEPT !.draft = FALSE]
  BY <1>1
<1>5. pages' = [q \in Pages |-> pages'[q]] BY <1>1
<1> QED BY <1>1, <1>2, <1>3, <1>4, <1>5

LEMMA OpenKeeps ==
  ASSUME Inv, NEW p \in Pages, Open(p)
  PROVE  Inv'
<1>1. PICK board \in Boards(p) :
        /\ board \in Bodies
        /\ pages'[p] = Opened(p, board)
        /\ \A q \in Pages \ {p} : \/ pages'[q] = pages[q]
                                  \/ pages[q].shown = doc.body /\ pages'[q] = [pages[q] EXCEPT !.draft = FALSE]
        /\ Astray(p, board # doc.body /\ ~Restorable(pages[p]))
        /\ pages' = [q \in Pages |-> pages'[q]]
  BY OpenStep
<1>2. \A q \in Pages : pages'[q] \in PageStates /\ PageOK(q, pages'[q], doc, stored)
  <2>1. SUFFICES ASSUME NEW q \in Pages PROVE pages'[q] \in PageStates /\ PageOK(q, pages'[q], doc, stored) OBVIOUS
  <2>2. CASE q = p BY <2>2, <1>1, OpenPages
  <2>3. CASE q # p /\ pages'[q] = pages[q] BY <2>3, PageFacts
  <2>4. CASE q # p /\ pages'[q] = [pages[q] EXCEPT !.draft = FALSE] BY <2>4, ClearedPages
  <2> QED BY <1>1, <2>2, <2>3, <2>4
<1>3. pages' \in [Pages -> PageStates] BY <1>1, <1>2
<1>4. Beside
  <2>1. branches' \subseteq Bodies
    <3>1. pages[p].shown \in Bodies BY PageFacts, PageFields
    <3> QED BY <3>1 DEF Open, Archived, Inv
  <2> QED BY <1>1, <2>1 DEF Open, Beside, Inv, Astray
<1> QED BY <1>2, <1>3, <1>4, PagesKeepInv

----------------------------------------------------------------------------
(* Requests that are served or lost *)

LEMMA AnswerFields ==
  ASSUME NEW pg \in PageStates, NEW k \in Kinds, NEW a \in Answers
  PROVE  LET n == [pg EXCEPT !.calls[k].answer = a]
             c == [pg.calls[k] EXCEPT !.answer = a]
         IN /\ n \in PageStates /\ c \in Calls
            /\ c.request = pg.calls[k].request /\ c.answer = a
            /\ n.at = pg.at /\ n.act = pg.act /\ n.level = pg.level /\ n.seen = pg.seen
            /\ n.shown = pg.shown /\ n.base = pg.base /\ n.draft = pg.draft
            /\ n.calls = [pg.calls EXCEPT ![k] = c]
<1> DEFINE c == [pg.calls[k] EXCEPT !.answer = a]
           n == [pg EXCEPT !.calls[k] = c]
<1>1. pg.calls \in [Kinds -> Calls] /\ pg.calls[k] \in Calls BY PageFields
<1>2. c \in Calls /\ c.request = pg.calls[k].request /\ c.answer = a BY <1>1 DEF Calls
<1>3. [pg EXCEPT !.calls[k].answer = a] = n BY <1>1 DEF PageStates
<1> HIDE DEF c
<1>4. /\ n \in PageStates
      /\ n.at = pg.at /\ n.act = pg.act /\ n.level = pg.level /\ n.seen = pg.seen
      /\ n.shown = pg.shown /\ n.base = pg.base /\ n.draft = pg.draft
      /\ n.calls = [pg.calls EXCEPT ![k] = c]
  BY <1>2, CallFields
<1> QED BY <1>2, <1>3, <1>4 DEF c

LEMMA AnswerOK ==
  ASSUME NEW p, NEW pg, NEW d, NEW st, PageOK(p, pg, d, st), NEW k \in Kinds, NEW a \in Answers,
         pg.calls[k].request # None,
         a.status # "fail" => Known(a.view, d, st),
         a.status = "ok" /\ pg.calls[k].request.kind = "autosave" =>
           \A f \in Fields : pg.calls[k].request.level[f] \in st,
         a.status = "ok" /\ pg.calls[k].request.kind = "save" => a.view.body = pg.calls[k].request.level
  PROVE  PageOK(p, [pg EXCEPT !.calls[k].answer = a], d, st)
<1> DEFINE n == [pg EXCEPT !.calls[k].answer = a]
           c == [pg.calls[k] EXCEPT !.answer = a]
<1>1. pg \in PageStates /\ Told(p, pg, d, st) /\ pg.calls \in [Kinds -> Calls] BY PageFields DEF PageOK
<1>2. /\ n \in PageStates /\ c \in Calls
      /\ c.request = pg.calls[k].request /\ c.answer = a
      /\ n.at = pg.at /\ n.act = pg.act /\ n.seen = pg.seen /\ n.base = pg.base
      /\ n.calls = [pg.calls EXCEPT ![k] = c]
  BY <1>1, AnswerFields
<1> HIDE DEF n, c
<1>3. CallOK(p, c, d, st) BY <1>1, <1>2 DEF CallOK, Told
<1>4. n.calls[k] = c /\ \A j \in Kinds \ {k} : n.calls[j] = pg.calls[j] BY <1>1, <1>2
<1>5. Told(p, n, d, st) BY <1>1, <1>2, <1>3, <1>4 DEF Told
<1>6. pg.calls[k] # Idle /\ c # Idle BY <1>2, IdleIsOK
<1>7. InFlight(n.base, n.act, n.calls["auto"], n.calls["act"])
  <2>1. InFlight(pg.base, pg.act, pg.calls["auto"], pg.calls["act"]) BY DEF PageOK
  <2>2. CASE k = "auto"
    <3>1. n.calls["auto"] = c /\ n.calls["act"] = pg.calls["act"] BY <1>4, <2>2 DEF Kinds
    <3> QED BY <2>1, <2>2, <3>1, <1>2 DEF InFlight
  <2>3. CASE k = "act"
    <3>1. n.calls["act"] = c /\ n.calls["auto"] = pg.calls["auto"] BY <1>4, <2>3 DEF Kinds
    <3> QED BY <2>1, <2>3, <3>1, <1>2, <1>6 DEF InFlight
  <2> QED BY <2>2, <2>3 DEF Kinds
<1>8. pg.at = "open" BY <1>6 DEF PageOK, Kinds
<1> QED BY <1>2, <1>5, <1>7, <1>8 DEF PageOK, n

LEMMA FailureIsAnswer == Failure \in Answers /\ Failure.status = "fail"
<1>1. [body |-> Original, revision |-> 0, moved |-> FALSE, saved |-> FALSE] \in Views BY OriginalIsBody DEF Views
<1> QED BY <1>1 DEF Failure, Answers

LEMMA LoseKeeps ==
  ASSUME Inv, NEW p \in Pages, NEW c \in Kinds, Lose(p, c)
  PROVE  Inv'
<1> DEFINE n == [pages[p] EXCEPT !.calls[c].answer = Failure]
<1>1. SetPage(p, n) /\ Beside BY CountIsNat DEF Lose, Beside, Inv
<1>2. PageOK(p, n, doc, stored) BY PageFacts, AnswerOK, FailureIsAnswer DEF Lose
<1> HIDE DEF n
<1> QED BY <1>1, <1>2, PageKeepsInv

\* The document of a served request, for pages and requests that only hear of it.
LEMMA ServedKeeps ==
  ASSUME Inv, NEW q \in Requests, Sent(q, doc, stored), Apply(q), late' \subseteq late
  PROVE  /\ Served(q, doc', canonical', stored', Outcome(q).status)
         /\ stored \subseteq stored' /\ stored' \subseteq Values
         /\ \A p \in Pages : PageOK(p, pages[p], doc', stored')
         /\ \A r \in late' : Sent(r, doc', stored')
<1>1. /\ Served(q, doc', canonical', stored', Outcome(q).status)
      /\ stored \subseteq stored' /\ stored' \subseteq Values
  BY ApplyServes
<1>2. doc \in Docs /\ doc' \in Docs /\ Grows(doc, doc') BY <1>1 DEF Inv, Served, DocOK
<1>3. \A p \in Pages : PageOK(p, pages[p], doc', stored') BY <1>1, <1>2, PageFacts, PageGrows
<1>4. \A r \in late' : Sent(r, doc', stored') BY <1>1, <1>2, SentGrows DEF Inv
<1> QED BY <1>1, <1>3, <1>4

\* The answer to a call, from the document as the call left it.
Reply(q) ==
  IF Outcome(q).status = "fail" THEN Failure
  ELSE [status |-> Outcome(q).status, view |-> View(doc', canonical')]

LEMMA ServeKeeps ==
  ASSUME Inv, NEW p \in Pages, NEW c \in Kinds, Serve(p, c)
  PROVE  Inv'
<1> DEFINE q == pages[p].calls[c].request
           n == [pages[p] EXCEPT !.calls[c].answer = Reply(q)]
<1>1. pages[p].calls[c] \in Calls /\ CallOK(p, pages[p].calls[c], doc, stored) /\ q # None
  BY PageFacts, PageFields DEF Serve, Told
<1>2. q \in Requests /\ Sent(q, doc, stored) BY <1>1 DEF Calls, CallOK
<1>3. Apply(q) /\ SetPage(p, n) /\ UNCHANGED <<late, branches, typed, astray, events>> BY DEF Serve, Reply
<1>4. /\ Served(q, doc', canonical', stored', Outcome(q).status)
      /\ stored \subseteq stored' /\ stored' \subseteq Values
      /\ \A r \in Pages : PageOK(r, pages[r], doc', stored')
      /\ \A r \in late' : Sent(r, doc', stored')
  BY <1>2, <1>3, ServedKeeps
<1>5. DocOK(doc', stored') BY <1>4 DEF Served
<1>6. /\ View(doc', canonical') \in Views
      /\ View(doc', canonical').body = doc'.body
      /\ Known(View(doc', canonical'), doc', stored')
  BY <1>5, ViewIsKnown
<1>7. /\ Reply(q) \in Answers
      /\ Reply(q).status = Outcome(q).status
      /\ Reply(q).status # "fail" => Reply(q).view = View(doc', canonical')
  <2>1. CASE Outcome(q).status = "fail"
    <3>1. Reply(q) = Failure BY <2>1 DEF Reply
    <3> QED BY <3>1, <2>1, FailureIsAnswer
  <2>2. CASE Outcome(q).status # "fail"
    <3>1. Reply(q) = [status |-> Outcome(q).status, view |-> View(doc', canonical')] BY <2>2 DEF Reply
    <3>2. Outcome(q).status \in {"ok", "conflict", "fail"} BY <1>4 DEF Served
    <3> QED BY <3>1, <3>2, <1>6 DEF Answers
  <2> QED BY <2>1, <2>2
<1>8. PageOK(p, n, doc', stored') BY <1>1, <1>4, <1>6, <1>7, AnswerOK DEF Served
<1> HIDE DEF n, q
<1>9. pages' \in [Pages -> PageStates] /\ \A r \in Pages : pages'[r] = IF r = p THEN n ELSE pages[r]
  BY <1>3, <1>8 DEF SetPage, Inv, PageOK
<1>10. \A r \in Pages : PageOK(r, pages'[r], doc', stored') BY <1>4, <1>8, <1>9
<1> QED BY <1>3, <1>4, <1>5, <1>9, <1>10 DEF Inv, Served

LEMMA ServeLateKeeps ==
  ASSUME Inv, NEW q \in late, ServeLate(q)
  PROVE  Inv'
<1>1. q \in Requests /\ Sent(q, doc, stored) BY DEF Inv
<1>2. Apply(q) /\ late' = late \ {q} /\ UNCHANGED <<pages, branches, typed, astray, events>> BY DEF ServeLate
<1>3. /\ Served(q, doc', canonical', stored', Outcome(q).status)
      /\ stored \subseteq stored' /\ stored' \subseteq Values
      /\ \A r \in Pages : PageOK(r, pages[r], doc', stored')
      /\ \A r \in late' : Sent(r, doc', stored')
  BY <1>1, <1>2, ServedKeeps
<1> QED BY <1>2, <1>3 DEF Inv, Served

LEMMA PublishKeeps ==
  ASSUME Inv, NEW f \in Fields, Publish(f)
  PROVE  Inv'
<1> DEFINE level == IF canonical = None THEN Original ELSE canonical
           v == [by |-> None, n |-> events + 1]
<1>1. level \in Bodies BY OriginalIsBody DEF Inv
<1>2. v \in Values BY DEF Inv, Values
<1>3. [level EXCEPT ![f] = v] \in Bodies BY <1>1, <1>2 DEF Bodies
<1>4. canonical' \in Bodies \cup {None} BY <1>3 DEF Publish
<1>5. Beside /\ pages' = pages BY <1>4, CountIsNat DEF Publish, Beside, Inv
<1> QED BY <1>5, PagesKeepInv, PageFacts DEF Inv

LEMMA LeaveAnsweredKeeps ==
  ASSUME Inv, NEW p \in Pages, LeaveAnswered(p)
  PROVE  Inv'
BY EndSessionKeeps DEF LeaveAnswered

----------------------------------------------------------------------------
(* The invariant *)

LEMMA InitInv == ASSUME Init PROVE Inv
<1>1. /\ canonical \in Bodies \cup {None} /\ stored = {Original[f] : f \in Fields}
      /\ doc = [body |-> Original, revision |-> 1, saved |-> IF canonical = None THEN 0 ELSE 1, baseline |-> canonical]
      /\ canonical \in {Original, None}
  BY OriginalIsBody DEF Init
<1>2. DocOK(doc, stored)
  <2>1. CASE canonical = None BY <2>1, <1>1, OriginalIsBody DEF DocOK, Docs
  <2>2. CASE canonical # None BY <2>2, <1>1, OriginalIsBody DEF DocOK, Docs
  <2> QED BY <2>1, <2>2
<1>3. stored \subseteq Values /\ \A f \in Fields : Original[f] \in stored BY <1>1, OriginalIsBody DEF Bodies
<1>4. \A p \in Pages : PageOK(p, Session("away"), doc, stored) BY <1>2, <1>3, SessionOK
<1>5. pages \in [Pages -> PageStates] /\ \A p \in Pages : PageOK(p, pages[p], doc, stored)
  BY <1>4 DEF Init, PageOK
<1> QED BY <1>1, <1>2, <1>3, <1>5, OriginalIsBody DEF Init, Inv

LEMMA NextInv == ASSUME Inv, [Next]_vars PROVE Inv'
<1>1. CASE UNCHANGED vars
  <2>1. Beside /\ pages' = pages BY <1>1 DEF vars, Beside, Inv
  <2> QED BY <2>1, PagesKeepInv, PageFacts DEF Inv
<1>2. ASSUME NEW p \in Pages, SendLeave(p) PROVE Inv' BY <1>2, SendLeaveKeeps
<1>3. ASSUME NEW p \in Pages, Open(p) PROVE Inv' BY <1>3, OpenKeeps
<1>4. ASSUME NEW p \in Pages, StartAutosave(p) PROVE Inv' BY <1>4, StartAutosaveKeeps
<1>5. ASSUME NEW p \in Pages, AutosaveAnswered(p) PROVE Inv' BY <1>5, AutosaveAnsweredKeeps
<1>6. ASSUME NEW p \in Pages, Retry(p) \/ PollRead(p) \/ PollApply(p) PROVE Inv'
  BY <1>6, RetryKeeps, PollReadKeeps, PollApplyKeeps
<1>7. ASSUME NEW p \in Pages, SendSave(p) \/ SendDiscard(p) \/ ActAnswered(p) PROVE Inv'
  BY <1>7, SendSaveKeeps, SendDiscardKeeps, ActAnsweredKeeps
<1>8. ASSUME NEW p \in Pages, LeaveAnswered(p) \/ Unload(p) PROVE Inv' BY <1>8, LeaveAnsweredKeeps, UnloadKeeps
<1>9. ASSUME NEW p \in Pages, NEW f \in Fields, Edit(p, f) PROVE Inv' BY <1>9, EditKeeps
<1>10. ASSUME NEW p \in Pages, NEW act \in {"save", "discard", "leave"}, Ask(p, act) PROVE Inv' BY <1>10, AskKeeps
<1>11. ASSUME NEW p \in Pages, NEW c \in Kinds, Serve(p, c) \/ Lose(p, c) PROVE Inv'
  BY <1>11, ServeKeeps, LoseKeeps
<1>12. ASSUME NEW q \in late, ServeLate(q) PROVE Inv' BY <1>12, ServeLateKeeps
<1>13. ASSUME NEW f \in Fields, Publish(f) PROVE Inv' BY <1>13, PublishKeeps
<1> QED BY <1>1, <1>2, <1>3, <1>4, <1>5, <1>6, <1>7, <1>8, <1>9, <1>10, <1>11, <1>12, <1>13 DEF Next

\* Documents, pages, requests and answers agree on every revision (the strengthening all
\* results below use).
THEOREM InvHolds == Spec => []Inv
<1>1. Init => Inv BY InitInv
<1>2. Inv /\ [Next]_vars => Inv' BY NextInv
<1> QED BY <1>1, <1>2, PTL DEF Spec

\* The types, for any tabs and fields; no page holds a revision the document has not
\* reached (dbAutosaveEditorDocument, dbSaveEditorDocument, dbDiscardEditorDocument).
THEOREM TypeCorrect == Spec => []TypeOK
<1>1. Inv => TypeOK
  <2>1. Inv => \A p \in Pages : pages[p].base.revision <= doc.revision BY PageFacts DEF Known
  <2> QED BY <2>1 DEF Inv, TypeOK, DocOK
<1> QED BY <1>1, InvHolds, PTL

\* A document whose saved_revision is its revision holds what was last published, and
\* saved_revision is 0 exactly until the first publication (the writes of the three handlers).
THEOREM CleanIsPublished == Spec => []CleanMeansPublished
<1>1. Inv => CleanMeansPublished BY DEF Inv, DocOK, CleanMeansPublished
<1> QED BY <1>1, InvHolds, PTL

\* Whoever holds the current revision, a page or an autosave still on the wire, holds the
\* body the document has (base_revision in the requests of LevelEditor.tsx).
THEOREM RevisionsNameBodies == Spec => []RevisionNamesBody
<1>1. Inv => RevisionNamesBody
  <2>1. Inv => \A p \in Pages : pages[p].base.revision = doc.revision => pages[p].base.body = doc.body
    BY PageFacts DEF Known
  <2> QED BY <2>1 DEF Inv, Sent, RevisionNamesBody
<1> QED BY <1>1, InvHolds, PTL

----------------------------------------------------------------------------
(* Nothing typed is lost *)

HasBoard(pg) == pg.at \in {"open", "unloaded"} /\ pg.draft

\* Every value of the board `pg` kept is stored, kept by `n`, or in a branch.
Follows(pg, n, st, br) ==
  HasBoard(pg) => \A f \in Fields :
    \/ pg.shown[f] \in st
    \/ HasBoard(n) /\ n.shown[f] = pg.shown[f]
    \/ \E body \in br : body[f] = pg.shown[f]

LEMMA FollowsKeeps ==
  ASSUME Inv, NothingTypedIsLost, stored \subseteq stored',
         \A body \in branches : body \in branches' \/ \A f \in Fields : body[f] \in stored',
         \A p \in Pages : \/ typed'[p] = typed[p] /\ Follows(pages[p], pages'[p], stored', branches')
                         \/ \A f \in Fields : typed'[p][f].by = None
  PROVE  NothingTypedIsLost'
<1>1. SUFFICES ASSUME NEW p \in Pages, NEW f \in Fields
               PROVE  \/ typed'[p][f].by = None
                      \/ typed'[p][f] \in stored'
                      \/ HasBoard(pages'[p]) /\ pages'[p].shown[f] = typed'[p][f]
                      \/ \E body \in branches' : body[f] = typed'[p][f]
  BY DEF NothingTypedIsLost, HasBoard
<1>2. CASE typed'[p] = typed[p] /\ Follows(pages[p], pages'[p], stored', branches')
  <2>1. \/ typed[p][f].by = None
        \/ typed[p][f] \in stored
        \/ HasBoard(pages[p]) /\ pages[p].shown[f] = typed[p][f]
        \/ \E body \in branches : body[f] = typed[p][f]
    BY DEF NothingTypedIsLost, HasBoard
  <2> QED BY <1>2, <2>1 DEF Follows
<1> QED BY <1>2

\* A page whose board is drawn again, with the values it does not know as stored.
LEMMA OnePageFollows ==
  ASSUME Inv, NothingTypedIsLost, NEW p \in Pages, NEW n, SetPage(p, n),
         UNCHANGED <<stored, branches, typed>>, Follows(pages[p], n, stored, branches)
  PROVE  NothingTypedIsLost'
<1>1. \A q \in Pages : pages'[q] = IF q = p THEN n ELSE pages[q] BY DEF SetPage, Inv
<1>2. \A q \in Pages : Follows(pages[q], pages'[q], stored', branches') BY <1>1 DEF Follows
<1> QED BY <1>2, FollowsKeeps

LEMMA SameBoard ==
  ASSUME NEW pg, NEW n, n.at = pg.at \/ n.at \in {"open", "unloaded"}, n.draft = pg.draft \/ n.draft, n.shown = pg.shown, NEW st, NEW br
  PROVE  Follows(pg, n, st, br)
BY DEF Follows, HasBoard

LEMMA EditLosesNothing ==
  ASSUME Inv, NothingTypedIsLost, NEW p \in Pages, NEW f \in Fields, Edit(p, f)
  PROVE  NothingTypedIsLost'
<1> DEFINE v == [by |-> p, n |-> typed[p][f].n + 1]
           n == [pages[p] EXCEPT !.shown[f] = v, !.draft = TRUE]
<1>1. pages[p] \in PageStates /\ pages[p].shown \in Bodies BY PageFacts, PageFields
<1>2. n.at = "open" /\ n.draft /\ n.shown = [pages[p].shown EXCEPT ![f] = v]
  BY <1>1 DEF PageStates, Edit, IsOpen
<1>3. \A q \in Pages : pages'[q] = IF q = p THEN n ELSE pages[q] BY DEF Edit, SetPage, Inv
<1>4. UNCHANGED <<stored, branches>> BY DEF Edit
<1> HIDE DEF n
<1>5. \A q \in Pages, g \in Fields : typed'[q][g] = IF q = p /\ g = f THEN v ELSE typed[q][g] BY DEF Edit, Inv, Bodies
<1> HIDE DEF v
<1>6. n.shown[f] = v /\ \A g \in Fields \ {f} : n.shown[g] = pages[p].shown[g] BY <1>1, <1>2 DEF Bodies
<1>7. SUFFICES ASSUME NEW q \in Pages, NEW g \in Fields
               PROVE  \/ typed'[q][g].by = None
                      \/ typed'[q][g] \in stored'
                      \/ HasBoard(pages'[q]) /\ pages'[q].shown[g] = typed'[q][g]
                      \/ \E body \in branches' : body[g] = typed'[q][g]
  BY DEF NothingTypedIsLost, HasBoard
<1>8. CASE q = p /\ g = f BY <1>8, <1>2, <1>3, <1>5, <1>6 DEF HasBoard
<1>9. CASE ~(q = p /\ g = f)
  <2>1. \/ typed[q][g].by = None
        \/ typed[q][g] \in stored
        \/ HasBoard(pages[q]) /\ pages[q].shown[g] = typed[q][g]
        \/ \E body \in branches : body[g] = typed[q][g]
    BY DEF NothingTypedIsLost, HasBoard
  <2>2. typed'[q][g] = typed[q][g] BY <1>5, <1>9
  <2>3. HasBoard(pages[q]) => HasBoard(pages'[q]) BY <1>2, <1>3 DEF HasBoard
  <2>4. pages'[q].shown[g] = pages[q].shown[g] BY <1>3, <1>6, <1>9
  <2> QED BY <1>4, <2>1, <2>2, <2>3, <2>4
<1> QED BY <1>8, <1>9

LEMMA EndSessionLosesNothing ==
  ASSUME Inv, NothingTypedIsLost, NEW p \in Pages, EndSession(p), UNCHANGED <<stored, typed>>
  PROVE  NothingTypedIsLost'
<1>1. \A q \in Pages \ {p} : pages'[q] = pages[q] BY DEF EndSession, SetPage, Inv
<1>2. pages[p].draft => pages[p].shown \in branches' BY DEF EndSession
<1>3. branches \subseteq branches' BY DEF EndSession
<1>4. \A q \in Pages : Follows(pages[q], pages'[q], stored', branches') BY <1>1, <1>2 DEF Follows, HasBoard
<1> QED BY <1>3, <1>4, FollowsKeeps

LEMMA OpenLosesNothing ==
  ASSUME Inv, NothingTypedIsLost, NEW p \in Pages, Open(p)
  PROVE  NothingTypedIsLost'
<1>1. PICK board \in Boards(p) :
        /\ board \in Bodies
        /\ pages'[p] = Opened(p, board)
        /\ \A q \in Pages \ {p} : \/ pages'[q] = pages[q]
                                  \/ pages[q].shown = doc.body /\ pages'[q] = [pages[q] EXCEPT !.draft = FALSE]
  BY OpenStep
<1>2. stored' = stored /\ typed' = typed /\ branches' = (branches \ {doc.body}) \cup Archived(pages[p]) BY DEF Open
<1>3. \A f \in Fields : doc.body[f] \in stored BY DEF Inv, DocOK
<1>4. Follows(pages[p], pages'[p], stored', branches')
  <2>1. SUFFICES ASSUME HasBoard(pages[p]), pages[p].shown # doc.body PROVE Follows(pages[p], pages'[p], stored', branches')
    BY <1>2, <1>3 DEF Follows
  <2>2. HasDraft(pages[p]) BY <2>1 DEF Open, HasBoard, HasDraft
  <2>3. CASE Restorable(pages[p])
    <3>1. board = pages[p].shown BY <2>3 DEF Boards
    <3>2. pages'[p].at = "open" /\ pages'[p].shown = board /\ pages'[p].draft BY <1>1, OpenPages
    <3> QED BY <3>1, <3>2, SameBoard
  <2>4. CASE ~Restorable(pages[p])
    <3>1. pages[p].shown \in branches' BY <1>2, <2>2, <2>4 DEF Archived
    <3> QED BY <3>1 DEF Follows
  <2> QED BY <2>3, <2>4
<1>5. ASSUME NEW q \in Pages \ {p} PROVE Follows(pages[q], pages'[q], stored', branches')
  BY <1>1, <1>2, <1>3 DEF Follows
<1>6. \A body \in branches : body \in branches' \/ \A f \in Fields : body[f] \in stored' BY <1>2, <1>3
<1> QED BY <1>2, <1>4, <1>5, <1>6, FollowsKeeps

LEMMA AutosaveAnsweredLosesNothing ==
  ASSUME Inv, NothingTypedIsLost, NEW p \in Pages, AutosaveAnswered(p)
  PROVE  NothingTypedIsLost'
<1> DEFINE pg == pages[p]
           c == pg.calls["auto"]
           view == c.answer.view
           board == IF pg.shown = c.request.level THEN view.body ELSE Merge(c.request.level, pg.shown, view.body)
<1>1. /\ pg \in PageStates /\ pg.shown \in Bodies /\ CallOK(p, c, doc, stored)
      /\ InFlight(pg.base, pg.act, c, pg.calls["act"]) /\ c \in Calls /\ "auto" \in Kinds
  BY PageFacts, PageFields DEF Kinds
<1>2. c.request # None /\ c.answer \in Answers /\ c.request.kind = "autosave" /\ pg.at = "open"
  BY <1>1 DEF AutosaveAnswered, CallOK, Calls, InFlight, IsOpen
<1>3. UNCHANGED <<stored, branches, typed>> BY DEF AutosaveAnswered
<1>4. CASE c.answer.status = "ok"
  <2>1. view \in Views /\ view.body \in Bodies BY <1>2 DEF Answers, Views
  <2>2. board \in Bodies BY <1>1, <2>1, MergeIsBody
  <2>3. \A f \in Fields : c.request.level[f] \in stored
    <3>1. c.answer # None BY DEF AutosaveAnswered
    <3> QED BY <3>1, <1>1, <1>2, <1>4 DEF CallOK
  <2>4. \A f \in Fields : pg.shown[f] \in stored \/ board[f] = pg.shown[f]
    BY <1>1, <2>1, <2>3, MergeIsBody
  <2>5. SetPage(p, Return(Drawn(pg, board, view), "auto")) BY <1>4 DEF AutosaveAnswered, Acknowledged
  <2> HIDE DEF board, view
  <2> DEFINE m == Drawn(pg, board, view)
             n == Return(m, "auto")
  <2>6. m \in PageStates /\ m.at = "open" /\ m.shown = board /\ m.draft BY <1>1, <1>2, <2>1, <2>2, DrawnFields
  <2> HIDE DEF m
  <2>7. n.at = "open" /\ n.shown = board /\ n.draft BY <1>1, <2>6, CallFields, IdleIsOK DEF Return
  <2>8. SetPage(p, n) BY <2>5 DEF m
  <2> HIDE DEF n
  <2>9. Follows(pg, n, stored, branches) BY <2>4, <2>7 DEF Follows, HasBoard
  <2> QED BY <1>3, <2>8, <2>9, OnePageFollows
<1>5. CASE c.answer.status # "ok"
  <2> DEFINE m == Return(pg, "auto")
             n == [m EXCEPT !.state = "error"]
  <2>1. m \in PageStates /\ m.at = pg.at /\ m.shown = pg.shown /\ m.draft = pg.draft
    BY <1>1, CallFields, IdleIsOK DEF Return
  <2>2. SetPage(p, n) BY <1>5 DEF AutosaveAnswered
  <2> HIDE DEF m
  <2>3. n.at = pg.at /\ n.shown = pg.shown /\ n.draft = pg.draft BY <2>1 DEF PageStates
  <2> HIDE DEF n
  <2> QED BY <1>3, <2>2, <2>3, SameBoard, OnePageFollows
<1> QED BY <1>4, <1>5

LEMMA PollApplyLosesNothing ==
  ASSUME Inv, NothingTypedIsLost, NEW p \in Pages, PollApply(p)
  PROVE  NothingTypedIsLost'
<1> DEFINE pg == pages[p]
           v == pg.seen
           board == Polled(pg, v)
           m == IF v.revision <= pg.base.revision THEN pg ELSE Drawn(pg, board, v)
           n == [m EXCEPT !.seen = None]
<1>1. pg \in PageStates /\ pg.shown \in Bodies /\ Known(pg.base, doc, stored) /\ pg.at = "open"
  BY PageFacts, PageFields DEF PollApply, IsOpen
<1>2. v \in Views /\ v.body \in Bodies BY <1>1, PageFields DEF PollApply, Views
<1>3. /\ board \in Bodies
      /\ \A f \in Fields : pg.shown[f] \in stored \/ board[f] = pg.shown[f]
  BY <1>1, <1>2, MergeIsBody DEF Polled, Known
<1> HIDE DEF board
<1>4. /\ m \in PageStates /\ m.at = pg.at
      /\ pg.draft => m.draft
      /\ \A f \in Fields : pg.shown[f] \in stored \/ m.shown[f] = pg.shown[f]
  <2>1. CASE v.revision <= pg.base.revision BY <2>1, <1>1
  <2>2. CASE ~(v.revision <= pg.base.revision)
    <3>1. m = Drawn(pg, board, v) BY <2>2
    <3> HIDE DEF m, v
    <3> QED BY <3>1, <1>1, <1>2, <1>3, DrawnFields
  <2> QED BY <2>1, <2>2
<1>5. SetPage(p, n) /\ UNCHANGED <<stored, branches, typed>> BY DEF PollApply, board
<1> HIDE DEF m
<1>6. n.at = m.at /\ n.draft = m.draft /\ n.shown = m.shown BY <1>4 DEF PageStates
<1> HIDE DEF n
<1>7. HasBoard(pg) => HasBoard(n)
  <2>1. pg.draft => n.draft BY <1>4, <1>6
  <2>2. n.at = pg.at BY <1>4, <1>6
  <2> QED BY <2>1, <2>2 DEF HasBoard
<1>8. \A f \in Fields : pg.shown[f] \in stored \/ n.shown[f] = pg.shown[f] BY <1>4, <1>6
<1>9. Follows(pg, n, stored, branches) BY <1>7, <1>8 DEF Follows
<1> QED BY <1>5, <1>9, OnePageFollows

LEMMA DoneLosesNothing ==
  ASSUME Inv, NothingTypedIsLost, NEW p \in Pages, NEW m \in PageStates,
         m.at = pages[p].at, m.shown = pages[p].shown, m.draft = pages[p].draft \/ m.draft,
         SetPage(p, Done(m)), UNCHANGED <<stored, branches, typed>>
  PROVE  NothingTypedIsLost'
<1> DEFINE n == Done(m)
<1>1. n.at = m.at /\ n.shown = m.shown /\ n.draft = m.draft BY DoneFields
<1> HIDE DEF n
<1>2. Follows(pages[p], n, stored, branches) BY <1>1, SameBoard
<1> QED BY <1>2, OnePageFollows DEF n

LEMMA ActAnsweredLosesNothing ==
  ASSUME Inv, NothingTypedIsLost, NEW p \in Pages, ActAnswered(p)
  PROVE  NothingTypedIsLost'
<1> DEFINE pg == pages[p]
           c == pg.calls["act"]
           view == c.answer.view
           none == [f \in Fields |-> [typed[p][f] EXCEPT !.by = None]]
<1>1. pg \in PageStates /\ pg.shown \in Bodies /\ c \in Calls BY PageFacts, PageFields
<1>2. pg.act \in {"save", "discard"} /\ c.answer # None /\ UNCHANGED <<stored, branches>>
  BY DEF ActAnswered, Saving
<1>3. view \in Views /\ c.answer.status \in {"ok", "conflict", "fail"} BY <1>1, <1>2 DEF Calls, Answers
<1>4. CASE c.answer.status = "ok" /\ pg.act = "discard"
  <2>1. typed' = [typed EXCEPT ![p] = none] BY <1>4 DEF ActAnswered
  <2>2. typed \in [Pages -> Bodies] BY DEF Inv
  <2>3. \A f \in Fields : typed'[p][f].by = None
    <3>1. \A f \in Fields : typed[p][f] \in Values BY <2>2 DEF Bodies
    <3>2. \A x \in Values : [x EXCEPT !.by = None].by = None BY DEF Values
    <3> QED BY <2>1, <2>2, <3>1, <3>2
  <2>4. \A q \in Pages \ {p} : typed'[q] = typed[q] /\ pages'[q] = pages[q]
    BY <2>1, <2>2 DEF ActAnswered, SetPage, Inv
  <2>5. \A q \in Pages \ {p} : Follows(pages[q], pages'[q], stored', branches') BY <2>4 DEF Follows
  <2> QED BY <1>2, <2>3, <2>4, <2>5, FollowsKeeps
<1>5. CASE ~(c.answer.status = "ok" /\ pg.act = "discard")
  <2>1. typed' = typed BY <1>5 DEF ActAnswered
  <2>2. CASE c.answer.status = "fail"
    <3>1. SetPage(p, Done(pg)) BY <2>2 DEF ActAnswered
    <3> QED BY <1>1, <1>2, <2>1, <3>1, DoneLosesNothing
  <2>3. CASE c.answer.status = "conflict"
    <3>1. SetPage(p, Done(Refused(pg, view))) BY <2>3 DEF ActAnswered
    <3> HIDE DEF view
    <3> DEFINE m == Refused(pg, view)
    <3>2. m \in PageStates /\ m.at = pg.at /\ m.shown = pg.shown /\ m.draft BY <1>1, <1>3, RefusedFields
    <3>3. SetPage(p, Done(m)) BY <3>1
    <3> HIDE DEF m
    <3> QED BY <1>2, <2>1, <3>2, <3>3, DoneLosesNothing
  <2>4. CASE c.answer.status = "ok" /\ pg.act = "save"
    <3>1. SetPage(p, Done(Drawn(pg, pg.shown, view))) BY <2>4 DEF ActAnswered
    <3> HIDE DEF view
    <3> DEFINE m == Drawn(pg, pg.shown, view)
    <3>2. m \in PageStates /\ m.at = pg.at /\ m.shown = pg.shown /\ m.draft BY <1>1, <1>3, DrawnFields
    <3>3. SetPage(p, Done(m)) BY <3>1
    <3> HIDE DEF m
    <3> QED BY <1>2, <2>1, <3>2, <3>3, DoneLosesNothing
  <2> QED BY <1>2, <1>3, <1>5, <2>2, <2>3, <2>4
<1> QED BY <1>4, <1>5

\* The steps that leave every board where it is.
SameBoards ==
  /\ \A q \in Pages : /\ pages'[q].shown = pages[q].shown
                      /\ pages'[q].draft = pages[q].draft
                      /\ pages'[q].at = pages[q].at \/ pages'[q].at = "unloaded"
  /\ stored \subseteq stored' /\ UNCHANGED <<branches, typed>>

LEMMA SameBoardsLoseNothing ==
  ASSUME Inv, NothingTypedIsLost, SameBoards
  PROVE  NothingTypedIsLost'
<1>1. \A q \in Pages : Follows(pages[q], pages'[q], stored', branches') BY DEF Follows, HasBoard, SameBoards
<1> QED BY <1>1, FollowsKeeps DEF SameBoards

LEMMA OneSameBoard ==
  ASSUME Inv, NEW p \in Pages, NEW n, SetPage(p, n),
         n.shown = pages[p].shown, n.draft = pages[p].draft, n.at = pages[p].at \/ n.at = "unloaded",
         stored \subseteq stored', UNCHANGED <<branches, typed>>
  PROVE  SameBoards
<1>1. \A q \in Pages : pages'[q] = IF q = p THEN n ELSE pages[q] BY DEF SetPage, Inv
<1> QED BY <1>1 DEF SameBoards

LEMMA SendSameBoard ==
  ASSUME Inv, NEW p \in Pages, NEW k \in Kinds, NEW q \in Requests, SetPage(p, Send(pages[p], k, q)),
         UNCHANGED <<stored, branches, typed>>
  PROVE  SameBoards
<1> DEFINE c == [request |-> q, answer |-> None]
           n == [pages[p] EXCEPT !.calls[k] = c]
<1>1. c \in Calls /\ pages[p] \in PageStates BY PageFacts DEF Calls
<1>2. SetPage(p, n) BY DEF Send
<1> HIDE DEF c
<1>3. n.at = pages[p].at /\ n.shown = pages[p].shown /\ n.draft = pages[p].draft BY <1>1, CallFields
<1> HIDE DEF n
<1> QED BY <1>2, <1>3, OneSameBoard

LEMMA NextLosesNothing ==
  ASSUME Inv, NothingTypedIsLost, [Next]_vars
  PROVE  NothingTypedIsLost'
<1> USE SameBoardsLoseNothing
<1>1. CASE UNCHANGED vars
  <2>1. SameBoards BY <1>1 DEF vars, SameBoards
  <2> QED BY <2>1
<1>2. ASSUME NEW p \in Pages, SendLeave(p) PROVE NothingTypedIsLost'
  <2>1. UNCHANGED <<stored, typed>> BY <1>2 DEF SendLeave
  <2>2. CASE Unsynced(pages[p]) /\ ~pages[p].conflict
    <3>1. SetPage(p, Send(pages[p], "act", Request(p, "autosave", pages[p].shown))) /\ UNCHANGED branches
      BY <1>2, <2>2 DEF SendLeave
    <3>2. Request(p, "autosave", pages[p].shown) \in Requests BY PageFacts, PageFields DEF Request, Requests
    <3> QED BY <2>1, <3>1, <3>2, SendSameBoard DEF Kinds
  <2>3. CASE ~(Unsynced(pages[p]) /\ ~pages[p].conflict)
    <3>1. EndSession(p) BY <1>2, <2>3 DEF SendLeave
    <3> QED BY <2>1, <3>1, EndSessionLosesNothing
  <2> QED BY <2>2, <2>3
<1>3. ASSUME NEW p \in Pages, StartAutosave(p) PROVE NothingTypedIsLost'
  <2>1. SetPage(p, Send(pages[p], "auto", Request(p, "autosave", pages[p].shown))) /\ UNCHANGED <<stored, branches, typed>>
    BY <1>3 DEF StartAutosave
  <2>2. Request(p, "autosave", pages[p].shown) \in Requests BY PageFacts, PageFields DEF Request, Requests
  <2> QED BY <2>1, <2>2, SendSameBoard DEF Kinds
<1>4. ASSUME NEW p \in Pages, Retry(p) PROVE NothingTypedIsLost'
  <2> DEFINE n == [pages[p] EXCEPT !.state = "live"]
  <2>1. SetPage(p, n) /\ UNCHANGED <<stored, branches, typed>> BY <1>4 DEF Retry
  <2>2. n.at = pages[p].at /\ n.shown = pages[p].shown /\ n.draft = pages[p].draft BY PageFacts DEF PageStates
  <2> HIDE DEF n
  <2> QED BY <2>1, <2>2, OneSameBoard
<1>5. ASSUME NEW p \in Pages, PollRead(p) PROVE NothingTypedIsLost'
  <2> DEFINE n == [pages[p] EXCEPT !.seen = View(doc, canonical)]
  <2>1. SetPage(p, n) /\ UNCHANGED <<stored, branches, typed>> BY <1>5 DEF PollRead
  <2>2. n.at = pages[p].at /\ n.shown = pages[p].shown /\ n.draft = pages[p].draft BY PageFacts DEF PageStates
  <2> HIDE DEF n
  <2> QED BY <2>1, <2>2, OneSameBoard
<1>6. ASSUME NEW p \in Pages, NEW act \in {"save", "discard", "leave"}, Ask(p, act) PROVE NothingTypedIsLost'
  <2> DEFINE n == [pages[p] EXCEPT !.act = act, !.level = IF act = "save" THEN pages[p].shown ELSE Original]
  <2>1. SetPage(p, n) /\ UNCHANGED <<stored, branches, typed>> BY <1>6 DEF Ask
  <2>2. n.at = pages[p].at /\ n.shown = pages[p].shown /\ n.draft = pages[p].draft BY PageFacts DEF PageStates
  <2> HIDE DEF n
  <2> QED BY <2>1, <2>2, OneSameBoard
<1>7. ASSUME NEW p \in Pages, SendSave(p) PROVE NothingTypedIsLost'
  <2>1. UNCHANGED <<stored, branches, typed>> BY <1>7 DEF SendSave
  <2>2. CASE pages[p].conflict
    <3>1. SetPage(p, Done(pages[p])) BY <1>7, <2>2 DEF SendSave
    <3> QED BY <2>1, <3>1, PageFacts, DoneLosesNothing
  <2>3. CASE ~pages[p].conflict
    <3> DEFINE q == [Request(p, "save", pages[p].level) EXCEPT !.base = Original]
    <3>1. SetPage(p, Send(pages[p], "act", q)) BY <1>7, <2>3 DEF SendSave
    <3>2. q \in Requests BY PageFacts, PageFields, RequestFields
    <3> HIDE DEF q
    <3> QED BY <2>1, <3>1, <3>2, SendSameBoard DEF Kinds
  <2> QED BY <2>2, <2>3
<1>8. ASSUME NEW p \in Pages, SendDiscard(p) PROVE NothingTypedIsLost'
  <2> DEFINE q == [Request(p, "discard", Original) EXCEPT !.base = Original]
  <2>1. SetPage(p, Send(pages[p], "act", q)) /\ UNCHANGED <<stored, branches, typed>> BY <1>8 DEF SendDiscard
  <2>2. q \in Requests BY OriginalIsBody, RequestFields
  <2> HIDE DEF q
  <2> QED BY <2>1, <2>2, SendSameBoard DEF Kinds
<1>9. ASSUME NEW p \in Pages, LeaveAnswered(p) PROVE NothingTypedIsLost'
  BY <1>9, EndSessionLosesNothing DEF LeaveAnswered
<1>10. ASSUME NEW p \in Pages, Unload(p) PROVE NothingTypedIsLost'
  <2> DEFINE n == Ended(pages[p], "unloaded")
  <2>1. SetPage(p, n) /\ UNCHANGED <<stored, branches, typed>> BY <1>10 DEF Unload
  <2>2. n.at = "unloaded" /\ n.shown = pages[p].shown /\ n.draft = pages[p].draft BY PageFacts DEF Ended, PageStates
  <2> HIDE DEF n
  <2> QED BY <2>1, <2>2, OneSameBoard
<1>11. ASSUME NEW p \in Pages, NEW c \in Kinds, Serve(p, c) PROVE NothingTypedIsLost'
  <2> DEFINE q == pages[p].calls[c].request
             n == [pages[p] EXCEPT !.calls[c].answer = Reply(q)]
  <2>1. SetPage(p, n) /\ stored \subseteq stored' /\ UNCHANGED <<branches, typed>> BY <1>11 DEF Serve, Reply, Apply
  <2>2. n.at = pages[p].at /\ n.shown = pages[p].shown /\ n.draft = pages[p].draft BY PageFacts DEF PageStates
  <2> HIDE DEF n
  <2> QED BY <2>1, <2>2, OneSameBoard
<1>12. ASSUME NEW p \in Pages, NEW c \in Kinds, Lose(p, c) PROVE NothingTypedIsLost'
  <2> DEFINE n == [pages[p] EXCEPT !.calls[c].answer = Failure]
  <2>1. SetPage(p, n) /\ UNCHANGED <<stored, branches, typed>> BY <1>12 DEF Lose
  <2>2. n.at = pages[p].at /\ n.shown = pages[p].shown /\ n.draft = pages[p].draft BY PageFacts DEF PageStates
  <2> HIDE DEF n
  <2> QED BY <2>1, <2>2, OneSameBoard
<1>13. ASSUME NEW q \in late, ServeLate(q) PROVE NothingTypedIsLost'
  <2>1. SameBoards BY <1>13 DEF ServeLate, Apply, SameBoards
  <2> QED BY <2>1
<1>14. ASSUME NEW f \in Fields, Publish(f) PROVE NothingTypedIsLost'
  <2>1. SameBoards BY <1>14 DEF Publish, SameBoards
  <2> QED BY <2>1
<1> QED
  BY <1>1, <1>2, <1>3, <1>4, <1>5, <1>6, <1>7, <1>8, <1>9, <1>10, <1>11, <1>12, <1>13, <1>14,
     OpenLosesNothing, AutosaveAnsweredLosesNothing, PollApplyLosesNothing, ActAnsweredLosesNothing,
     EditLosesNothing
  DEF Next

\* The only copy of what a user typed is never taken: not by a merge, a lost answer, a
\* closed tab, another tab or a new session (sharedLevelMerge.ts, levelEditorDraft.ts).
THEOREM NothingTypedLost == Spec => []NothingTypedIsLost
<1>1. Init => NothingTypedIsLost
  <2>1. \A f \in Fields : Original[f].by = None BY DEF Original
  <2> QED BY <2>1 DEF Init, NothingTypedIsLost
<1>2. Inv /\ NothingTypedIsLost /\ [Next]_vars => NothingTypedIsLost' BY NextLosesNothing
<1> QED BY <1>1, <1>2, InvHolds, PTL DEF Spec

----------------------------------------------------------------------------
(* Independent work survives *)

\* A request changes only what its user typed, whenever it arrives.
OwnRequest(p, q, d) ==
  /\ q.kind = "autosave" => \A f \in Fields : q.level[f] # q.base[f] => q.level[f].by = p
  /\ q.kind = "save" /\ q.revision = d.revision => \A f \in Fields : q.level[f] # d.body[f] => q.level[f].by = p

\* While no poll has moved the base, the board differs from what was sent by edits only.
OwnSince(p, pg, q) ==
  q.revision = pg.base.revision => \A f \in Fields : pg.shown[f] # q.level[f] => pg.shown[f].by = p

OwnPage(p, pg, d) ==
  /\ \A f \in Fields : pg.shown[f] # pg.base.body[f] => pg.shown[f].by = p
  /\ \A k \in Kinds : pg.calls[k].request # None => OwnRequest(p, pg.calls[k].request, d)
  /\ pg.calls["auto"].request # None => OwnSince(p, pg, pg.calls["auto"].request)
  /\ pg.act = "save" /\ pg.calls["act"].request # None => OwnSince(p, pg, pg.calls["act"].request)

Own ==
  \A p \in Pages \ astray :
    /\ OwnPage(p, pages[p], doc)
    /\ \A q \in late : q.by = p => OwnRequest(p, q, doc)

\* A page that keeps board and base, and has at most the calls it had.
LEMMA OwnsOn ==
  ASSUME NEW p, NEW pg, NEW n, NEW d, OwnPage(p, pg, d),
         n.shown = pg.shown, n.base = pg.base,
         \A k \in Kinds : n.calls[k].request = None \/ n.calls[k].request = pg.calls[k].request,
         n.act = "save" /\ n.calls["act"].request # None => pg.act = "save"
  PROVE  OwnPage(p, n, d)
<1>1. "auto" \in Kinds /\ "act" \in Kinds BY DEF Kinds
<1> QED BY <1>1 DEF OwnPage, OwnSince

LEMMA OneOwns ==
  ASSUME Inv, Own, NEW p \in Pages, NEW n, SetPage(p, n), UNCHANGED <<doc, late>>, astray \subseteq astray',
         p \notin astray' => OwnPage(p, n, doc)
  PROVE  Own'
<1>1. \A q \in Pages : pages'[q] = IF q = p THEN n ELSE pages[q] BY DEF SetPage, Inv
<1> QED BY <1>1 DEF Own

\* A step of one page that does not move its board.
LEMMA StillOwns ==
  ASSUME Inv, Own, NEW p \in Pages, NEW n, SetPage(p, n), UNCHANGED <<doc, late>>, astray \subseteq astray',
         n.shown = pages[p].shown, n.base = pages[p].base,
         \A k \in Kinds : n.calls[k].request = None \/ n.calls[k].request = pages[p].calls[k].request,
         n.act = "save" /\ n.calls["act"].request # None => pages[p].act = "save"
  PROVE  Own'
<1>1. p \notin astray' => OwnPage(p, n, doc) BY OwnsOn DEF Own
<1> QED BY <1>1, OneOwns

LEMMA EditOwns ==
  ASSUME Inv, Own, NEW p \in Pages, NEW f \in Fields, Edit(p, f)
  PROVE  Own'
<1> DEFINE v == [by |-> p, n |-> typed[p][f].n + 1]
           n == [pages[p] EXCEPT !.shown[f] = v, !.draft = TRUE]
<1>1. pages[p] \in PageStates /\ pages[p].shown \in Bodies BY PageFacts, PageFields
<1>2. n.base = pages[p].base /\ n.calls = pages[p].calls /\ n.act = pages[p].act
      /\ n.shown = [pages[p].shown EXCEPT ![f] = v]
  BY <1>1 DEF PageStates
<1>3. SetPage(p, n) /\ UNCHANGED <<doc, late, astray>> BY DEF Edit
<1> HIDE DEF n
<1>4. v.by = p OBVIOUS
<1> HIDE DEF v
<1>5. \A g \in Fields : n.shown[g] = pages[p].shown[g] \/ n.shown[g].by = p
  <2>1. SUFFICES ASSUME NEW g \in Fields PROVE n.shown[g] = pages[p].shown[g] \/ n.shown[g].by = p OBVIOUS
  <2>2. n.shown[g] = IF g = f THEN v ELSE pages[p].shown[g] BY <1>1, <1>2 DEF Bodies
  <2> QED BY <2>2, <1>4
<1>6. p \notin astray => OwnPage(p, n, doc) BY <1>2, <1>5 DEF Own, OwnPage, OwnSince
<1> QED BY <1>3, <1>6, OneOwns

\* What a page sends with the board it shows.
LEMMA RequestOwns ==
  ASSUME Inv, NEW p \in Pages, OwnPage(p, pages[p], doc), NEW q,
         q.level = pages[p].shown, q.revision = pages[p].base.revision,
         q.kind = "autosave" => q.base = pages[p].base.body
  PROVE  OwnRequest(p, q, doc) /\ OwnSince(p, pages[p], q)
<1>1. pages[p].base.revision = doc.revision => pages[p].base.body = doc.body BY PageFacts DEF Known
<1> QED BY <1>1 DEF OwnPage, OwnRequest, OwnSince

LEMMA SendOwns ==
  ASSUME Inv, Own, NEW p \in Pages, NEW k \in Kinds, NEW q \in Requests, SetPage(p, Send(pages[p], k, q)),
         UNCHANGED <<doc, late>>, astray \subseteq astray',
         \/ q.kind = "discard" /\ pages[p].act # "save" /\ k = "act"
         \/ /\ p \notin astray' => q.level = pages[p].shown
            /\ q.revision = pages[p].base.revision
            /\ q.kind = "autosave" => q.base = pages[p].base.body
  PROVE  Own'
<1> DEFINE c == [request |-> q, answer |-> None]
           n == [pages[p] EXCEPT !.calls[k] = c]
<1>1. c \in Calls /\ c.request = q /\ pages[p] \in PageStates /\ pages[p].calls \in [Kinds -> Calls]
  BY PageFacts, PageFields DEF Calls
<1>2. SetPage(p, n) BY DEF Send
<1> HIDE DEF c
<1>3. n.act = pages[p].act /\ n.shown = pages[p].shown /\ n.base = pages[p].base
      /\ n.calls = [pages[p].calls EXCEPT ![k] = c]
  BY <1>1, CallFields
<1> HIDE DEF n
<1>4. \A j \in Kinds : n.calls[j] = IF j = k THEN c ELSE pages[p].calls[j] BY <1>1, <1>3
<1>5. "auto" \in Kinds /\ "act" \in Kinds BY DEF Kinds
<1>6. ASSUME p \notin astray' PROVE OwnPage(p, n, doc)
  <2>1. OwnPage(p, pages[p], doc) BY <1>6 DEF Own
  <2>2. CASE q.kind = "discard" /\ pages[p].act # "save" /\ k = "act"
    <3>1. OwnRequest(p, q, doc) BY <2>2 DEF OwnRequest
    <3>2. n.calls["auto"] = pages[p].calls["auto"] BY <1>4, <1>5, <2>2
    <3> QED BY <1>1, <1>3, <1>4, <2>1, <2>2, <3>1, <3>2 DEF OwnPage, OwnSince
  <2>3. CASE /\ p \notin astray' => q.level = pages[p].shown
             /\ q.revision = pages[p].base.revision
             /\ q.kind = "autosave" => q.base = pages[p].base.body
    <3>1. OwnRequest(p, q, doc) /\ OwnSince(p, pages[p], q) BY <1>6, <2>1, <2>3, RequestOwns
    <3> QED BY <1>1, <1>3, <1>4, <1>5, <2>1, <3>1 DEF OwnPage, OwnSince
  <2> QED BY <2>2, <2>3
<1> QED BY <1>2, <1>6, OneOwns

LEMMA SessionOwns ==
  ASSUME NEW p, NEW at, NEW d
  PROVE  OwnPage(p, Session(at), d)
<1> DEFINE n == Session(at)
           b == [body |-> Original, revision |-> 0]
           cs == [k \in Kinds |-> Idle]
<1>1. n.shown = Original /\ n.base = b /\ n.act = "none" /\ n.calls = cs BY DEF Session
<1>2. b.body = Original OBVIOUS
<1>3. \A k \in Kinds : cs[k].request = None BY IdleIsOK
<1>4. "auto" \in Kinds BY DEF Kinds
<1> HIDE DEF n, b, cs
<1>5. \A k \in Kinds : n.calls[k].request = None BY <1>1, <1>3
<1>6. n.act # "save" BY <1>1
<1> QED BY <1>1, <1>2, <1>4, <1>5, <1>6 DEF OwnPage, n

LEMMA EndSessionOwns ==
  ASSUME Inv, Own, NEW p \in Pages, EndSession(p), UNCHANGED <<doc, late, astray>>
  PROVE  Own'
BY SessionOwns, OneOwns DEF EndSession

LEMMA OpenOwns ==
  ASSUME Inv, Own, NEW p \in Pages, Open(p)
  PROVE  Own'
<1>1. PICK board \in Boards(p) :
        /\ board \in Bodies
        /\ pages'[p] = Opened(p, board)
        /\ \A q \in Pages \ {p} : \/ pages'[q] = pages[q]
                                  \/ pages[q].shown = doc.body /\ pages'[q] = [pages[q] EXCEPT !.draft = FALSE]
        /\ Astray(p, board # doc.body /\ ~Restorable(pages[p]))
  BY OpenStep
<1>2. UNCHANGED <<doc, late>> BY DEF Open
<1>3. astray \subseteq astray' BY <1>1 DEF Astray
<1>4. ASSUME p \notin astray' PROVE OwnPage(p, pages'[p], doc)
  <2> DEFINE n == Opened(p, board)
  <2>1. /\ n.shown = board /\ n.base = [body |-> doc.body, revision |-> doc.revision]
        /\ n \in PageStates /\ PageOK(p, n, doc, stored)
    BY <1>1, OpenPages
  <2>2. n.calls = pages[p].calls
    <3> DEFINE v == View(doc, canonical)
               m == Drawn(pages[p], board, v)
    <3>1. m \in PageStates /\ m.calls = pages[p].calls
      <4>1. v \in Views BY ViewIsKnown DEF Inv
      <4> HIDE DEF v
      <4> QED BY <4>1, <1>1, PageFacts, DrawnFields
    <3>2. n = [m EXCEPT !.at = "open"] BY DEF Opened
    <3> HIDE DEF m
    <3> QED BY <3>1, <3>2 DEF PageStates
  <2> HIDE DEF n
  <2>3. pages[p].calls["auto"] = Idle /\ pages[p].calls["act"] = Idle BY PageFacts DEF Open
  <2>4. \A k \in Kinds : n.calls[k].request = None BY <2>2, <2>3, IdleIsOK DEF Kinds
  <2>5. board = doc.body \/ Restorable(pages[p]) BY <1>1, <1>4 DEF Astray
  <2>6. \A f \in Fields : n.shown[f] # n.base.body[f] => n.shown[f].by = p
    <3>1. CASE board = doc.body BY <3>1, <2>1
    <3>2. CASE Restorable(pages[p])
      <4>1. board = pages[p].shown /\ n.base = pages[p].base BY <3>2, <2>1 DEF Boards, Restorable, Base
      <4>2. OwnPage(p, pages[p], doc) BY <1>3, <1>4 DEF Own
      <4> QED BY <4>1, <4>2, <2>1 DEF OwnPage
    <3> QED BY <2>5, <3>1, <3>2
  <2> QED BY <1>1, <2>4, <2>6 DEF OwnPage, Kinds, n
<1>5. ASSUME NEW q \in Pages \ {p}, q \notin astray' PROVE OwnPage(q, pages'[q], doc)
  <2>1. OwnPage(q, pages[q], doc) BY <1>3, <1>5 DEF Own
  <2>2. CASE pages'[q] = pages[q] BY <2>1, <2>2
  <2>3. CASE pages'[q] = [pages[q] EXCEPT !.draft = FALSE]
    <3> DEFINE n == [pages[q] EXCEPT !.draft = FALSE]
    <3>1. n.shown = pages[q].shown /\ n.base = pages[q].base /\ n.calls = pages[q].calls /\ n.act = pages[q].act
      BY ClearedPages
    <3> HIDE DEF n
    <3>2. OwnPage(q, n, doc) BY <2>1, <3>1, OwnsOn
    <3> QED BY <2>3, <3>2 DEF n
  <2> QED BY <1>1, <2>2, <2>3
<1> QED BY <1>2, <1>3, <1>4, <1>5 DEF Own

LEMMA AutosaveAnsweredOwns ==
  ASSUME Inv, Own, NEW p \in Pages, AutosaveAnswered(p)
  PROVE  Own'
<1> DEFINE pg == pages[p]
           c == pg.calls["auto"]
           view == c.answer.view
           board == IF pg.shown = c.request.level THEN view.body ELSE Merge(c.request.level, pg.shown, view.body)
<1>1. /\ pg \in PageStates /\ pg.shown \in Bodies /\ CallOK(p, c, doc, stored) /\ c \in Calls
      /\ pg.calls \in [Kinds -> Calls] /\ "auto" \in Kinds /\ "act" \in Kinds
      /\ InFlight(pg.base, pg.act, c, pg.calls["act"])
  BY PageFacts, PageFields DEF Kinds
<1>2. c.request # None /\ c.answer \in Answers BY <1>1 DEF AutosaveAnswered, CallOK, Calls
<1>3. UNCHANGED <<doc, late>> /\ astray \subseteq astray' BY DEF AutosaveAnswered, Astray
\* A Save waits for the autosave: none of its own is in flight.
<1>4. pg.act = "save" => pg.calls["act"].request = None BY <1>1, <1>2, IdleIsOK DEF InFlight
<1>5. CASE c.answer.status = "ok"
  <2>1. view \in Views /\ view.body \in Bodies BY <1>2 DEF Answers, Views
  <2>2. board \in Bodies BY <1>1, <2>1, MergeIsBody
  <2>3. SetPage(p, Return(Drawn(pg, board, view), "auto")) BY <1>5 DEF AutosaveAnswered, Acknowledged
  <2>4. p \notin astray' => pg.base.revision = c.request.revision BY <1>5 DEF AutosaveAnswered, Astray
  <2>5. ASSUME p \notin astray' PROVE \A f \in Fields : board[f] # view.body[f] => board[f].by = p
    <3>1. OwnPage(p, pg, doc) BY <1>3, <2>5 DEF Own
    <3>2. \A f \in Fields : pg.shown[f] # c.request.level[f] => pg.shown[f].by = p
      BY <1>2, <2>4, <2>5, <3>1 DEF OwnPage, OwnSince
    <3>3. \A f \in Fields : board[f] = view.body[f] \/ (board[f] = pg.shown[f] /\ pg.shown[f] # c.request.level[f])
      <4>1. CASE pg.shown = c.request.level BY <4>1
      <4>2. CASE pg.shown # c.request.level
        <5>1. board = Merge(c.request.level, pg.shown, view.body) BY <4>2
        <5> HIDE DEF board, view
        <5>2. \A f \in Fields : board[f] = IF pg.shown[f] = c.request.level[f] THEN view.body[f] ELSE pg.shown[f]
          BY <5>1, <1>1, <2>1, MergeIsBody
        <5> QED BY <5>2
      <4> QED BY <4>1, <4>2
    <3> QED BY <3>2, <3>3
  <2> HIDE DEF board, view
  <2> DEFINE m == Drawn(pg, board, view)
             n == Return(m, "auto")
  <2>6. m \in PageStates /\ m.shown = board /\ m.base = Base(view) /\ m.calls = pg.calls /\ m.act = pg.act
    BY <1>1, <2>1, <2>2, DrawnFields
  <2>7. Base(view).body = view.body BY DEF Base
  <2> HIDE DEF m
  <2>8. n.shown = board /\ n.base = Base(view) /\ n.act = pg.act /\ n.calls = [pg.calls EXCEPT !["auto"] = Idle]
    BY <1>1, <2>6, CallFields, IdleIsOK DEF Return
  <2>9. SetPage(p, n) BY <2>3 DEF m
  <2> HIDE DEF n
  <2>10. n.calls["auto"].request = None /\ n.calls["act"] = pg.calls["act"] BY <1>1, <2>8, IdleIsOK
  <2>11. ASSUME p \notin astray' PROVE OwnPage(p, n, doc)
    <3>1. OwnPage(p, pg, doc) BY <1>3, <2>11 DEF Own
    <3>2. \A f \in Fields : n.shown[f] # n.base.body[f] => n.shown[f].by = p BY <2>5, <2>7, <2>8, <2>11
    <3>3. \A k \in Kinds : n.calls[k].request # None => OwnRequest(p, n.calls[k].request, doc)
      BY <2>10, <3>1 DEF OwnPage, Kinds
    <3> QED BY <1>4, <2>8, <2>10, <3>2, <3>3 DEF OwnPage
  <2> QED BY <1>3, <2>9, <2>11, OneOwns
<1>6. CASE c.answer.status # "ok"
  <2> DEFINE m == Return(pg, "auto")
             n == [m EXCEPT !.state = "error"]
  <2>1. /\ m \in PageStates /\ m.shown = pg.shown /\ m.base = pg.base /\ m.act = pg.act
        /\ m.calls = [pg.calls EXCEPT !["auto"] = Idle]
    BY <1>1, CallFields, IdleIsOK DEF Return
  <2>2. SetPage(p, n) BY <1>6 DEF AutosaveAnswered
  <2> HIDE DEF m
  <2>3. n.shown = pg.shown /\ n.base = pg.base /\ n.act = pg.act /\ n.calls = m.calls BY <2>1 DEF PageStates
  <2> HIDE DEF n
  <2>4. \A k \in Kinds : n.calls[k].request = None \/ n.calls[k].request = pg.calls[k].request
    BY <1>1, <2>1, <2>3, IdleIsOK DEF Kinds
  <2> QED BY <1>3, <2>2, <2>3, <2>4, StillOwns
<1> QED BY <1>5, <1>6

LEMMA PollApplyOwns ==
  ASSUME Inv, Own, NEW p \in Pages, PollApply(p)
  PROVE  Own'
<1> DEFINE pg == pages[p]
           v == pg.seen
           board == Polled(pg, v)
<1>1. /\ pg \in PageStates /\ pg.shown \in Bodies /\ pg.base.revision \in Nat
      /\ pg.calls["auto"] \in Calls /\ pg.calls["act"] \in Calls
      /\ InFlight(pg.base, pg.act, pg.calls["auto"], pg.calls["act"])
  BY PageFacts, PageFields
<1>2. v \in Views /\ v.body \in Bodies /\ v.revision \in Nat BY <1>1, PageFields DEF PollApply, Views
<1>3. UNCHANGED <<doc, late, astray>> BY DEF PollApply
<1>4. CASE v.revision <= pg.base.revision
  <2> DEFINE n == [pg EXCEPT !.seen = None]
  <2>1. SetPage(p, n) BY <1>4 DEF PollApply
  <2>2. n.shown = pg.shown /\ n.base = pg.base /\ n.calls = pg.calls /\ n.act = pg.act BY <1>1 DEF PageStates
  <2> HIDE DEF n
  <2> QED BY <1>3, <2>1, <2>2, StillOwns
<1>5. CASE ~(v.revision <= pg.base.revision)
  <2>1. board \in Bodies
        /\ \A f \in Fields : board[f] = IF pg.shown[f] = pg.base.body[f] THEN v.body[f] ELSE pg.shown[f]
    <3>1. board = Merge(pg.base.body, pg.shown, v.body) BY DEF Polled
    <3> HIDE DEF board, v
    <3> QED BY <3>1, <1>1, <1>2, MergeIsBody
  <2> DEFINE m == Drawn(pg, board, v)
             n == [m EXCEPT !.seen = None]
  <2>2. SetPage(p, n) BY <1>5 DEF PollApply
  <2> HIDE DEF board, v
  <2>3. m \in PageStates /\ m.shown = board /\ m.base = Base(v) /\ m.calls = pg.calls /\ m.act = pg.act
    BY <1>1, <1>2, <2>1, DrawnFields
  <2>4. Base(v).body = v.body /\ Base(v).revision = v.revision BY DEF Base
  <2> HIDE DEF m
  <2>5. n.shown = board /\ n.base = Base(v) /\ n.calls = pg.calls /\ n.act = pg.act BY <2>3 DEF PageStates
  <2> HIDE DEF n
  <2>6. ASSUME p \notin astray PROVE OwnPage(p, n, doc)
    <3>1. OwnPage(p, pg, doc) BY <2>6 DEF Own
    <3>2. \A f \in Fields : n.shown[f] # n.base.body[f] => n.shown[f].by = p BY <2>1, <2>4, <2>5, <3>1 DEF OwnPage
    \* What is in flight was sent at an older revision.
    <3>3. pg.calls["auto"].request # None => pg.calls["auto"].request.revision # n.base.revision
      <4>1. pg.calls["auto"].request # None => pg.calls["auto"].request.revision \in Nat BY <1>1 DEF Calls, Requests
      <4> QED BY <4>1, <1>1, <1>2, <1>5, <2>4, <2>5 DEF InFlight
    <3>4. pg.act = "save" /\ pg.calls["act"].request # None => pg.calls["act"].request.revision # n.base.revision
      <4>1. pg.calls["act"].request # None => pg.calls["act"].request.revision \in Nat BY <1>1 DEF Calls, Requests
      <4> QED BY <4>1, <1>1, <1>2, <1>5, <2>4, <2>5 DEF InFlight
    <3> QED BY <2>5, <3>1, <3>2, <3>3, <3>4 DEF OwnPage, OwnSince
  <2> QED BY <1>3, <2>2, <2>6, OneOwns
<1> QED BY <1>4, <1>5

\* A Save or Discard that is over, on a board that is its user's own.
LEMMA DoneOwns ==
  ASSUME Inv, Own, NEW p \in Pages, NEW m \in PageStates, m.calls = pages[p].calls,
         SetPage(p, Done(m)), UNCHANGED <<doc, late>>, astray \subseteq astray',
         p \notin astray' => \A f \in Fields : m.shown[f] # m.base.body[f] => m.shown[f].by = p,
         pages[p].calls["auto"].request # None => m.shown = pages[p].shown /\ m.base = pages[p].base
  PROVE  Own'
<1> DEFINE n == Done(m)
<1>1. /\ n.shown = m.shown /\ n.base = m.base /\ n.act = "none"
      /\ n.calls["auto"] = pages[p].calls["auto"] /\ n.calls["act"] = Idle
  BY DoneFields
<1> HIDE DEF n
<1>2. ASSUME p \notin astray' PROVE OwnPage(p, n, doc)
  <2>1. OwnPage(p, pages[p], doc) BY <1>2 DEF Own
  <2>2. n.calls["act"].request = None /\ n.act # "save" BY <1>1, IdleIsOK
  <2>3. \A k \in Kinds : n.calls[k].request # None => OwnRequest(p, n.calls[k].request, doc)
    BY <1>1, <2>1, <2>2 DEF OwnPage, Kinds
  <2>4. n.calls["auto"].request # None => OwnSince(p, n, n.calls["auto"].request)
    BY <1>1, <2>1 DEF OwnPage, OwnSince
  <2>5. \A f \in Fields : n.shown[f] # n.base.body[f] => n.shown[f].by = p BY <1>1, <1>2
  <2> QED BY <2>2, <2>3, <2>4, <2>5 DEF OwnPage
<1> QED BY <1>2, OneOwns DEF n

LEMMA ActAnsweredOwns ==
  ASSUME Inv, Own, NEW p \in Pages, ActAnswered(p)
  PROVE  Own'
<1> DEFINE pg == pages[p]
           c == pg.calls["act"]
           view == c.answer.view
<1>1. /\ pg \in PageStates /\ c \in Calls /\ CallOK(p, c, doc, stored)
      /\ InFlight(pg.base, pg.act, pg.calls["auto"], c)
  BY PageFacts, PageFields
<1>2. pg.act \in {"save", "discard"} /\ c.answer # None /\ UNCHANGED <<doc, late>> /\ astray \subseteq astray'
  BY DEF ActAnswered, Saving, Astray
<1>3. view \in Views /\ view.body \in Bodies /\ pg.shown \in Bodies /\ c.answer.status \in {"ok", "conflict", "fail"}
  BY <1>1, <1>2, PageFields DEF Calls, Answers, Views
<1>4. c.request # None /\ pg.calls["auto"].request = None BY <1>1, <1>2, IdleIsOK DEF CallOK, InFlight
<1>5. p \notin astray' => OwnPage(p, pg, doc) BY <1>2 DEF Own
<1>6. CASE c.answer.status = "fail"
  <2>1. SetPage(p, Done(pg)) BY <1>6 DEF ActAnswered
  <2> QED BY <1>1, <1>2, <1>4, <1>5, <2>1, DoneOwns DEF OwnPage
<1>7. CASE c.answer.status = "conflict"
  <2>1. SetPage(p, Done(Refused(pg, view))) BY <1>7 DEF ActAnswered
  <2>2. p \notin astray' => pg.base = Base(view) BY <1>7 DEF ActAnswered, Astray
  <2> HIDE DEF view
  <2> DEFINE m == Refused(pg, view)
  <2>3. m \in PageStates /\ m.calls = pg.calls /\ m.shown = pg.shown /\ m.base = Base(view) BY <1>1, <1>3, RefusedFields
  <2>4. SetPage(p, Done(m)) BY <2>1
  <2> HIDE DEF m
  <2>5. p \notin astray' => \A f \in Fields : m.shown[f] # m.base.body[f] => m.shown[f].by = p
    BY <1>5, <2>2, <2>3 DEF OwnPage
  <2> QED BY <1>2, <1>4, <2>3, <2>4, <2>5, DoneOwns
<1>8. CASE c.answer.status = "ok" /\ pg.act = "save"
  <2>1. SetPage(p, Done(Drawn(pg, pg.shown, view))) BY <1>8 DEF ActAnswered
  <2>2. p \notin astray' => pg.base.revision = c.request.revision BY <1>8 DEF ActAnswered, Astray
  <2>3. c.request.kind = "save" /\ view.body = c.request.level BY <1>1, <1>2, <1>4, <1>8 DEF CallOK, InFlight
  <2>4. p \notin astray' => \A f \in Fields : pg.shown[f] # view.body[f] => pg.shown[f].by = p
    BY <1>4, <1>5, <1>8, <2>2, <2>3 DEF OwnPage, OwnSince
  <2> HIDE DEF view
  <2> DEFINE m == Drawn(pg, pg.shown, view)
  <2>5. m \in PageStates /\ m.calls = pg.calls /\ m.shown = pg.shown /\ m.base = Base(view) BY <1>1, <1>3, DrawnFields
  <2>6. SetPage(p, Done(m)) BY <2>1
  <2>7. Base(view).body = view.body BY DEF Base
  <2> HIDE DEF m
  <2> QED BY <1>2, <1>4, <2>4, <2>5, <2>6, <2>7, DoneOwns
<1>9. CASE c.answer.status = "ok" /\ pg.act = "discard"
  <2>1. SetPage(p, Done(Drawn(pg, view.body, view))) BY <1>9 DEF ActAnswered
  <2> HIDE DEF view
  <2> DEFINE m == Drawn(pg, view.body, view)
  <2>2. m \in PageStates /\ m.calls = pg.calls /\ m.shown = view.body /\ m.base = Base(view) BY <1>1, <1>3, DrawnFields
  <2>3. SetPage(p, Done(m)) BY <2>1
  <2>4. Base(view).body = view.body BY DEF Base
  <2> HIDE DEF m
  <2> QED BY <1>2, <1>4, <2>2, <2>3, <2>4, DoneOwns
<1> QED BY <1>2, <1>3, <1>6, <1>7, <1>8, <1>9

LEMMA UnloadOwns ==
  ASSUME Inv, Own, NEW p \in Pages, Unload(p)
  PROVE  Own'
<1> DEFINE n == Ended(pages[p], "unloaded")
           cs == [k \in Kinds |-> Idle]
<1>1. pages[p] \in PageStates BY PageFacts
<1>2. n.shown = pages[p].shown /\ n.base = pages[p].base /\ n.act = "none" /\ n.calls = cs
  BY <1>1 DEF Ended, PageStates
<1>3. \A k \in Kinds : cs[k].request = None BY IdleIsOK
<1>4. SetPage(p, n) /\ UNCHANGED <<doc, astray>> BY DEF Unload
<1> HIDE DEF n, cs
<1>5. \A q \in Pages : pages'[q] = IF q = p THEN n ELSE pages[q] BY <1>4 DEF SetPage, Inv
<1>6. ASSUME p \notin astray PROVE OwnPage(p, n, doc)
  <2>1. \A k \in Kinds : n.calls[k].request = None BY <1>2, <1>3
  <2> QED BY <1>2, <1>6, <2>1, OwnsOn DEF Own
<1>7. ASSUME NEW q \in late', NEW r \in Pages \ astray, q.by = r PROVE OwnRequest(r, q, doc)
  <2>1. PICK arriving \in SUBSET (Pending(pages[p]) \cup Flush(p)) : late' = late \cup arriving BY DEF Unload
  <2>2. CASE q \in late BY <1>7, <2>2 DEF Own
  <2>3. CASE q \in Pending(pages[p])
    <3>1. r = p BY <1>7, <2>3, LeftBehind
    <3>2. OwnPage(p, pages[p], doc) BY <1>7, <3>1 DEF Own
    <3>3. PICK k \in Kinds : Waiting(pages[p], k) /\ q = pages[p].calls[k].request BY <2>3 DEF Pending
    <3>4. q # None BY <3>3, PageFacts
    <3> QED BY <3>1, <3>2, <3>3, <3>4 DEF OwnPage
  <2>4. CASE q \in Flush(p)
    <3>1. r = p BY <1>7, <2>4, LeftBehind
    <3>2. OwnPage(p, pages[p], doc) BY <1>7, <3>1 DEF Own
    <3>3. q.level = pages[p].shown /\ q.revision = pages[p].base.revision /\ q.base = pages[p].base.body
      BY <2>4 DEF Flush, Request
    <3> QED BY <3>1, <3>2, <3>3, RequestOwns
  <2> QED BY <1>7, <2>1, <2>2, <2>3, <2>4
<1> QED BY <1>4, <1>5, <1>6, <1>7 DEF Own

\* A document that moved on leaves every request its user's own.
LEMMA RequestOwnsOn ==
  ASSUME NEW p, NEW q \in Requests, NEW d \in Docs, NEW e \in Docs, NEW st,
         Sent(q, d, st), Grows(d, e), OwnRequest(p, q, d)
  PROVE  OwnRequest(p, q, e)
<1>1. d.revision \in Nat /\ e.revision \in Nat /\ q.revision \in Nat BY DEF Docs, Requests
<1> QED BY <1>1 DEF OwnRequest, Sent, Grows

LEMMA ApplyOwns ==
  ASSUME Inv, Own, NEW q \in Requests, Sent(q, doc, stored), Apply(q), late' \subseteq late, UNCHANGED astray,
         \A p \in Pages : /\ pages'[p].shown = pages[p].shown /\ pages'[p].base = pages[p].base
                         /\ pages'[p].act = pages[p].act
                         /\ \A k \in Kinds : pages'[p].calls[k].request = pages[p].calls[k].request
  PROVE  Own'
<1>1. Served(q, doc', canonical', stored', Outcome(q).status) BY ServedKeeps
<1>2. doc \in Docs /\ doc' \in Docs /\ Grows(doc, doc') BY <1>1 DEF Inv, Served, DocOK
<1>3. ASSUME NEW p \in Pages \ astray PROVE OwnPage(p, pages'[p], doc')
  <2>1. OwnPage(p, pages[p], doc) BY DEF Own
  <2>2. ASSUME NEW k \in Kinds, pages[p].calls[k].request # None
        PROVE  OwnRequest(p, pages[p].calls[k].request, doc')
    <3> DEFINE r == pages[p].calls[k].request
    <3>1. pages[p].calls[k] \in Calls /\ CallOK(p, pages[p].calls[k], doc, stored) BY PageFacts, PageFields DEF Told
    <3>2. r \in Requests /\ Sent(r, doc, stored) BY <2>2, <3>1 DEF Calls, CallOK
    <3>3. OwnRequest(p, r, doc) BY <2>1, <2>2 DEF OwnPage
    <3> HIDE DEF r
    <3>4. OwnRequest(p, r, doc') BY <1>2, <3>2, <3>3, RequestOwnsOn
    <3> QED BY <3>4 DEF r
  <2>3. "auto" \in Kinds /\ "act" \in Kinds BY DEF Kinds
  <2> QED BY <2>1, <2>2, <2>3 DEF OwnPage, OwnSince
<1>4. ASSUME NEW p \in Pages \ astray, NEW r \in late', r.by = p PROVE OwnRequest(p, r, doc')
  <2>1. r \in Requests /\ Sent(r, doc, stored) /\ r \in late BY DEF Inv
  <2>2. OwnRequest(p, r, doc) BY <1>4, <2>1 DEF Own
  <2> QED BY <1>2, <2>1, <2>2, RequestOwnsOn
<1> QED BY <1>3, <1>4 DEF Own

LEMMA ServeOwns ==
  ASSUME Inv, Own, NEW p \in Pages, NEW c \in Kinds, Serve(p, c)
  PROVE  Own'
<1> DEFINE q == pages[p].calls[c].request
           a == Reply(q)
           n == [pages[p] EXCEPT !.calls[c].answer = a]
<1>1. pages[p] \in PageStates /\ pages[p].calls[c] \in Calls /\ CallOK(p, pages[p].calls[c], doc, stored) /\ q # None
  BY PageFacts, PageFields DEF Serve, Told
<1>2. q \in Requests /\ Sent(q, doc, stored) BY <1>1 DEF Calls, CallOK
<1>3. Apply(q) /\ SetPage(p, n) /\ UNCHANGED <<late, astray>> BY DEF Serve, Reply
<1> HIDE DEF a, q
<1>4. /\ n.shown = pages[p].shown /\ n.base = pages[p].base /\ n.act = pages[p].act
      /\ n.calls = [pages[p].calls EXCEPT ![c] = [pages[p].calls[c] EXCEPT !.answer = a]]
  BY <1>1 DEF PageStates
<1> HIDE DEF n
<1>5. \A k \in Kinds : n.calls[k].request = pages[p].calls[k].request
  <2>1. pages[p].calls \in [Kinds -> Calls] BY <1>1, PageFields
  <2>2. [pages[p].calls[c] EXCEPT !.answer = a].request = pages[p].calls[c].request BY <1>1 DEF Calls
  <2> QED BY <1>4, <2>1, <2>2
<1>6. \A r \in Pages : pages'[r] = IF r = p THEN n ELSE pages[r] BY <1>3 DEF SetPage, Inv
<1> QED BY <1>2, <1>3, <1>4, <1>5, <1>6, ApplyOwns

LEMMA LoseOwns ==
  ASSUME Inv, Own, NEW p \in Pages, NEW c \in Kinds, Lose(p, c)
  PROVE  Own'
<1> DEFINE n == [pages[p] EXCEPT !.calls[c].answer = Failure]
<1>1. pages[p] \in PageStates /\ pages[p].calls \in [Kinds -> Calls] /\ pages[p].calls[c] \in Calls BY PageFacts, PageFields
<1>2. SetPage(p, n) /\ UNCHANGED <<doc, late, astray>> BY DEF Lose
<1>3. /\ n.shown = pages[p].shown /\ n.base = pages[p].base /\ n.act = pages[p].act
      /\ n.calls = [pages[p].calls EXCEPT ![c] = [pages[p].calls[c] EXCEPT !.answer = Failure]]
  BY <1>1 DEF PageStates
<1> HIDE DEF n
<1>4. \A k \in Kinds : n.calls[k].request = pages[p].calls[k].request
  <2>1. [pages[p].calls[c] EXCEPT !.answer = Failure].request = pages[p].calls[c].request BY <1>1 DEF Calls
  <2> QED BY <1>1, <1>3, <2>1
<1>5. n.shown = pages[p].shown /\ n.base = pages[p].base /\ n.act = pages[p].act BY <1>3
<1> QED BY <1>2, <1>4, <1>5, StillOwns

LEMMA InitOwn == ASSUME Init PROVE Own
BY SessionOwns DEF Init, Own

LEMMA NextOwn ==
  ASSUME Inv, Own, [Next]_vars
  PROVE  Own'
<1>1. CASE UNCHANGED vars BY <1>1 DEF vars, Own
<1>2. ASSUME NEW p \in Pages, SendLeave(p) PROVE Own'
  <2>1. UNCHANGED <<doc, late, astray>> BY <1>2 DEF SendLeave
  <2>2. CASE Unsynced(pages[p]) /\ ~pages[p].conflict
    <3> DEFINE q == Request(p, "autosave", pages[p].shown)
    <3>1. SetPage(p, Send(pages[p], "act", q)) BY <1>2, <2>2 DEF SendLeave
    <3>2. /\ q \in Requests /\ q.level = pages[p].shown /\ q.revision = pages[p].base.revision
          /\ q.base = pages[p].base.body
      BY PageFacts, PageFields DEF Request, Requests
    <3> HIDE DEF q
    <3> QED BY <2>1, <3>1, <3>2, SendOwns DEF Kinds
  <2>3. CASE ~(Unsynced(pages[p]) /\ ~pages[p].conflict)
    <3>1. EndSession(p) BY <1>2, <2>3 DEF SendLeave
    <3> QED BY <2>1, <3>1, EndSessionOwns
  <2> QED BY <2>2, <2>3
<1>3. ASSUME NEW p \in Pages, StartAutosave(p) PROVE Own'
  <2> DEFINE q == Request(p, "autosave", pages[p].shown)
  <2>1. SetPage(p, Send(pages[p], "auto", q)) /\ UNCHANGED <<doc, late, astray>> BY <1>3 DEF StartAutosave
  <2>2. /\ q \in Requests /\ q.level = pages[p].shown /\ q.revision = pages[p].base.revision
        /\ q.base = pages[p].base.body
    BY PageFacts, PageFields DEF Request, Requests
  <2> HIDE DEF q
  <2> QED BY <2>1, <2>2, SendOwns DEF Kinds
<1>4. ASSUME NEW p \in Pages, Retry(p) PROVE Own'
  <2> DEFINE n == [pages[p] EXCEPT !.state = "live"]
  <2>1. SetPage(p, n) /\ UNCHANGED <<doc, late, astray>> BY <1>4 DEF Retry
  <2>2. n.shown = pages[p].shown /\ n.base = pages[p].base /\ n.calls = pages[p].calls /\ n.act = pages[p].act
    BY PageFacts DEF PageStates
  <2> HIDE DEF n
  <2> QED BY <2>1, <2>2, StillOwns
<1>5. ASSUME NEW p \in Pages, PollRead(p) PROVE Own'
  <2> DEFINE n == [pages[p] EXCEPT !.seen = View(doc, canonical)]
  <2>1. SetPage(p, n) /\ UNCHANGED <<doc, late, astray>> BY <1>5 DEF PollRead
  <2>2. n.shown = pages[p].shown /\ n.base = pages[p].base /\ n.calls = pages[p].calls /\ n.act = pages[p].act
    BY PageFacts DEF PageStates
  <2> HIDE DEF n
  <2> QED BY <2>1, <2>2, StillOwns
<1>6. ASSUME NEW p \in Pages, NEW act \in {"save", "discard", "leave"}, Ask(p, act) PROVE Own'
  <2> DEFINE n == [pages[p] EXCEPT !.act = act, !.level = IF act = "save" THEN pages[p].shown ELSE Original]
  <2>1. SetPage(p, n) /\ UNCHANGED <<doc, late, astray>> BY <1>6 DEF Ask
  <2>2. n.shown = pages[p].shown /\ n.base = pages[p].base /\ n.calls = pages[p].calls BY PageFacts DEF PageStates
  <2> HIDE DEF n
  <2>3. n.calls["act"].request = None BY <1>6, <2>2, PageFacts, IdleIsOK DEF Ask, InFlight
  <2> QED BY <2>1, <2>2, <2>3, StillOwns
<1>7. ASSUME NEW p \in Pages, SendSave(p) PROVE Own'
  <2>1. UNCHANGED <<doc, late>> /\ astray \subseteq astray' BY <1>7 DEF SendSave, Astray
  <2>2. CASE pages[p].conflict
    <3>1. SetPage(p, Done(pages[p])) BY <1>7, <2>2 DEF SendSave
    <3>2. p \notin astray' => \A f \in Fields : pages[p].shown[f] # pages[p].base.body[f] => pages[p].shown[f].by = p
      BY <2>1 DEF Own, OwnPage
    <3> QED BY <2>1, <3>1, <3>2, PageFacts, DoneOwns
  <2>3. CASE ~pages[p].conflict
    <3> DEFINE q == [Request(p, "save", pages[p].level) EXCEPT !.base = Original]
    <3>1. SetPage(p, Send(pages[p], "act", q)) /\ Astray(p, pages[p].level # pages[p].shown)
      BY <1>7, <2>3 DEF SendSave
    <3>2. q \in Requests /\ q.kind = "save" /\ q.level = pages[p].level /\ q.revision = pages[p].base.revision
      BY PageFacts, PageFields, RequestFields
    <3>3. p \notin astray' => q.level = pages[p].shown BY <3>1, <3>2 DEF Astray
    <3> HIDE DEF q
    <3> QED BY <2>1, <3>1, <3>2, <3>3, SendOwns DEF Kinds
  <2> QED BY <2>2, <2>3
<1>8. ASSUME NEW p \in Pages, SendDiscard(p) PROVE Own'
  <2> DEFINE q == [Request(p, "discard", Original) EXCEPT !.base = Original]
  <2>1. SetPage(p, Send(pages[p], "act", q)) /\ UNCHANGED <<doc, late, astray>> /\ pages[p].act = "discard"
    BY <1>8 DEF SendDiscard, Ready
  <2>2. q \in Requests /\ q.kind = "discard" BY OriginalIsBody, RequestFields
  <2> HIDE DEF q
  <2> QED BY <2>1, <2>2, SendOwns DEF Kinds
<1>9. ASSUME NEW p \in Pages, LeaveAnswered(p) PROVE Own' BY <1>9, EndSessionOwns DEF LeaveAnswered
<1>10. ASSUME NEW q \in late, ServeLate(q) PROVE Own'
  <2>1. q \in Requests /\ Sent(q, doc, stored) BY DEF Inv
  <2>2. Apply(q) /\ late' \subseteq late /\ UNCHANGED <<pages, astray>> BY <1>10 DEF ServeLate
  <2> QED BY <2>1, <2>2, ApplyOwns
<1>11. ASSUME NEW f \in Fields, Publish(f) PROVE Own' BY <1>11 DEF Publish, Own
<1> QED
  BY <1>1, <1>2, <1>3, <1>4, <1>5, <1>6, <1>7, <1>8, <1>9, <1>10, <1>11,
     OpenOwns, AutosaveAnsweredOwns, PollApplyOwns, ActAnsweredOwns, UnloadOwns, EditOwns, ServeOwns, LoseOwns
  DEF Next

\* What one request may do to the document.
LEMMA OwnWrites ==
  ASSUME Inv, NEW p \in Pages, NEW q \in Requests, Sent(q, doc, stored), OwnRequest(p, q, doc), q.kind # "discard", Apply(q)
  PROVE  \A f \in Fields : doc'.body[f] # doc.body[f] => doc'.body[f].by = p
<1>1. doc' = Outcome(q).doc BY DEF Apply
<1>2. q.kind = "autosave" \/ q.kind = "save" BY DEF Requests
<1>3. CASE doc' = doc BY <1>3
<1>4. CASE doc' # doc /\ q.kind = "autosave"
  <2> DEFINE body == IF q.revision < doc.revision THEN Merge(q.base, q.level, doc.body) ELSE q.level
  <2>1. Outcome(q) = Autosave(q) BY <1>1, <1>4 DEF Outcome, Refusal, Effect
  <2>2. doc'.body = body BY <1>1, <2>1 DEF Autosave, Effect, Written
  <2>3. q.level \in Bodies /\ doc.body \in Bodies /\ q.revision \in Nat /\ doc.revision \in Nat
    BY DEF Requests, Inv, DocOK, Docs
  <2>4. \A f \in Fields : q.level[f] # q.base[f] => q.level[f].by = p BY <1>4 DEF OwnRequest
  <2>5. CASE q.revision < doc.revision
    <3>1. doc'.body = Merge(q.base, q.level, doc.body) BY <2>2, <2>5
    <3>2. \A f \in Fields : doc'.body[f] = IF q.level[f] = q.base[f] THEN doc.body[f] ELSE q.level[f]
      BY <3>1, <2>3, MergeIsBody
    <3> QED BY <3>2, <2>4
  <2>6. CASE ~(q.revision < doc.revision)
    <3>1. q.base = doc.body BY <1>4, <2>3, <2>6 DEF Sent
    <3> QED BY <2>2, <2>4, <2>6, <3>1
  <2> QED BY <2>5, <2>6
<1>5. CASE doc' # doc /\ q.kind = "save"
  <2>1. Outcome(q) = Save(q) BY <1>1, <1>5 DEF Outcome, Refusal, Effect
  <2>2. q.revision = doc.revision BY <1>1, <1>5, <2>1 DEF Save, Refusal, Effect
  <2>3. doc'.body = q.level BY <1>1, <1>5, <2>1 DEF Save, Refusal, Effect, Written
  <2> QED BY <1>5, <2>2, <2>3 DEF OwnRequest
<1> QED BY <1>2, <1>3, <1>4, <1>5

LEMMA WritesAreOwn ==
  ASSUME Inv, Own, NEW p \in Pages \ astray, Writes(p)
  PROVE  \A f \in Fields : doc'.body[f] # doc.body[f] => doc'.body[f].by = p
<1>1. ASSUME NEW c \in Kinds, Serve(p, c), pages[p].calls[c].request.kind # "discard"
      PROVE  \A f \in Fields : doc'.body[f] # doc.body[f] => doc'.body[f].by = p
  <2> DEFINE q == pages[p].calls[c].request
  <2>1. pages[p].calls[c] \in Calls /\ CallOK(p, pages[p].calls[c], doc, stored) /\ q # None
    BY <1>1, PageFacts, PageFields DEF Serve, Told
  <2>2. q \in Requests /\ Sent(q, doc, stored) BY <2>1 DEF Calls, CallOK
  <2>3. OwnRequest(p, q, doc) BY <2>1 DEF Own, OwnPage
  <2>4. Apply(q) BY <1>1 DEF Serve
  <2>5. q.kind # "discard" BY <1>1
  <2> HIDE DEF q
  <2> QED BY <2>2, <2>3, <2>4, <2>5, OwnWrites
<1>2. ASSUME NEW q \in late, q.by = p, q.kind # "discard", ServeLate(q)
      PROVE  \A f \in Fields : doc'.body[f] # doc.body[f] => doc'.body[f].by = p
  <2>1. q \in Requests /\ Sent(q, doc, stored) /\ OwnRequest(p, q, doc) BY <1>2 DEF Inv, Own
  <2> QED BY <1>2, <2>1, OwnWrites DEF ServeLate
<1> QED BY <1>1, <1>2 DEF Writes

\* A write, of a page that is open or gone, changes only fields its own user typed,
\* however old the revision it was made at (docs/adr/0304; dbAutosaveEditorDocument, dbSaveEditorDocument).
THEOREM IndependentWork == Spec => IndependentWorkSurvives
<1>1. Init => Own BY InitOwn
<1>2. Inv /\ Own /\ [Next]_vars => Own' BY NextOwn
<1>3. Inv /\ Own => \A p \in Pages \ astray :
        Writes(p) => \A f \in Fields : doc'.body[f] # doc.body[f] => doc'.body[f].by = p
  BY WritesAreOwn
<1> QED BY <1>1, <1>2, <1>3, InvHolds, PTL DEF Spec, IndependentWorkSurvives
=============================================================================
