------------------------- MODULE ThumbnailManifest -------------------------
(***************************************************************************)
(* The manifest of level pictures that rides beside a document of levels:  *)
(* backend/revisionMemo.js as the document routes of backend/server.js use *)
(* it, over the pipeline that bakes a picture per level and keeps it in    *)
(* level_thumbnail_derivatives.  One document and its entry of the memo:   *)
(* the entries of other documents meet this one only by eviction.          *)
(*                                                                         *)
(* A picture is known by its content version, a hash of all that can       *)
(* change its pixels: the body of the level and the catalogs it was drawn  *)
(* from.  Two catalogs are told apart, the one of the units, read through  *)
(* a cache, and "art" for the others, read from the database; every        *)
(* revision of either is taken to change every picture.  The blobs are     *)
(* left out: they are immutable and never deleted here.                    *)
(***************************************************************************)
EXTENDS Naturals, FiniteSets

CONSTANTS
  Levels,
  Reads,         \* GETs of the document, and the warm-up after boot
  Writes,        \* Saves of a level and PUTs of the whole document
  Slots,         \* LEVEL_THUMBNAIL_RENDER_CONCURRENCY
  None,
  MaxArt,        \* bound: revision of the art catalogs
  MaxUnits       \* bound: revision of the unit catalog

Workers == Reads \cup Writes

VARIABLES
  doc,           \* the stored document
  catalog,       \* the revisions in the database
  units,         \* unitCatalogCache, the reads about to fill it, an invalidation due
  rows,          \* level_thumbnail_derivatives: level -> content version
  entry,         \* the memo's entry
  inFlight,      \* the memo's computation in flight, named by the read that began it
  baking,        \* levelThumbnailDerivativeInFlight: level -> worker
  reads,         \* the reads
  batch,         \* what each worker prepares
  bake           \* the derivative of each level a worker has to ensure

vars == <<doc, catalog, units, rows, entry, inFlight, baking, reads, batch, bake>>

Catalogs == [art: Nat, units: Nat]
Contents == [body: Nat, art: Nat, units: Nat]
Manifests == [Levels -> Contents \cup {None}]
Documents == [revision: Nat, body: [Levels -> Nat]]

TypeOK ==
  /\ doc \in Documents
  /\ catalog \in Catalogs
  /\ units \in [cache: Nat \cup {None}, fills: SUBSET Nat, committed: BOOLEAN]
  /\ rows \in Manifests
  /\ entry \in [revision: Nat, asked: Catalogs, value: Manifests, settled: BOOLEAN] \cup {None}
  /\ inFlight \in Reads \cup {None}
  /\ baking \in [Levels -> Workers \cup {None}]
  /\ reads \in [Reads -> [stage: {"new", "document", "keyed", "waiting", "answered", "failed", "lost"},
                          doc: Documents, asked: Catalogs, on: Reads \cup {None},
                          answer: Manifests \cup {None},
                          source: {"memo", "stale", "computed", "none"}]]
  /\ batch \in [Workers -> [at: {"idle", "load", "project", "check", "bake", "over"},
                            body: [Levels -> Nat], inputs: Catalogs, content: Manifests]]
  /\ bake \in [Workers -> [Levels -> [at: {"idle", "load", "project", "ensure", "join", "behind",
                                           "slot", "create", "render", "done", "failed"},
                                      on: Workers \cup {None}, inputs: Catalogs,
                                      content: Contents \cup {None}]]]

Nothing == [l \in Levels |-> None]
Start == [art |-> 1, units |-> 1]

(* A batch, and a derivative, with nothing left to remember. *)
Unused(at) ==
  [at |-> at, body |-> [l \in Levels |-> 0], inputs |-> Start, content |-> Nothing]

Settled(at) == [at |-> at, on |-> None, inputs |-> Start, content |-> None]

Init ==
  /\ \E body \in [Levels -> {0, 1}] : doc = [revision |-> 1, body |-> body]
  /\ catalog = Start
  /\ units = [cache |-> None, fills |-> {}, committed |-> FALSE]
  /\ rows = Nothing
  /\ entry = None
  /\ inFlight = None
  /\ baking = Nothing
  /\ reads = [r \in Reads |-> [stage |-> "new", doc |-> doc, asked |-> Start, on |-> None,
                               answer |-> None, source |-> "none"]]
  /\ batch = [w \in Workers |-> Unused("idle")]
  /\ bake = [w \in Workers |-> [l \in Levels |-> Settled("idle")]]

----------------------------------------------------------------------------
(* The catalogs *)

(* A catalog other than that of the units moves. *)
CommitArt ==
  /\ catalog.art < MaxArt
  /\ catalog' = [catalog EXCEPT !.art = @ + 1]
  /\ UNCHANGED <<doc, units, rows, entry, inFlight, baking, reads, batch, bake>>

CommitUnits ==
  /\ catalog.units < MaxUnits
  /\ ~units.committed
  /\ catalog' = [catalog EXCEPT !.units = @ + 1]
  /\ units' = [units EXCEPT !.committed = TRUE]
  /\ UNCHANGED <<doc, rows, entry, inFlight, baking, reads, batch, bake>>

InvalidateUnits ==
  /\ units.committed
  /\ units' = [units EXCEPT !.committed = FALSE, !.cache = None]
  /\ UNCHANGED <<doc, catalog, rows, entry, inFlight, baking, reads, batch, bake>>

(* A read of the unit catalog, by whoever asked, is answered and cached. *)
FillUnits ==
  \E u \in units.fills :
    /\ units' = [units EXCEPT !.fills = @ \ {u}, !.cache = u]
    /\ UNCHANGED <<doc, catalog, rows, entry, inFlight, baking, reads, batch, bake>>

(* UNIT_CATALOG_CACHE_TTL_MS runs out. *)
ExpireUnits ==
  /\ units.cache # None
  /\ units' = [units EXCEPT !.cache = None]
  /\ UNCHANGED <<doc, catalog, rows, entry, inFlight, baking, reads, batch, bake>>

(* publicUnitCatalog: the cache, or the database and then the cache. *)
PublicUnits == IF units.cache = None THEN catalog.units ELSE units.cache

Filling == IF units.cache = None THEN [units EXCEPT !.fills = @ \cup {catalog.units}] ELSE units

(* loadThumbnailRenderInputs *)
RenderInputs == [art |-> catalog.art, units |-> PublicUnits]

ContentVersion(body, inputs) == [body |-> body, art |-> inputs.art, units |-> inputs.units]

----------------------------------------------------------------------------
(* The memo *)

Tuple(r) == <<reads[r].doc.revision, reads[r].asked>>

\* Mutant: a computation of an older document is joined when the catalogs are the same.
BeginsCompute_AnyDocument(r) == inFlight = None \/ reads[inFlight].asked # reads[r].asked

BeginsCompute(r) == inFlight = None \/ Tuple(inFlight) # Tuple(r)

Computing(r) == [batch EXCEPT ![r].at = "load", ![r].body = reads[r].doc.body]

(* beginCompute: the computation in flight for the same tuple, or a new one. *)
BeginCompute(r) ==
  IF BeginsCompute(r)
    THEN inFlight' = r /\ batch' = Computing(r)
    ELSE UNCHANGED <<inFlight, batch>>

Retained(r, value) ==
  [revision |-> reads[r].doc.revision, asked |-> reads[r].asked, value |-> value,
   settled |-> \A l \in Levels : reads[r].doc.body[l] # 0 => value[l] # None]

\* Mutant: a computation is forgotten only by the one that replaces it.
Released_Never(r) == inFlight

Released(r) == IF inFlight = r THEN None ELSE inFlight

(* The readers that await the computation of r hear how it ended. *)
Heard(r, stage, value) ==
  [q \in Reads |->
     IF reads[q].stage = "waiting" /\ reads[q].on = r
       THEN [reads[q] EXCEPT !.stage = stage, !.answer = value, !.source = "computed"]
       ELSE reads[q]]

(* Other documents are read, and the memo is full. *)
Evict ==
  /\ entry # None
  /\ entry' = None
  /\ UNCHANGED <<doc, catalog, units, rows, inFlight, baking, reads, batch, bake>>

----------------------------------------------------------------------------
(* Reading the document *)

ReadDocument(r) ==
  /\ reads[r].stage = "new"
  /\ reads' = [reads EXCEPT ![r].stage = "document", ![r].doc = doc]
  /\ UNCHANGED <<doc, catalog, units, rows, entry, inFlight, baking, batch, bake>>

ReadInputsKey(r) ==
  /\ reads[r].stage = "document"
  /\ reads' = [reads EXCEPT ![r].stage = "keyed", ![r].asked = catalog]
  /\ UNCHANGED <<doc, catalog, units, rows, entry, inFlight, baking, batch, bake>>

Answered(r, source) ==
  [reads EXCEPT ![r].stage = "answered", ![r].answer = entry.value, ![r].source = source]

SameDocument(r) == entry # None /\ entry.revision = reads[r].doc.revision

\* Mutant: what is retained for the document is served as current.
SameTuple_AnyCatalogs(r) == SameDocument(r) /\ entry.settled

SameTuple(r) == SameDocument(r) /\ entry.asked = reads[r].asked /\ entry.settled

(* The memo's read, up to its await. *)
Consult(r) ==
  /\ reads[r].stage = "keyed"
  /\ \/ /\ SameTuple(r)
        /\ reads' = Answered(r, "memo")
        /\ UNCHANGED <<inFlight, batch>>
     \/ /\ SameDocument(r)
        /\ ~SameTuple(r)
        /\ reads' = Answered(r, "stale")
        /\ BeginCompute(r)
     \/ /\ ~SameDocument(r)
        /\ BeginCompute(r)
        /\ reads' = [reads EXCEPT ![r].stage = "waiting", ![r].on = inFlight']
  /\ UNCHANGED <<doc, catalog, units, rows, entry, baking, bake>>

----------------------------------------------------------------------------
(* Writing the document *)

(* The next body of a level: the revision that wrote it. *)
Rewritten(l, body) == [doc EXCEPT !.revision = @ + 1, !.body[l] = body]

(* Save of one level: the answer waits for the derivative of that level. *)
Save(s) ==
  \E l \in Levels :
    /\ batch[s].at = "idle"
    /\ doc.body[l] # 0
    /\ doc' = Rewritten(l, doc.revision + 1)
    /\ batch' = [batch EXCEPT ![s].at = "load", ![s].body[l] = doc.revision + 1]
    /\ UNCHANGED <<catalog, units, rows, entry, inFlight, baking, reads, bake>>

(* PUT of the whole document, which changes a level, adds or removes one.  That
   of a player's workspace prepares nothing: a Put that is rejected at once. *)
Put(s) ==
  \E l \in Levels : \E body \in {0, doc.revision + 1} :
    /\ batch[s].at = "idle"
    /\ body # doc.body[l]
    /\ doc' = Rewritten(l, body)
    /\ batch' = [batch EXCEPT ![s].at = "load", ![s].body = doc'.body]
    /\ UNCHANGED <<catalog, units, rows, entry, inFlight, baking, reads, bake>>

----------------------------------------------------------------------------
(* Preparing a batch, and ensuring its derivatives *)

Load(w) ==
  /\ batch[w].at = "load"
  /\ batch' = [batch EXCEPT ![w].at = "project", ![w].inputs = RenderInputs]
  /\ units' = Filling
  /\ UNCHANGED <<doc, catalog, rows, entry, inFlight, baking, reads, bake>>

Prepared(w) ==
  [l \in Levels |-> IF batch[w].body[l] = 0 THEN None
                    ELSE ContentVersion(batch[w].body[l], batch[w].inputs)]

Toward(w, content, missing) ==
  [bake EXCEPT ![w] = [l \in Levels |->
     IF l \in missing THEN [@[l] EXCEPT !.at = "ensure", !.content = content[l]] ELSE @[l]]]

(* The render critical section: one holder, so one step. *)
Project(w) ==
  /\ batch[w].at = "project"
  /\ IF w \in Reads
       THEN /\ batch' = [batch EXCEPT ![w].at = "check", ![w].content = Prepared(w)]
            /\ UNCHANGED bake
       ELSE /\ batch' = [batch EXCEPT ![w].at = "bake", ![w].content = Prepared(w)]
            /\ bake' = Toward(w, Prepared(w), {l \in Levels : Prepared(w)[l] # None})
  /\ UNCHANGED <<doc, catalog, units, rows, entry, inFlight, baking, reads>>

(* currentStoredLevelThumbnailUrls *)
CurrentStored(w) ==
  [l \in Levels |-> IF rows[l] = batch[w].content[l] THEN rows[l] ELSE None]

Missing(w) == {l \in Levels : batch[w].content[l] # None /\ CurrentStored(w)[l] = None}

(* The computation of r ends: its manifest is retained and its readers hear of it. *)
Finish(r) ==
  /\ entry' = Retained(r, CurrentStored(r))
  /\ inFlight' = Released(r)
  /\ reads' = Heard(r, "answered", CurrentStored(r))
  /\ batch' = [batch EXCEPT ![r] = Unused("over")]

Check(r) ==
  /\ batch[r].at = "check"
  /\ \/ /\ Missing(r) = {}
        /\ Finish(r)
        /\ UNCHANGED bake
     \/ /\ Missing(r) # {}
        /\ bake' = Toward(r, batch[r].content, Missing(r))
        /\ batch' = [batch EXCEPT ![r].at = "bake"]
        /\ UNCHANGED <<entry, inFlight, reads>>
  /\ UNCHANGED <<doc, catalog, units, rows, baking>>

Baked(w) == \A l \in Levels : bake[w][l].at \in {"idle", "done", "failed"}

Collect(w) ==
  /\ batch[w].at = "bake"
  /\ Baked(w)
  /\ IF w \in Reads
       THEN Finish(w)
       ELSE /\ batch' = [batch EXCEPT ![w] = Unused("over")]
            /\ UNCHANGED <<entry, inFlight, reads>>
  /\ UNCHANGED <<doc, catalog, units, rows, baking, bake>>

(* The database or the renderer refuses: the computation rejects and nothing
   is retained; a write has committed and only answers without a picture. *)
Reject(w) ==
  /\ \/ batch[w].at \in {"load", "project", "check"}
     \/ batch[w].at = "bake" /\ Baked(w) /\ w \in Reads
  /\ batch' = [batch EXCEPT ![w] = Unused("over")]
  /\ IF w \in Reads
       THEN inFlight' = Released(w) /\ reads' = Heard(w, "failed", None)
       ELSE UNCHANGED <<inFlight, reads>>
  /\ UNCHANGED <<doc, catalog, units, rows, entry, baking, bake>>

----------------------------------------------------------------------------
(* One derivative *)

At(w, l) == bake[w][l].at

Over(w, l) == At(w, l) \in {"done", "failed"}

(* ensurePreparedLevelThumbnailDerivative, up to its await *)
Ensure(w, l) ==
  /\ At(w, l) = "ensure"
  /\ \/ /\ baking[l] = None
        /\ baking' = [baking EXCEPT ![l] = w]
        /\ bake' = [bake EXCEPT ![w][l].at = "slot"]
     \/ /\ baking[l] # None
        /\ bake' = [bake EXCEPT
             ![w][l].on = baking[l],
             ![w][l].at = IF bake[baking[l]][l].content = bake[w][l].content
                            THEN "join" ELSE "behind"]
        /\ UNCHANGED baking
  /\ UNCHANGED <<doc, catalog, units, rows, entry, inFlight, reads, batch>>

(* The derivative awaited is over: it was this one, or it is prepared anew. *)
Resume(w, l) ==
  /\ At(w, l) \in {"join", "behind"}
  /\ Over(bake[w][l].on, l)
  /\ bake' = [bake EXCEPT ![w][l] =
                 IF @.at = "join" THEN Settled(At(@.on, l)) ELSE Settled("load")]
  /\ UNCHANGED <<doc, catalog, units, rows, entry, inFlight, baking, reads, batch>>

LoadAgain(w, l) ==
  /\ At(w, l) = "load"
  /\ bake' = [bake EXCEPT ![w][l].at = "project", ![w][l].inputs = RenderInputs]
  /\ units' = Filling
  /\ UNCHANGED <<doc, catalog, rows, entry, inFlight, baking, reads, batch>>

ProjectAgain(w, l) ==
  /\ At(w, l) = "project"
  /\ \/ bake' = [bake EXCEPT ![w][l].at = "ensure",
                             ![w][l].content = ContentVersion(batch[w].body[l], bake[w][l].inputs)]
     \/ bake' = [bake EXCEPT ![w][l] = Settled("failed")]
  /\ UNCHANGED <<doc, catalog, units, rows, entry, inFlight, baking, reads, batch>>

(* withLevelThumbnailRenderSlot; its queue is taken in any order. *)
TakeSlot(w, l) ==
  /\ At(w, l) = "slot"
  /\ Cardinality({v \in Workers \X Levels : At(v[1], v[2]) \in {"create", "render"}}) < Slots
  /\ bake' = [bake EXCEPT ![w][l].at = "create"]
  /\ UNCHANGED <<doc, catalog, units, rows, entry, inFlight, baking, reads, batch>>

(* pending settles: the slot is free again, and so is the level. *)
Settle(w, l, outcome) ==
  /\ bake' = [bake EXCEPT ![w][l] = Settled(outcome)]
  /\ baking' = [baking EXCEPT ![l] = IF @ = w THEN None ELSE @]

(* createPreparedLevelThumbnailDerivative looks once more for the row. *)
Create(w, l) ==
  /\ At(w, l) = "create"
  /\ \/ /\ rows[l] = bake[w][l].content
        /\ Settle(w, l, "done")
     \/ /\ rows[l] # bake[w][l].content
        /\ bake' = [bake EXCEPT ![w][l].at = "render"]
        /\ UNCHANGED baking
  /\ UNCHANGED <<doc, catalog, units, rows, entry, inFlight, reads, batch>>

Render(w, l) ==
  /\ At(w, l) = "render"
  /\ \/ rows' = [rows EXCEPT ![l] = bake[w][l].content] /\ Settle(w, l, "done")
     \/ UNCHANGED rows /\ Settle(w, l, "failed")
  /\ UNCHANGED <<doc, catalog, units, entry, inFlight, reads, batch>>

----------------------------------------------------------------------------
(* The process restarts: what it held in memory is gone. *)
Restart ==
  /\ units' = [cache |-> None, fills |-> {}, committed |-> FALSE]
  /\ entry' = None
  /\ inFlight' = None
  /\ baking' = Nothing
  /\ reads' = [r \in Reads |->
                 IF reads[r].stage \in {"document", "keyed", "waiting"}
                   THEN [reads[r] EXCEPT !.stage = "lost"] ELSE reads[r]]
  /\ batch' = [w \in Workers |->
                 IF batch[w].at = "idle" THEN batch[w] ELSE Unused("over")]
  /\ bake' = [w \in Workers |-> [l \in Levels |->
                 IF At(w, l) = "idle" THEN bake[w][l] ELSE Settled("failed")]]
  /\ UNCHANGED <<doc, catalog, rows>>

Work(w) ==
  \/ Load(w) \/ Project(w) \/ Collect(w)
  \/ \E l \in Levels :
       \/ Ensure(w, l) \/ Resume(w, l) \/ LoadAgain(w, l) \/ ProjectAgain(w, l)
       \/ TakeSlot(w, l) \/ Create(w, l) \/ Render(w, l)

Read(r) == ReadInputsKey(r) \/ Consult(r) \/ Check(r)

Next ==
  \/ CommitArt \/ CommitUnits \/ InvalidateUnits \/ FillUnits \/ ExpireUnits
  \/ Evict \/ Restart
  \/ \E r \in Reads : ReadDocument(r) \/ Read(r)
  \/ \E s \in Writes : Save(s) \/ Put(s)
  \/ \E w \in Workers : Work(w) \/ Reject(w)

Spec == Init /\ [][Next]_vars

----------------------------------------------------------------------------
AtWork(w) == batch[w].at \notin {"idle", "over"}

Busy(w, l) == At(w, l) \in {"slot", "create", "render"}

Shown(r) == IF reads[r].stage = "answered" THEN {l \in Levels : reads[r].answer[l] # None} ELSE {}

(* "Serving a manifest from a different level set than the document beside
   it is never acceptable": every picture of an answer is one of the level
   as the document in that answer has it, whichever computations overlapped
   and in whichever order they were retained (revisionMemo.js:54-87). *)
ServedBesideItsDocument ==
  \A r \in Reads : \A l \in Shown(r) :
    reads[r].answer[l].body = reads[r].doc.body[l]

(* An answer that does not say it is stale shows the art of the catalogs the
   reader asked about, or later ones: a computation begun for older catalogs
   is neither joined nor taken from the memo (revisionMemo.js:56, 77). *)
FreshAsAsked ==
  \A r \in Reads : reads[r].source # "stale" =>
    \A l \in Shown(r) : reads[r].answer[l].art >= reads[r].asked.art

(* Whoever waits is served: a reader by a computation that is at work, a level
   and a memo in flight by whoever they name, and a derivative that waits for
   another by one that does not wait itself, whatever was refused, evicted or
   lost in between (revisionMemo.js:66, server.js 25133-25152). *)
EveryWaitIsServed ==
  /\ \A r \in Reads : reads[r].stage = "waiting" => AtWork(reads[r].on)
  /\ inFlight # None => AtWork(inFlight)
  /\ \A l \in Levels : baking[l] # None => Busy(baking[l], l)
  /\ \A w \in Workers, l \in Levels :
       At(w, l) \in {"join", "behind"} => Busy(bake[w][l].on, l) \/ Over(bake[w][l].on, l)

(* ADR-0258: after a catalog moved "thumbnails may briefly (one background
   pass) reflect the previous art version": once a pass for the catalogs has
   settled, the retained manifest shows all of them. *)
OnePassBehind ==
  entry # None =>
    \A l \in Levels : entry.settled /\ entry.value[l] # None =>
      /\ entry.value[l].art >= entry.asked.art
      /\ entry.value[l].units >= entry.asked.units
=============================================================================
