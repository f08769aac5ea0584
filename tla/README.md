# Verification of Chess Tactics

TLA+ models of the multiplayer core of Chess Tactics (`src/backend/server.js`,
`src/frontend/src/`), of its Runs (`src/packages/board-render/src/run/`,
`src/frontend/src/run/`, `game/`), of the documents of its Level editor
(`src/frontend/src/ui/LevelEditor.tsx`, `core/sharedLevelMerge.ts`) and of what the
server process does behind them (the pictures of levels, media reads, its supervisor),
the TLC runs that check them on small instances, and the theorems about them that the
TLA+ proof system checks for every instance.

Chess Tactics is a browser game with one Node.js process behind it. What is hard to
get right is of two kinds. Several parties work on one piece of state without a common
clock: two players and the server on one match, several tabs on one seat, several
browsers and a database row on one Run, several editor tabs on one Level, overlapping
computations on one cache. And long sequences of decisions that can be
taken back act on several pieces of state at once: the purse, the army and the board
of a Run, with Undo, Retry, reroll, Reset and reloads. The models are about those.

- [1. The system](#1-the-system)
- [2. The modules](#2-the-modules)
- [3. The runs](#3-the-runs)
- [4. Fairness](#4-fairness)
- [5. The proofs](#5-the-proofs)
- [6. What the code does not do](#6-what-the-code-does-not-do)
- [7. What is not modelled](#7-what-is-not-modelled)
- [8. Plan](#8-plan)

## 1. The system

`PROJECT.json` lists all components with their status. Those that keep state which
more than one party changes are:

| Component | State | Operations | Interacts through |
|---|---|---|---|
| Lobby server (`server.js` 8270-8450, 8690-9402) | the in-process `lobbies` Map, one set of event streams per lobby | create, join, level, start, move, report, resign, leave, subscribe, tombstone expiry | HTTP handlers, server-sent events; reads the official levels in the database |
| Lobby match client (`Skirmish.tsx` 499-1293, `game/store.ts` 1361-1892, `netIntentPersistence.ts`, `netSeatLease.ts`, `net/lobbies.ts`) | board, pending intent, freeze/halt/dispute flags, verdict; per seat a journal in `localStorage` and a lease | enter, backfill, submit, retry, apply a relayed move, report the end, resign, leave, unmount | requests and the event stream of the lobby server; `localStorage` between tabs |
| Active Run watchers (`server.js` 23930-24052, `net/runObservation.ts`) | two sets of event streams, keyed by account | observe, close, publish a save, publish the count | the `active_runs` table, the handlers that write it |
| Active Run persistence (`run/store.ts`, `net/activeRun.ts`, `server.js` 24098-24300) | the Run in memory, in `localStorage` and in a database row with a revision | replace, save chain, abandon, adopt browser or account Run, adopt a guest's Run | compare-and-swap on the revision |
| A Battle of a Run (`run/model.ts`, `game/store.ts`, `game/matchPersistence.ts`) | purse and casualties in the Run, the board and its undo stack in the mounted scene, a copy of both in `localStorage` | move, reply, flag, Undo, Retry, reroll, report, reload, resume | two entries of `localStorage`, written one after the other |
| Run model (`run/model.ts`, `run/deployment.ts`, `RunScreen.tsx`) | phase, purse, army and cards, lipsana, the records of Deployment, report and Sectio | every transition from the choice of a King to victory | pure transitions; the Run document goes to the persistence above |
| Editor documents and campaign workspace (`server.js` 10312-11786, 13050-13133, `LevelEditor.tsx` 6448-8815, `sharedLevelMerge.ts`, `levelEditorPersistence.ts`, `levelEditorDraft.ts`) | the row of a working copy (body, `revision`, `saved_revision`, `baseline_hash`) with its history, the board and base of every page, drafts and archived branches in `localStorage` | open, edit, autosave, poll, Save, Discard, leave, unload; the Campaign Editor writes the whole workspace | compare-and-swap and a three-way merge in one transaction; `localStorage` between tabs; the lobby server reads what is published |
| Revision memo and thumbnails (`revisionMemo.js`, `server.js` 22456-22474, 22618-22640, 24837-25169) | the manifest retained per document, the computation in flight, the derivative being baked per level, the table of derivatives, the cache of the unit catalog | read a document, Save, PUT, prepare, bake, join, evict, invalidate | promises inside the server; the database between restarts |
| Byte budget, limiter, render section (`liveMediaReadBudget.js`, `asyncWorkLimiter.js`, `renderCriticalSection.js`) | in-process queues and counters | admit, abort, release | promises and abort signals inside the server |
| Supervisor (`supervisor.js`) | the child process, a kill timer and respawn timers | spawn, exit, SIGHUP, SIGTERM | signals |

What makes them hard:

- **Lobby server.** A handler runs undisturbed between two awaits, but the level and
  start handlers await the official document and then act on a lobby that others may
  have changed; the seat they checked may have been vacated and taken again. Records
  are dropped by a lazy purge in the middle of unrelated lookups. A match can end
  through two equal reports, two different ones, a resignation or a Leave that is one
  of these, in any order, and must end once. Correctness: one open lobby per user, a
  match pinned to one coherent content, an ordered log without duplicates, a result
  with evidence behind it that never changes, private streams, no record dropped
  while a seat still needs it.
- **Lobby match client.** A move travels as a POST, comes back as its answer, as an
  event and in any number of backfills, and each of the four can be lost, late or
  repeated, before or after the tab that sent it was reloaded. Two tabs may hold the
  same seat. The two clients may be different builds. Correctness: the board is always
  a prefix of the server's log; one gesture per slot; a verdict only on the complete
  log; nobody is resigned without having confirmed it; and everything that is under
  way comes to an end.
- **Watchers.** The observe handler awaits twice between the arrival of a watcher and
  the moment it listens for its departure. Correctness: the count a player sees is
  that of the watchers there are, and a watcher sees what the player saved.

- **Active Run persistence.** A save is sent with the revision the page was last told,
  in a chain that a reload abandons; two browsers hold one row; a delete makes the
  revision start again. Correctness: what a page shows as settled is saved, nothing
  falls back to an older version, the DELETE of an abandoned Run spares the next one.
- **Battle.** A move changes the purse, the casualties, the board and the undo stack
  together; Undo restores all four and costs gold itself, so that every older
  checkpoint has to be charged too; a reload may find the two stored entries apart,
  and a history that storage has cut short. Correctness: no move is paid twice, no
  Undo is refunded, one press takes back one decision, and the opponent answers.
- **Editor documents.** Tabs with different bases write one document; an autosave, a
  poll, a Save and a reload overlap, answers overtake each other, and a request may
  arrive after its page is gone, while somebody else publishes or deletes the Level.
  Correctness: a revision names one body, a document that counts as saved holds what is
  published, nothing a user typed loses its only copy, and independent work is merged
  and not overwritten.
- **Run model.** A visit to the Sectio can be reset, left for the report of the Battle
  and entered again; offers are remembered per Conflict; ids are handed out again
  after a Reset. Correctness: every unit has one seat on one card, a Battle is banked
  once, what a visit did can be read off its record, the King is always fielded.
- **Manifests.** A read of a document joins a computation begun for another read, is
  answered from what an earlier one retained, or waits behind a picture that a Save is
  baking, while the document and the catalogs move on and the renderer may refuse.
  Correctness: no picture beside a document is one of another body, what is not marked
  stale is as new as the catalogs it was asked for, and nobody waits for work that was
  given up.
- **Byte budget.** A deadline may hit a read in the queue, between the promise that
  grants its bytes and the code that takes them, or while it reads. Correctness: bytes
  are counted once and returned once, and nobody waits for bytes that are free.
- **Supervisor.** Signals arrive while a child is being replaced, in the second between
  an exit and its respawn, or after the child died by a signal, which leaves its
  `exitCode` null. Correctness: there is always a server, one due, or an end in sight.

The rest of the repository is presentation, authoring tools, asset pipelines, pure
rules and generation; section 7 says why it is left out.

## 2. The modules

```
LobbyRecord ── LobbyServer ──(implements)── MatchAuthority
     │              └ MCLobbyServer
     └── NetTab ── NetMatch ── MCNetMatch
RunObservation ─┬─ MCRunObservation
                └─ MCServerProcess ── ReadBudget, Supervisor, ThumbnailManifest
ActiveRun ── MCActiveRun
RunBattle ── MCRunBattle
Campaign ── MCCampaign
EditorDocument ── MCEditorDocument
```

**LobbyRecord** is one record of the `lobbies` Map. Every function and handler of
`server.js` that reads or writes a lobby does so one record at a time, so each is an
operator from a record to a value or a record: `CanJoin`, `PinMatch`, `MayRelay`,
`Relay`, `RecordReport`, `Publish`, `Depart` and so on, with `Touch` (`touchLobby`)
inside the operators whose code calls it. Names, timestamps, the board seed and the
fingerprint of the level are abstracted; a level is a member of `Levels` with one of
the `Contents`, some of which have a clock (`TimedContents`).

**LobbyServer** is the Map with its handlers. An action is a handler after its
authentication; its refusals change nothing but for the purge that every lookup runs,
which is `Lookup` (and `Store`, `LiveStreams` inside every other action). The level
and start handlers are three actions each: `LevelRequest`/`StartRequest` capture
`expectedState`, `ReadDocument` is the await, `ApplyRequest` and `RefuseRequest` the
code after it. `Expire`, `Republish` and `Restart` are the environment: the tombstone
timer, authors, and the replacement of the single process (`k8s` runs one replica,
because nothing of a lobby is stored outside of it).

**MatchAuthority** is what a player may rely on without knowing any of this: under an
id at most one match is ever played, its content never changes, its log grows until
the first report, it is decided once, and only with the process is a live match
lost. `LobbyServer!ImplementsMatchAuthority` is the refinement under `MatchView`.

**NetTab** is a browser tab in a match: the `net` slice of the store and the effect of
`Skirmish.tsx`, as functions on a *view* (the tab and its seat's journal). `ApplyRelay`
is `applyRelayMove`, `OnLobby` and `Continue` are `onLobby` before and after its await,
`FirstChecked` is the catch of the move sink, `RetryEnded` the end of a recovery,
`Conclude` is `concludeNet`. Chess appears only as `Playable` (which gestures a
seat's build can play) and `Verdict` (what it adjudicates after one), both per seat,
so that two different builds can meet.

**NetMatch** puts tabs, journals, the network and the server's record together. A
request is sent, served and answered in separate steps; what it sends to others is
delivered through inboxes that a broken stream empties. The server side of a step is
LobbyRecord's operator, the same that LobbyServer uses. `Unmount` throws a tab away
together with its continuations and leaves its requests on the wire (`Orphans`), which
is what a reload does. `Unreliable` and `UserActs` select which failures and which
choices of the users an instance has.

**RunObservation** is the two sets of event streams of `server.js` and the steps of the
observe handler between its awaits. Writes of a Run are commit and acknowledgement.

**ActiveRun** is the Run of one person in the page, in `localStorage` and in the row,
on several browsers (`Devices`), signed in or not. `NextJob`/`JobAnswered` are the save
chain, `Hydrate`, `GuestAdopted` and `Hydrated` the arbitration between browser and row
when a page opens, `AdoptBrowserRun` and `KeepAccountRun` the player's choice in a
conflict. The three endpoints are functions from the rows to the rows and an answer
(`PutResult`, `DeleteResult`, `AdoptResult`), served as one transaction; `late` holds
the requests of pages that are gone. A Run is its id and the time of its version, and a
revision is kept with the Run it was acknowledged for, which the code does not do and
which `OnlySeenOverwritten` is about. `astray` is history: what befell a page that nothing
in the code keeps apart (section 6). The steps themselves are in the model and in the
runs: two scenes hydrate at once (`"hydrate"`), the player goes on while
`adoptBrowserRun` waits for its answers (`"choice"`), and a Run is started while a
DELETE waits behind a save in the chain (`"queue"`).

**RunBattle** is one Battle: `PlayerMove` is `commitPlayerMove` with everything it
changes, `UndoMove` is `undoLastPlayerMove` with `chargeRunBattleUndoCheckpoint`,
`PersistMatch` the write of the saved copy, which keeps the most recent half, quarter,
... of the history when storage refuses more, `Reload` and `Enter` the page going and
`startOrResume`. A move is what it tells the Run: gold, a fallen unit, a winner.
The model assumes that a board without any history fits into storage.

**Campaign** is the Run document from `createRun` to victory. An action is an exported
transition of `model.ts` or `deployment.ts` as `RunScreen.tsx` calls it. A unit is its
id, a card its id, core and seats, a formation the number of its squares; shuffles
are choices. `EntrySnapshot` and `ResetSectio` are what a visit can take back.
The Battle itself is one action here (`CloseBattle`) and a module of its own above; the
two share the purse, the phase and `RerollDeployment`, which both describe.

**EditorDocument** is one Level with its working copy, the pages that edit it and the
workspace it is published in. A body is a value per field, because the merge
(`mergeSharedLevel`, here `Merge`) works field by field: the server's value wins where
the page did not change its base. `Open` is the mount with its choice between the
document, the page's own draft and a preserved branch (`Boards`); `StartAutosave` and
`AutosaveAnswered`, `PollRead` and `PollApply`, `Ask`, `SendSave`/`SendDiscard` and
`ActAnswered` are the two sides of each await; `SendLeave` and `LeaveAnswered` the way
out, which sends a last autosave; `Unload` a reload or a closed tab, which leaves its
requests in `late`. `Serve`, `ServeLate` and `Lose` are the network, and one transaction
of the server is `Outcome` (`Autosave`, `Save`, `Discard`). `Publish` is the other
writer of the workspace (`dbPutWorkspace`), who may also remove the Level or put it
back. Three variables are history: `stored` are the values the document ever had (its
revisions, whose pruning is left out), `typed` what each user typed last and did not
discard, and `astray` the pages that have put a board on a base it was not built on,
which the code does at five places (section 6).

**ThumbnailManifest** is one document of levels, its entry of the memo and the pipeline
that bakes a picture per level. A read goes through `ReadDocument`, `ReadInputsKey` and
`Consult`, the memo's `read` with its three answers (retained, retained but stale,
waiting for a computation); `Save` and `Put` write the document and prepare pictures as
well. `Load`, `Project`, `Check`, `Collect` are the batch of a worker between its
awaits, `Ensure`, `Resume`, `TakeSlot`, `Create`, `Render` one derivative, which joins
the one of the same content or starts again behind another (`join`, `behind`). A picture
is the body and the catalogs it was made from, which is what its content version
hashes. `CommitUnits`, `InvalidateUnits` and `FillUnits` are the unit catalog, whose
cache is filled and emptied after awaits. `Evict` and `Restart` lose what is in memory.

**ReadBudget** is `liveMediaReadBudget.js`, a read by its bytes and how far it came;
**Supervisor** is `supervisor.js`, the processes by how they ended, with time in seconds
because the code relies on its respawn delay being shorter than its kill delay.

**MCLobbyServer**, **MCNetMatch**, **MCRunObservation**, **MCServerProcess**,
**MCActiveRun**, **MCRunBattle**, **MCCampaign** and **MCEditorDocument** hold the values
that a `.cfg` cannot express. Three of them have a variable `scene`, chosen in the
beginning and never changed, that selects which part of a run is played: two instances
each of the lobby server and of the Run store, which together would be too large, and
the four small protocols of the server process, which share no variable. A definition that begins with the comment "Mutant" is a wrong version of
the one that follows it and is used by nothing: each property is also run against the
specification with that version in place, to see that the property notices.

## 3. The runs

All bounds are constants of the modules: `MaxMoves`, `MaxRevision`, `MaxRequests` in
LobbyServer (with `MatchmakingRevision` for the scene that needs fewer), `MaxMoves`,
`MaxEntries`, `MaxFaults` in NetMatch, `MaxRevision` in RunObservation, `MaxTime`,
`MaxFaults`, `MaxReloads`, `MaxChain` in ActiveRun (with `MaxReloadTime` and `MaxPageChain` for its scenes), `MaxMoves`, `MaxReloads` in
RunBattle, `MaxRerolls` in Campaign, `MaxRevision`, `MaxEvents` in EditorDocument,
`MaxArt`, `MaxUnits`, `Slots` in ThumbnailManifest, `MaxBytes` in ReadBudget,
`MaxHangups` in Supervisor, and the sizes of the sets of users, ids, tabs, intents,
gestures, connections, devices, keys, units, cards, lipsana, pages, fields, levels,
reads and processes. Deadlock is not checked: a bounded match, a lobby nobody touches, a
player who has reached the bound, or a War that is won, stops. A type invariant that is
a theorem for every instance (section 5) is not repeated in a run.

| Run | Asks | Instance and why it is enough |
|---|---|---|
| `lobby` | `OneActiveLobbyPerUser`, `StreamsArePrivate`, `EveryChangeIsRevised`, `DroppedOnlyWhenDone`, `LogWellFormed`, `OutcomeJustified`, `PinnedMatch`, `RevisionIdentifiesState`, `MatchIsFinal`, `ImplementsMatchAuthority` | two scenes. Matchmaking: three users and two lobbies, so that a user can sit in one, look at another and be raced by a third; four revisions cover create, join, leave and a second join. A match: one lobby, three users, two levels of which at most one is published at a time, two contents of which one is timed, two suspended requests at once: every pair of level/start races with a guest that leaves and another that joins, and with a republication; two moves, three intents, two outcomes: both turns, a retry and a conflicting intent, agreeing and differing reports, every order of report, resignation and Leave |
| `netplay_log` | `TypeOK`, `BoardsArePrefixes`, `ConclusionHasPrefix` | two moves and one failure among POSTs, streams and backfills: each move is delivered by any subset of its four ways in any order, and gaps occur; a gesture that one build cannot play, and resignations: results overtake moves on both seats |
| `netplay_seat` | `InFlightIsJournaled`, `ConcessionIsDeliberate` | two tabs of one seat and the opponent, a reload or both tabs, a failing server; agreed and disputed ends of a game of one move, Leave from both seats |
| `netplay_progress` | `BoardCatchesUp`, `IntentSettles`, `ResultConfirmed` | a game of one move, reloads, one failed POST, broken stream or lost report, under `FairSpec` |
| `watch_mutations` | `MutationsReachWatchers`, violated | two players and a watcher |
| `active_run` | `SettledMeansSaved`, `NeverOlder`, `DeleteSparesReplacement` | scenes of two kinds. Two browsers, two guest keys, four jobs in a chain, three versions of Runs (a Run, its replacement and a newer version of either) or two and a reload, sign-in or sign-out: every conflict between the two, with a second abandon and start queued behind the first. One browser with two scenes of the page that hydrate its store, two jobs in a chain, three versions and one lost message or one reload, or two versions and both: every overlap of two hydrations, a choice and the chain with a failure. More of all this at once is beyond TLC's time, and within the theorems |
| `active_run_seen` | `OnlySeenOverwritten`, violated | two browsers, two jobs in a chain, no failure or reload |
| `run_battle` | `PurseFollowsBoard`, `UndoIsOneDecision`, `EnemyAnswers` | two units, moves that claim gold or none, a purse of 6.5 gold that pays six Undos, two Retries or one reroll: it runs dry in the middle of a history; three moves are three checkpoints, of which storage keeps three, one or none; two reloads |
| `campaign` | `EveryUnitIsSeated`, `KingTakesTheField`, `BankedAsReported`, `VisitBalances`, `LipsanaAccounted` | five Battles in three Conflicts, of which the second and third open with Bona Vacantia; one King, one kind of card, five lipsana, of which one pays gold and three change the market or the reward; capacities that admit one card, two, or three units |
| `editor_documents` | `CleanMeansPublished`, `RevisionNamesBody`, `NothingTypedIsLost`, `IndependentWorkSurvives` | two tabs of one browser and two fields, a Level that is published or was never saved; three events among edits, acts of the users, writes of the workspace and lost messages, with autosaves, polls and answers in any order around them; five revisions, which the longest of the five overwrites needs (an autosave of each tab, a Save and its successor); tabs and fields are interchangeable |
| `server_process` | `CountIsCurrent`, `BudgetIsExact`, `NobodyWaitsInVain`, `NeverStranded`, `ServedBesideItsDocument`, `FreshAsAsked`, `EveryWaitIsServed` | six scenes. Two players and three watchers; four reads of one to four bytes within four, so that some fit together and some do not; three processes and two SIGHUPs, enough for a reload that overtakes a respawn; a document of two levels, two reads and one write with one slot for the renderer: published while the art changes, read while both catalogs change, and two pictures baked at once |
| `manifest_settled` | `OnePassBehind`, violated | one level, two reads, one revision of the unit catalog |

What the properties say is written above each definition. Those worth a remark:

- `RevisionIdentifiesState` is what makes the three-step handlers right. They compare
  phase, seats and level after the await, which a guest who leaves and joins again
  would pass; the revision is what tells the difference, provided that every change
  moves it (`EveryChangeIsRevised`) and none moves it back.
- `OutcomeJustified` relates the result to both reports and the *final* log. It holds
  because a pending report closes the relay: a move accepted between the two reports
  would leave them naming a log that is no longer the final one.
- `BoardsArePrefixes` is about four deliveries of one move. It fails as soon as a
  later move is accepted for the next one.
- `InFlightIsJournaled` speaks about requests of tabs that no longer exist: what the
  server could still accept is what the seat will retry. It needs the journal, which
  survives a reload, and the seat lease, because `localStorage` is read and written in
  two steps (`JournalSeen`).
- `SettledMeansSaved` is what the page's "saved" display promises. It needs that a
  failed save leaves an error, that the row is caught up with a newer browser copy at
  hydration, and that nothing is dropped from the chain unsaid. `NeverOlder` and
  `DeleteSparesReplacement` ask the same of a hydration and of a DELETE. All three leave
  out a page that a race befell: `SettledMeansSaved` each of the three, which make it
  false of the code, `NeverOlder` two hydrations only, and `DeleteSparesReplacement`
  again all three, of which the choice and the queue make it false and two hydrations
  are needed apart by its proof. The races are steps of the model, what they do to rows
  is seen by the other pages, and those are not left out.
- `PurseFollowsBoard` speaks of all checkpoints at once: each holds what the player
  would own there had every Undo of this attempt been paid before. That is the
  meaning of charging the older checkpoints, and it fails if one is charged twice,
  late, or restored verbatim.
- `VisitBalances` reads a visit off its record after any number of purchases, Resets
  and reopened reports; `LipsanaAccounted` relates three records of one offer: the
  Conflict's, the visit's and what is held.
- `NothingTypedIsLost` follows a value from the board through draft, request, document,
  merge and branch: at every moment it is somewhere the user can get it back from. It
  fails if a merge prefers the acknowledged body, if an answer replaces the board, or if
  a closed session drops its draft.
- `IndependentWorkSurvives` is the promise of docs/adr/0304 as far as the code keeps it:
  outside of the five windows of section 6 a write touches only fields its own user
  typed, however old the revision it names. The windows are in the model, and without
  the exception for `astray` the run ends in each of them.
- `FreshAsAsked` is about who is served by whose computation: an answer that is not
  marked stale names art at least as new as the key it was asked under. Of the *unit*
  catalog the code does not keep that promise (section 6), which is why it speaks of art.
- `EveryWaitIsServed` and `NeverStranded` are the safety side of "it ends": a wait names
  somebody who is at work, and a supervisor always has a timer or a process to hear of.
- `ConcessionIsDeliberate` compares the published result with the history of what
  the users confirmed. Leaving a finished game names the report it stands for, so
  that a Leave that overtakes the report is not a resignation.

## 4. Fairness

`FairSpec` of NetMatch assumes weak fairness, per tab, of what the runtime does by
itself: a mounted effect goes on to its lease and backfill, `EventSource` reconnects, a
frame in the inbox is handled, a backfill that was asked for is answered, a retry timer
fires, a request somebody waits for is served and its answer arrives (or fails, which
is bounded by `MaxFaults`), and reports and resignations on the wire are served. These
are the event loop, `setTimeout`, and HTTP over a connection that is not severed for
ever. Nothing is assumed of users (they need not move, resign, leave or return), of
failures (they need not happen), or of requests that nobody waits for any more, which
may stay on the wire for ever.

`Spec` of RunBattle assumes weak fairness of the opponent's search (`EnemyReply`), of
the departure of the units before a reroll (`CompleteReroll`), both driven by timers
of the mounted page, and of the page coming back after a reload (`Enter`): a player
who never returns is not owed a reply. Nothing makes the player move.

No other module assumes fairness: what is asked of them is safety.

One assumption is stronger than the code: `Connect` always succeeds in the end. An
`EventSource` that is answered with an HTTP error closes for good and `net/lobbies.ts`
does not open another; PROJECT.json lists this among the hazards.

The liveness results have limits that belong to the code. `BoardCatchesUp` holds as
long as backfills succeed (section 6): with `"read"` among `Unreliable` it fails. `IntentSettles` covers tabs that finished
entering: when the *initial* backfill of a reloaded tab fails, the restored intent
is shown as pending and not retried before the next frame. `ResultConfirmed` holds
with one lost report: a seat repeats its report on a frame, and the frame comes from
the other seat's report; when both are lost, neither is repeated.

## 5. The proofs

`LobbyRecord_proofs` has the lemmas about the operators on one record; the theorems are
in `LobbyServer_proofs`, `NetMatch_proofs`, `ServerProcess_proofs` (the four protocols
that `MCServerProcess` runs beside each other), `ActiveRun_proofs`, `RunBattle_proofs`,
`Campaign_proofs` and `EditorDocument_proofs`.
They hold for every choice of the constants that meets the assumptions named in the
modules: the outcomes
are those the code calls deterministic, `None` and `Unread` are none of the values they
stand beside (a move, a record, a read), gold, prices, bytes and bounds are natural
numbers, no worker both reads and writes, a War has a Battle, every card seats a unit, a
King's card is not on offer, and `Connections` is finite. There is no bound on users,
lobbies, moves, requests, frames, failures, tabs of a match, players, watchers, reads,
processes, documents, Battles, cards, lipsana, fields or edits.

| Theorem | Says, of every reachable state or step |
|---|---|
| `LobbyServer_proofs!TypeCorrect` | `TypeOK` |
| `MatchesPinned` | `PinnedMatch` |
| `LogsOrdered` | `LogWellFormed` |
| `ResultsJustified` | `OutcomeJustified` |
| `RevisionsIdentify` | `RevisionIdentifiesState` |
| `MatchesFinal` | `MatchIsFinal` |
| `ChangesRevised` | `EveryChangeIsRevised` |
| `DropsAreDone` | `DroppedOnlyWhenDone` |
| `OneActive`, `StreamsPrivate` | `OneActiveLobbyPerUser`, `StreamsArePrivate` |
| `Implements` | `ImplementsMatchAuthority`: the server is a refinement of MatchAuthority |
| `NetMatch_proofs!TypeCorrect` | `TypeOK` of the clients, the network and the server's record |
| `BoardsFollow` | `BoardsArePrefixes` |
| `ConclusionsComplete` | `ConclusionHasPrefix` |
| `InFlightJournaled` | `InFlightIsJournaled` |
| `ConcessionsDeliberate` | `ConcessionIsDeliberate` |
| `ServerProcess_proofs!TypeCorrect`, `CountsCurrent` | `TypeOK`, `CountIsCurrent` of the watchers |
| `SupervisorGoesOn` | `NeverStranded` |
| `ManifestTypeCorrect`, `PicturesMatch` | the types of the manifests, `ServedBesideItsDocument` |
| `AnswersFresh`, `WaitsServed` | `FreshAsAsked`, `EveryWaitIsServed` |
| `CounterExact`, `NobodyWaits` | `BudgetIsExact`, `NobodyWaitsInVain` |
| `EachAlone` | a behaviour of the four side by side is a behaviour of each |
| `ActiveRun_proofs!TypeCorrect` | `TypeOK`; no Run is newer than the last version made |
| `NothingOlder` | `NeverOlder` |
| `SettledSaved` | `SettledMeansSaved` |
| `ReplacementSpared` | `DeleteSparesReplacement` |
| `RunBattle_proofs!TypeCorrect` | `TypeOK`; the purse never goes below zero |
| `PurseFollows`, `UndoSteps` | `PurseFollowsBoard`, `UndoIsOneDecision` |
| `Campaign_proofs!TypeCorrect` | `TypeOK`; nothing is bought on debt |
| `BankedOnce` | `BankedAsReported` |
| `UnitsSeated`, `KingFights` | `EveryUnitIsSeated`, `KingTakesTheField` |
| `LipsanaOnce`, `VisitsBalance` | `LipsanaAccounted`, `VisitBalances` |
| `EditorDocument_proofs!TypeCorrect` | `TypeOK`; no page is ahead of the document |
| `CleanIsPublished`, `RevisionsNameBodies` | `CleanMeansPublished`, `RevisionNamesBody` |
| `NothingTypedLost`, `IndependentWork` | `NothingTypedIsLost`, `IndependentWorkSurvives` |

**The argument for LobbyServer.** None of its invariants is inductive alone. That a
result has two equal reports behind it needs that a report freezes the log; that a
match is pinned needs to know who may sit in a lobby of each phase; that a suspended
request may be applied needs to know what was checked before it was suspended. The
inductive invariant is

    Base == TypeOK /\ AllLobbies(Sound) /\ RequestsAllowed /\ MintedOnly

where `Sound` joins `Shaped` (seats and departures over the lifecycle), `PinnedLobby`,
`OrderedLog` and `JustifiedLobby`; `RequestsAllowed` says what every suspended request
has passed; and `MintedOnly` that only handed-out ids are stored. The proof is in three
layers. For each operator of LobbyRecord a lemma says that it keeps the type of a
record and one that it keeps `Sound`. `Effect(l, m)` then names everything that a
handler may do to one record, and `Step` shows that every action is, id by id, an
effect, a creation or a removal; the actions are looked at only there. The invariant
and all action properties follow from `Step` and a property of `Effect`, without
looking at an action again. `RevisionsIdentify` adds to `Base` that the revision of a
stored lobby is at least the one a request captured, and equal only in the same state.

The second half of `LobbyServer_proofs` goes on from `Step`. An effect seats nobody but the user who
joins and opens nothing that was closed, which with the guard of Create and Join gives
`OneActive`. For the refinement, `EffectView` says that every effect is a step of the
match under `MatchView`: a report freezes or decides it, a concession ends it, a
departure shows nothing; `RemovableView` that what is removed is not being played, which
needs that a match nobody ended is still open (`Shaped`); and `HaltStep` is the restart.

**The argument for NetMatch.** A tab believes things about a log that the server holds,
and learns them in any order: from a frame in its inbox, from a backfill read earlier
and answered later, from the answer to its own move, or from a journal an earlier page
left. The invariant says of each of these, apart, that what it carries is true of the
record. `Sane` is about one tab: its board is a prefix of the log and its verdict, if it
has one, is that of the whole log (`Follows`); what it was told but has not handled is
true (`Told`); and the move it waits for is in the seat's journal, unless the record is
no longer live for it (`Holding`). `WireGood` says the same of requests and
answers under way, `PostsGood` and `LeavesGood` of reports and resignations, and
`CountersGood` that revisions only grow. The step has two halves. A server step only
makes the log longer (`Grows`), so everything that was true of it stays true, and one
lemma says so for all tabs together. A client step leaves the record alone, and one lemma per
handler shows that the tab it belongs to stays good. The one loop, the moves of a
backfill that are applied one after the other, is an unrolled chain of `ApplyRelay`:
`Upward` goes along it by a least counterexample, as the library's induction theorems take
an operator that the provers cannot instantiate.

**The argument for RunObservation.** `CountIsCurrent` is inductive together with the
types and with `OwnersKnown`: a connection past its first step has an account. The one
lemma that matters, `PublishedCount`, says that changing one player's set and
publishing its count leaves every count current; it is cited for the two actions that
change a set.

**The argument for Supervisor.** A child that is gone has a respawn ahead
(`RespawnAhead`), but a stop that comes meanwhile signals nobody: it only arms the kill
timer. What saves it is that the delays are ordered: a respawn fires before the kill does
(`KillOutlivesRespawns`, from the 1000 and 5000 milliseconds of `supervisor.js`), so that
there is a process for the kill to find. `StopUnderWay` says that a supervisor that was
asked to stop has that timer, or a child it already sent the kill.

**The argument for ThumbnailManifest.** A memo that is keyed by a revision is right when
the key says what the value was computed from. The invariant `MemoSound` therefore
names, for every entry, computation and waiter, the document it belongs to: a revision
names one content (`RevisionsNameDocuments`), the entry holds what was computed for its key
(`EntryMatches`), the single flight in the table works for those who joined it
(`InFlightWorks`, `ComputationOf`), and waits and answers keep the revision they asked
for (`WaitOf`, `AnswerOf`). `BakesServed` says the same of the renderer's slots: a
bake that others wait for is at work, under the name they wait on.

**The argument for ReadBudget.** `BudgetSound` says that the counter is the sum of the
bytes of the reads that were admitted and not released, and that those who wait are
distinct, are queued, and ask each for more than is left. A release walks the queue once
and admits whoever fits, in a loop: its fold is unrolled into a chain of queues
(`Served` is what holds of each, `AdmitServes` goes from one to the next). That a sum
over a finite set does not depend on the order in which it is taken (`Adds`, `HeldIsSum`)
is proved by a least set on which it would.

**The four together.** `EachAlone` is what makes the theorems about the parts say
something about the composition: every step of `MCServerProcess` is a step of one part
and leaves the variables of the others alone.

**The argument for ActiveRun.** Types alone do not say that a version just made is newer
than every other, so `Typed` is `TypeOK` with the id and version of every Run bounded by
`time`; that a chain at work has a job (`Working`) completes it. `Open` says of a page what `NeverOlder` needs:
until it is hydrated it shows what the browser holds and its hydration carries just
that, and afterwards browser and page have the same version or two different Runs. It
holds of every page whose hydrations did not overlap (`One`), because a second one is
recorded when it begins. `SettledMeansSaved` follows from `Joined`, which holds of every
page that no race befell (`Straight`): nine links between a page, the job in hand and
the choice under way. The last
job of the chain is the Run shown (`LastJobIsRun`), so that the acknowledgement of the
last save leaves the row with it (`WritesItsRun`); a conflict shows the row as it was
read, and neither a job nor a DELETE is still to come (`ConflictStands`); and while a
DELETE waits behind a save the page shows no Run (`BuriedWaits`), which the start of a
Run would break and is what the race `"queue"` records. Every action is one page's or the
server's for one page (`Acts`), so one lemma per action for that page, and
`ElsewhereKeeps` for all others, make the step; a race stays recorded until its page is
left (`ActsTraced`), and a page that was left starts afresh.

`DeleteSparesReplacement` is about where a Run can be. `Unsent` says of a page and a Run
that no row, no request and no other page or browser holds it, nor anything the page
itself has sent or was told; `Spared`, that the Run shown behind a DELETE decided before
it was started is unsent, and that no job up to that DELETE writes it. It is kept for
two reasons. A page that does not hold a Run comes by it only through an answer, and a
handler answers only with what is in a row or in its request (`ActsFree`, one lemma per
action): so nothing but the page's own chain can spread the Run. And the chain sends its
jobs in their order (`SparedOn`), a Run just started has an id that nothing else has
(`FreshFree`, from the bound on ids in `Typed`), and every other way to change the Run
shown finds no DELETE queued: a conflict by `ConflictStands`, a choice by `ChoiceStands`,
hydration by `Open`. Then the row that a DELETE of a straight page removes holds no Run
started after the decision. What the other pages do, straight or not, cannot change
this: they do not hold the Run.

**The argument for RunBattle.** The purse is only right because the Run, the mounted
board, its undo stack and the saved copy tell one story, so the invariant is about all
of them: `CopiesAgree` says that the purse and casualties are those of the board and
that each checkpoint holds what would be owed there, for the mounted match and for the
saved one; `CopiesChained` that the checkpoints are one decision apart; `ReplyIsOwed`
that a reply is staged exactly when a mounted board waits for one; and `RerollIsPaid`
that a departure still under way can be paid. Charging the checkpoints after an Undo
and cutting a history to its most recent part preserve both, which are lemmas of their
own; the rest is one step per action.

**The argument for Campaign.** `Core` gives the types, says which records are open in
which phase (`Flow`), and that decks and armies are finite. On it rest five invariants,
each with one lemma per action that disturbs it: `Banking` (a report that has not been
left is not in the ledger), `Seating` (the army, *and the army that Reset would bring
back*, are numbered and seated), `Accounting` (the same of the lipsana), `Fielding`
(the first card of a hand is a starter's and so is admitted), and `Balancing` (purse,
deck, numbering and lipsana against the record of the visit). That a card bought takes
an id no card of the entry has needs `Seating`; that the offer bought had been seen and
was not held needs `Accounting`.

**The argument for EditorDocument.** A page knows a revision and a body, and so does
every request on the wire and every answer on its way back. The invariant says of all of
them that the revision was reached, that the document had that body under it if it is
still the current one, and that the values of the body are in the history (`Known` and
its companions for requests, calls and what a poll has read). `RevisionNamesBody` is the
part of it about pages and late autosaves. `NothingTypedLost` follows a value:
a board, a draft or a branch gives it up only when the document has it, because what a
merge takes from the server is stored and what it keeps is the page's. `IndependentWork`
rests on two facts about pages that are not astray: where the board differs from its
base it has values of the page's own user, and where it differs from what a request
carries it was edited since, as long as the base is still the one the request names.
The five windows are exactly the steps at which these would break, which is why the
exception is theirs and no larger.

**Only model-checked.** The liveness properties (`BoardCatchesUp`, `IntentSettles`,
`ResultConfirmed`, `EnemyAnswers`), because liveness and ENABLED are out of the prover's
reach. The properties of the three runs that end in a counterexample are false and have
no theorem. Every other property of a run is a theorem.

## 6. What the code does not do

Three runs end in a counterexample to something that a document or a comment says.

- `watch_mutations`. Observers are filed under the account's e-mail and looked up under
  a digest of the owner record (`server.js` 24012, 23965), so a watcher is sent nothing
  after the opening frame. `server.js:24190`: "Every acknowledged mutation reaches
  anyone watching."
- `active_run_seen`. A revision is compared without the Run it belongs to, and starts
  again at 1 after a DELETE (`server.js` 24160, 24218). A browser that still plays an
  abandoned Run passes the comparison against the Run that replaced it, and overwrites
  what it has never seen. `docs/persistence.md:223`: "compare-and-swap protected".
- `manifest_settled`. The key of a manifest is read from the database (`server.js`
  25005), its unit catalog through a cache (24857) that is filled after an await without
  looking whether it was invalidated meanwhile (22631-22632) and is hit between a COMMIT
  and its invalidation (22466-22467). A pass then retains pictures of the old units
  under the key of the new ones, and every later read is answered from it until the
  document or a catalog changes again. `docs/adr/0258-...-memoized-by-revision.md:73`:
  "Thumbnails may briefly (one background pass) reflect the previous art version".

Met while modelling, and listed among the hazards without a run of their own:

- a backfill that fails is logged, and asked for again only when another lobby frame or
  a gapped move arrives (`Skirmish.tsx` 943, 1139, 1197). When the missing move made it
  this seat's turn, no frame comes, and the board stays behind on a healthy stream.
  `docs/multiplayer-contract.md:111` says that "reconnect and backfill recover state".
  `netplay_progress` finds it with `"read"` in `Unreliable`;
- the observe handler registers its `close` listener after its last await
  (`server.js:24033`): a watcher that leaves earlier stays in the set, and so in the
  count, until the process ends;
- a solo match whose saved copy is gone is dealt again without the price of a Retry
  (`matchPersistence.ts:126`, `Skirmish.tsx` 752-758), which ADR-0423 and ADR-0424
  charge for; `unpaid` marks such an attempt in RunBattle;
- Bona Vacantia has no way out but a lipsanon, and each burns the three it reveals of
  the seven there are, four with Merchant's Shopkey (`model.ts` 4358-4377, 4612). A War
  is authored data: one with more Conflicts than the pool lasts for would open a Bona
  Vacantia with nothing to take, and nothing in the code prevents it;
- a picture of a player's own workspace is served only while its row is the exact
  current derivative (`server.js` 22034-22062), while `revisionMemo.js:11-13` calls
  retained URLs content-addressed. An older bake that ends last replaces the newer row,
  and a manifest that is retained as settled then names a picture that is answered with
  404 until the document's next revision;
- a SIGHUP in the second between a crash and its respawn starts a child at once, and the
  pending `setTimeout(startChild)` (`supervisor.js:64`) starts another: two children, of
  which the one that `child` no longer names is never reloaded or stopped;
- a SIGHUP after the child died by a signal leaves `restarting` set and arms the kill
  timer, since `exitCode` is null (`supervisor.js` 68-86): the timer kills the healthy
  successor five seconds later;
- nothing stops the ticker and the staged reply of a store whose scene was left
  (`game/store.ts` 834-836), although the comment there says that the ticker lives only
  as long as the scene;
- a solo match whose board does not fit into storage even without a history leaves the
  older copy in place (`writeEnvelope`); RunBattle assumes that it fits;
- a Level that is deleted from the workspace leaves a working copy that Save refuses as
  a baseline conflict, Discard as `no_saved_level`, and only a working copy that was
  never saved can be deleted (`server.js:13115`): until the Level is put back the
  document has no way out.

Three things befall a page in the Run store that nothing in the code keeps apart. ActiveRun
has all three and counts the page among `astray` until it is left. Without the exception
TLC finds the properties violated: what the queue breaks, and `DeleteSparesReplacement`,
with `MaxTime = 4`, the rest within the bounds of the run.

- `hydrate` looks only at `hydrated` (`run/store.ts:246`), and `App.tsx` 166-172,
  `PlayMenu.tsx:354`, `useRunCraft.ts:55` and `WarEditor.tsx:81` call it on their own: a
  second hydration runs beside the first with the browser's Run of its own moment, and
  the later answer takes the page back to it. `SettledMeansSaved` and `NeverOlder` fail.
- `adoptBrowserRun` (389-409) runs beside the chain, and nothing waits for it: "Keep
  account Run" stays enabled (`PlayMenu.tsx:340`), and the Run can be played or
  abandoned. The older answer then puts the browser's Run back over what the player did,
  or the DELETE of the one meets the row of the other. `SettledMeansSaved` and
  `DeleteSparesReplacement` fail.
- a player who abandons, starts, abandons and starts again while the first DELETE waits
  leaves four jobs in the chain: DELETE, save, DELETE, save. When the first save meets
  the Run of another browser, the reread raises the question which Run to keep and takes
  over the revision of the account's Run (97-110); a queued save then steps aside (86),
  but the queued DELETE does not look at the conflict (367-369) and removes the Run the
  player is being asked about. `docs/adr/0632-the-two-active-runs-...-current-run.md:62`
  says that "the account keeps whichever Run they leave it holding until someone
  answers". The same two properties fail.

An editor page overwrites the independent work of another at five places. EditorDocument
has all five and counts the page among `astray` from then on:

- Save sends the level it captured before it waited for the dialog and the autosave in
  flight, under the revision it reads afterwards (`LevelEditor.tsx` 8646, 8678);
- a refused Save or Discard makes the server's document the base of a board that was
  never merged with it (8727, 8795);
- an autosave is answered after a poll already moved the base: revision and base go
  back, and what the board took from the newer one counts as its own (8128);
- an answer to Save does the same (8691);
- a draft kept under an ended session is adopted over a clean document, also when the
  document was saved again since (`levelEditorPersistence.ts` 155-178; the comment at
  157 says that this "cannot overwrite anything").

## 7. What is not modelled

Inside the modelled components:

- premoves, promotion pickers and other local input of a match: they end in the same
  `submitNetMove`, whose guards are modelled;
- an opening position that is over before the first move;
- a browser that refuses to write `localStorage`: the client falls back to memory, and
  `InFlightIsJournaled` is then lost by design;
- in-app navigation while a Leave is in flight, and the Lobbies page, which decides
  from a list it fetched earlier whether Leave asks for a confirmation: both are
  hazards in PROJECT.json;
- the list stream of the lobby page, a bare "changed" ping;
- of ActiveRun: the War editor's Start (`WarEditor.tsx` 114-135), which looks neither
  whether the store is hydrated nor whether a save is under way: a hydration still on
  its way would take the page and the browser back to the Run of the row; a second
  `adoptBrowserRun` beside the first, which is possible only once a race befell the page
  (`ChoiceStands`); `adoptCraftedRun`, an admin tool that writes the row itself, retired
  save versions, a session that expires inside a page, and a browser whose storage or
  random source fails;
- of RunBattle: the arithmetic of clocks, premoves, the session-only copy of a won
  board, migrations of old envelopes, Levels outside of a Run, and the account's row,
  through which a second browser could resume a Run without its board;
- of Campaign: `craft.ts` and administrator grants, `normalizeRunDocument` and the
  migrations of old saves, the shapes and squares of formations, and how the shuffles
  are computed;
- of EditorDocument: restoring an older revision and the pruning of the history,
  restoring or discarding an offered branch by hand, signing out and resuming, a page
  taken back from the back-forward cache, the deletion of a working copy never saved,
  observers and administrators' sessions, the mutations of predrawn backgrounds, an Undo
  to an earlier value (every edit is a new value here), campaigns and Wars in the
  workspace, and the publication of the official tier;
- of ThumbnailManifest: pixels and hashes, entries of other documents but for their
  evictions, the private picture route, share cards, and `byteWeightedCache.js`;
- of ReadBudget: what is read, and the transfer that a read which missed its deadline
  may still be doing; of Supervisor: the files and the environment it prepares;
- failures of the database in the handlers of RunObservation, and e-mails with upper
  case letters, which the two sets of streams would file differently.

Components that are not modelled, and why, are in PROJECT.json. In short: rules,
terrain and level generation and objectives are deterministic functions over large
data with no second party; the computer opponent is search; asset and
migration code is validation and I/O; the interface is presentation.
Of chess the models need only that a build can or cannot play a gesture and what it
concludes, which are constants.

## 8. Plan

What is left, the most important first.

1. **Two scenes of one page** in RunBattle, for the ticker that nothing stops, and two
   browsers on one Run of which one has no board.
2. **EditorDocument, the rest**: restoring a revision, signing out and resuming, and the
   publication of the official tier, which LobbyServer reads as `official`.
3. **Lobby client, the rest**: the Lobbies page and its stale list, Leave during in-app
   navigation, an adjudicated opening, the order of authored rules, mate and draws.
