----------------------------- MODULE ActiveRun -----------------------------
(* The Run a player is on: kept in the page, in the browser's localStorage and
   in the row of active_runs that belongs to the account, or to a browser
   nobody is signed in on (frontend/src/run/store.ts, net/activeRun.ts,
   run/guestIdentity.ts, and /api/active-run in backend/server.js).

   A page writes its row through a chain of requests, each with the revision
   it was last told.  Hydration arbitrates between browser and row, and a
   choice of the player settles a conflict.  Every await is a step boundary:
   a request is sent, served and answered in three steps, and a page that is
   reloaded leaves its requests behind.

   A Run is its id and the time of its version (updatedAt); its content, and
   the War a first save has to carry, are abstracted.  A revision is kept
   together with the Run that was acknowledged under it, which the code does
   not do: only the revision is compared. *)
EXTENDS Naturals, Sequences, FiniteSets

CONSTANTS
  Devices,      \* browsers of one person, one page each
  GuestKeys,    \* keys that a browser may mint
  Account,      \* the owner of the account's row
  None,
  Mounts,       \* the scenes of a page that hydrate the store
  UserActs,     \* what the player may do besides playing: a subset of AllActs
  MaxTime,      \* versions of Runs ever made
  MaxFaults,    \* requests and answers that may be lost
  MaxReloads,
  MaxChain      \* jobs waiting in one page

AllActs == {"start", "abandon", "choose", "sign"}
Owners == {Account} \cup GuestKeys
Procs == {"chain", "choice"} \cup Mounts
Races == {"hydrate", "choice", "queue"}

ASSUME AccountAssumption == Account \notin GuestKeys
ASSUME NoneAssumption == None \notin Owners
ASSUME MountAssumption == Mounts \cap {"chain", "choice"} = {}
ASSUME BoundAssumption ==
  /\ UserActs \subseteq AllActs
  /\ {MaxTime, MaxFaults, MaxReloads, MaxChain} \subseteq Nat

VARIABLES
  rows,      \* active_runs, by owner
  local,     \* localStorage: the browser's Run
  key,       \* localStorage: the browser's guest key
  session,   \* is the browser signed in?
  tabs,      \* the store of the page
  calls,     \* what each asynchronous function of a page is waiting for
  late,      \* requests nobody waits for that may still reach the server
  astray,    \* history: what befell a page that nothing in the code keeps apart
  time, faults, reloads

vars == <<rows, local, key, session, tabs, calls, late, astray, time, faults, reloads>>

----------------------------------------------------------------------------
Runs == [id : Nat, at : Nat]
NoRow == [run |-> None, revision |-> 0]
Rows == [run : Runs \cup {None}, revision : Nat]

Conflicts == [browserRun : Runs, accountRun : Runs]

ASSUME NoRunAssumption == None \notin Runs \cup Conflicts

Requests ==
  [kind : {"get", "put", "delete", "adopt"}, owner : Owners \cup {None}, key : GuestKeys \cup {None},
   run : Runs \cup {None}, revision : Nat, war : BOOLEAN, seen : Rows]
Answers == [status : {"ok", "conflict", "war", "fail"}, row : Rows]

\* What is awaited, with the Run and the revision the function holds on to.
Idle == [at |-> "idle", run |-> None, remote |-> NoRow, sent |-> None, answer |-> None]
Awaits ==
  {"idle", "save", "saveWar", "reread", "delete", "adoptGuest", "load",
   "dropAccount", "saveBrowser", "saveBrowserWar"}
Calls ==
  [at : Awaits, run : Runs \cup {None}, remote : Rows, sent : Requests \cup {None}, answer : Answers \cup {None}]

Jobs == [do : {"save", "delete"}, run : Runs \cup {None}]
Tabs ==
  [run : Runs \cup {None}, hydrated : BOOLEAN, syncing : BOOLEAN, starting : BOOLEAN,
   remoteOwner : {"account", "guest", "none"}, remote : Rows,
   conflict : Conflicts \cup {None},
   error : BOOLEAN, chain : Seq(Jobs)]

FreshTab(run) ==
  [run |-> run, hydrated |-> FALSE, syncing |-> FALSE, starting |-> FALSE, remoteOwner |-> "none",
   remote |-> NoRow, conflict |-> None, error |-> FALSE, chain |-> <<>>]

SameRun(r, s) == r # None /\ s # None /\ r.id = s.id

OtherRun(r, s) == r # None /\ s # None /\ r.id # s.id

----------------------------------------------------------------------------
(* The server: each handler is one transaction under the owner's lock. *)

Answer(status, row) == [status |-> status, row |-> row]
Failure == Answer("fail", NoRow)

\* PUT /api/active-run: compare the revision, ask for the War of a Run it does not hold, write.
PutResult(q) ==
  LET row == rows[q.owner] IN
  IF row.revision # q.revision THEN [rows |-> rows, answer |-> Answer("conflict", row)]
  ELSE IF ~q.war /\ ~SameRun(row.run, q.run) THEN [rows |-> rows, answer |-> Answer("war", row)]
  ELSE LET next == [run |-> q.run, revision |-> row.revision + 1] IN
       [rows |-> [rows EXCEPT ![q.owner] = next], answer |-> Answer("ok", next)]

\* DELETE /api/active-run
DeleteResult(q) ==
  LET row == rows[q.owner] IN
  IF row # NoRow /\ row.revision # q.revision
  THEN [rows |-> rows, answer |-> Answer("conflict", row)]
  ELSE [rows |-> [rows EXCEPT ![q.owner] = NoRow], answer |-> Answer("ok", NoRow)]

\* POST /api/active-run/adopt-guest: the guest's row moves, or is released.
AdoptResult(q) ==
  LET guest == rows[q.key] IN
  [rows |-> IF guest = NoRow THEN rows
            ELSE [rows EXCEPT ![q.key] = NoRow,
                              ![q.owner] = IF @ = NoRow THEN guest ELSE @],
   answer |-> Answer("ok", NoRow)]

Result(q) ==
  IF q.owner = None THEN [rows |-> rows, answer |-> Failure]     \* 401
  ELSE IF q.kind = "put" THEN PutResult(q)
  ELSE IF q.kind = "delete" THEN DeleteResult(q)
  ELSE IF q.kind = "adopt" THEN AdoptResult(q)
  ELSE [rows |-> rows, answer |-> Answer("ok", rows[q.owner])]

----------------------------------------------------------------------------
(* What a page sends.  The session decides whose row it is, else the key. *)

\* resolveRunOwner
Owner(d, k) == IF session[d] THEN Account ELSE k

Request(kind, d, k, run, row, war) ==
  [kind |-> kind, owner |-> Owner(d, k), key |-> k, run |-> run, revision |-> row.revision,
   war |-> war, seen |-> row]

\* `proc` of page d goes on to wait for the answer to q.
Await(d, proc, at, run, row, q) ==
  calls' = [calls EXCEPT ![d][proc] =
              [at |-> at, run |-> run, remote |-> row, sent |-> q, answer |-> None]]

Return(d, proc) == calls' = [calls EXCEPT ![d][proc] = Idle]

Send(d, proc, at, run, row, kind) ==
  Await(d, proc, at, run, row, Request(kind, d, key[d], None, row, FALSE))

\* ensureGuestRunKey: a fresh key names no row, and none that is on its way.
Fresh(k) ==
  /\ rows[k] = NoRow
  /\ \A e \in Devices : key[e] # k
  /\ \A q \in late : q.key # k
Minted(d) == IF key[d] # None THEN {key[d]} ELSE {k \in GuestKeys : Fresh(k)}

\* putActiveRun: the key is minted for the header of every PUT, signed in or not.
SendPut(d, proc, at, run, row) ==
  \E k \in Minted(d) :
    /\ key' = [key EXCEPT ![d] = k]
    /\ Await(d, proc, at, run, row,
             Request("put", d, k, run, row, at \in {"saveWar", "saveBrowserWar"}))

----------------------------------------------------------------------------
(* The store *)

SetTab(d, t) == tabs' = [tabs EXCEPT ![d] = t]
SetLocal(d, run) == local' = [local EXCEPT ![d] = run]

\* queueRemoteSave
QueueSave(t, run) == [t EXCEPT !.chain = Append(@, [do |-> "save", run |-> run])]
QueueSaveIf(cond, t, run) == IF cond THEN QueueSave(t, run) ELSE t

\* replace
Replaced(t, run) == QueueSave([t EXCEPT !.run = run, !.error = FALSE], run)

\* abandon, up to its await; the job is kept with the time of the decision.
Abandoned(t) ==
  [t EXCEPT !.run = None, !.conflict = None, !.error = FALSE,
            !.chain = IF t.remoteOwner = "none" THEN @
                      ELSE Append(@, [do |-> "delete", run |-> [id |-> t.run.id, at |-> time]])]

Settled(t, owner, run, row) ==
  [t EXCEPT !.hydrated = TRUE, !.remoteOwner = owner, !.run = run, !.remote = row, !.error = FALSE]

\* The end of hydrate when the row could not be read.
Unlinked(t, run) ==
  [t EXCEPT !.hydrated = TRUE, !.remoteOwner = "none", !.run = run, !.error = TRUE]

\* Mutant: the row always wins over the browser.
Newer_Never(browser, account) == FALSE

\* browserIsNewer
Newer(browser, account) == SameRun(browser, account) /\ browser.at > account.at

Or(run, other) == IF run # None THEN run ELSE other

\* History: a race that nothing in the code keeps apart befalls page d.
Race(d, race, is) == astray' = [astray EXCEPT ![d] = IF is THEN @ \cup {race} ELSE @]

\* A DELETE is queued, and behind a save.
Deletes(s) == \E i \in 1..Len(s) : s[i].do = "delete"
Buried(s) == \E i, j \in 1..Len(s) : i < j /\ s[i].do = "save" /\ s[j].do = "delete"

----------------------------------------------------------------------------
(* The save chain: one job at a time, each with the revision of its start. *)

ReadyJob(d) == tabs[d].chain # <<>> /\ calls[d]["chain"] = Idle

NextJob(d) ==
  LET t == tabs[d] job == Head(t.chain) IN
  /\ ReadyJob(d)
  /\ IF job.do = "delete"
     THEN Send(d, "chain", "delete", job.run, t.remote, "delete") /\ UNCHANGED <<key, tabs>>
     ELSE IF t.remoteOwner = "none" \/ t.conflict # None
     THEN SetTab(d, [t EXCEPT !.chain = Tail(@)]) /\ UNCHANGED <<key, calls>>
     ELSE SendPut(d, "chain", "save", job.run, t.remote) /\ SetTab(d, [t EXCEPT !.syncing = TRUE])
  /\ UNCHANGED <<rows, local, session, late, astray, time, faults, reloads>>

JobDone(d, t) == SetTab(d, [t EXCEPT !.chain = Tail(@)]) /\ Return(d, "chain") /\ UNCHANGED key

Waiting(t) == [t EXCEPT !.error = TRUE, !.syncing = FALSE]   \* "cloud sync is waiting"

\* Mutant: a DELETE that failed is queued again, behind what was queued since.
DeleteFailed_Retries(t) == [t EXCEPT !.chain = Append(@, Head(@))]

\* The rejection that abandon reports: the row stays.
DeleteFailed(t) == [t EXCEPT !.error = TRUE]

JobAnswered(d) ==
  LET c == calls[d]["chain"] a == c.answer t == tabs[d] IN
  /\ a # None
  /\ \/ /\ c.at = "save" /\ a.status = "war"
        /\ SendPut(d, "chain", "saveWar", c.run, c.remote) /\ UNCHANGED tabs
     \/ /\ c.at \in {"save", "saveWar"} /\ a.status = "ok"
        /\ JobDone(d, [t EXCEPT !.remote = a.row, !.error = FALSE, !.syncing = FALSE])
     \/ /\ c.at \in {"save", "saveWar"} /\ a.status = "conflict"
        /\ Send(d, "chain", "reread", c.run, c.remote, "get") /\ UNCHANGED <<key, tabs>>
     \/ /\ c.at \in {"save", "saveWar"} /\ a.status = "fail"
        /\ JobDone(d, Waiting(t))
     \/ /\ c.at = "reread"
        /\ JobDone(d, IF a.status = "ok" /\ OtherRun(a.row.run, t.run)
                      THEN [t EXCEPT !.conflict = [browserRun |-> t.run, accountRun |-> a.row.run],
                                     !.remote = a.row, !.error = FALSE, !.syncing = FALSE]
                      ELSE Waiting(t))
     \/ /\ c.at = "delete"
        /\ JobDone(d, IF a.status = "ok" THEN [t EXCEPT !.remote = NoRow] ELSE DeleteFailed(t))
  /\ UNCHANGED <<rows, local, session, late, astray, time, faults, reloads>>

----------------------------------------------------------------------------
(* hydrate *)

\* Only what is hydrated is not hydrated again: the call of another scene may be on its way.
Hydrate(d, m) ==
  /\ ~tabs[d].hydrated /\ calls[d][m] = Idle
  /\ IF ~session[d] /\ key[d] = None
     THEN SetTab(d, Settled(tabs[d], "guest", local[d], NoRow)) /\ UNCHANGED calls
     ELSE /\ IF session[d] /\ key[d] # None
             THEN Send(d, m, "adoptGuest", local[d], NoRow, "adopt")
             ELSE Send(d, m, "load", local[d], NoRow, "get")
          /\ UNCHANGED tabs
  /\ Race(d, "hydrate", \E o \in Mounts : calls[d][o] # Idle)
  /\ UNCHANGED <<rows, local, key, session, late, time, faults, reloads>>

\* adoptGuestRunForAccount: the key is forgotten once the server answered.
GuestAdopted(d, m) ==
  LET c == calls[d][m] IN
  /\ c.at = "adoptGuest" /\ c.answer # None
  /\ key' = IF c.answer.status = "ok" THEN [key EXCEPT ![d] = None] ELSE key
  /\ Await(d, m, "load", c.run, NoRow, Request("get", d, key'[d], None, NoRow, FALSE))
  /\ UNCHANGED <<rows, local, session, tabs, late, astray, time, faults, reloads>>

\* guestHydration: the browser's Run wins.
GuestHydrated(d, browser, row) ==
  LET run == Or(browser, row.run)
      t == [Settled(tabs[d], "guest", run, row) EXCEPT !.conflict = None] IN
  /\ SetLocal(d, run)
  /\ SetTab(d, QueueSaveIf(browser # None /\ ~SameRun(row.run, browser), t, browser))

\* Mutant: the row that is behind the browser is not caught up with it.
AccountHydrated_Unqueued(d, browser, row) ==
  LET run == IF Newer(browser, row.run) THEN browser ELSE Or(row.run, browser)
      t == Settled(tabs[d], "account", run, row) IN
  IF OtherRun(row.run, browser)
  THEN /\ SetTab(d, [t EXCEPT !.conflict = [browserRun |-> browser, accountRun |-> row.run]])
       /\ UNCHANGED local
  ELSE /\ SetLocal(d, run)
       /\ SetTab(d, QueueSaveIf(browser # None /\ row.run = None, t, browser))

AccountHydrated(d, browser, row) ==
  LET run == IF Newer(browser, row.run) THEN browser ELSE Or(row.run, browser)
      t == Settled(tabs[d], "account", run, row) IN
  IF OtherRun(row.run, browser)
  THEN /\ SetTab(d, [t EXCEPT !.conflict = [browserRun |-> browser, accountRun |-> row.run]])
       /\ UNCHANGED local
  ELSE /\ SetLocal(d, run)
       /\ SetTab(d, QueueSaveIf(browser # None /\ (row.run = None \/ Newer(browser, row.run)), t, browser))

Hydrated(d, m) ==
  LET c == calls[d][m] a == c.answer IN
  /\ c.at = "load" /\ a # None
  /\ IF a.status = "fail"
     THEN /\ SetTab(d, IF session[d] THEN Unlinked(tabs[d], c.run)
                       ELSE [Unlinked(tabs[d], c.run) EXCEPT !.remote = NoRow, !.conflict = None])
          /\ UNCHANGED local
     ELSE IF session[d] THEN AccountHydrated(d, c.run, a.row) ELSE GuestHydrated(d, c.run, a.row)
  /\ Return(d, m)
  /\ UNCHANGED <<rows, key, session, late, astray, time, faults, reloads>>

----------------------------------------------------------------------------
(* The player *)

\* adoptBrowserRun runs beside the chain, and nothing waits for it.
Choosing(d) == calls[d]["choice"] # Idle

KeepAccountRun(d) ==
  LET t == tabs[d] IN
  /\ "choose" \in UserActs /\ t.conflict # None
  /\ SetLocal(d, t.conflict.accountRun)
  /\ SetTab(d, [t EXCEPT !.run = t.conflict.accountRun, !.conflict = None, !.error = FALSE])
  /\ Race(d, "choice", Choosing(d))
  /\ UNCHANGED <<rows, key, session, calls, late, time, faults, reloads>>

\* `syncing` holds the button until the answer came or a race befell the page; a second one
\* beside the first, which takes such a race, is left out.
AdoptBrowserRun(d) ==
  LET t == tabs[d] IN
  /\ "choose" \in UserActs /\ t.conflict # None /\ ~t.syncing /\ ~Choosing(d)
  /\ SetTab(d, [t EXCEPT !.syncing = TRUE])
  /\ Send(d, "choice", "dropAccount", t.conflict.browserRun, t.remote, "delete")
  /\ UNCHANGED <<rows, local, key, session, late, astray, time, faults, reloads>>

BrowserRunAnswered(d) ==
  LET c == calls[d]["choice"] a == c.answer t == tabs[d] IN
  /\ a # None
  /\ \/ /\ c.at = "dropAccount" /\ a.status = "ok"
        /\ SendPut(d, "choice", "saveBrowser", c.run, NoRow) /\ UNCHANGED <<tabs, local>>
     \/ /\ c.at = "saveBrowser" /\ a.status = "war"
        /\ SendPut(d, "choice", "saveBrowserWar", c.run, NoRow) /\ UNCHANGED <<tabs, local>>
     \/ /\ c.at \in {"saveBrowser", "saveBrowserWar"} /\ a.status = "ok"
        /\ SetLocal(d, c.run)
        /\ SetTab(d, [t EXCEPT !.run = c.run, !.conflict = None, !.remote = a.row,
                               !.syncing = FALSE, !.error = FALSE])
        /\ Return(d, "choice") /\ UNCHANGED key
     \/ /\ c.at \in {"dropAccount", "saveBrowser", "saveBrowserWar"} /\ a.status \in {"conflict", "fail"}
        /\ SetTab(d, Waiting(t)) /\ Return(d, "choice") /\ UNCHANGED <<key, local>>
  /\ UNCHANGED <<rows, session, late, astray, time, faults, reloads>>

Replace(d, t, id) ==
  LET run == [id |-> id, at |-> time + 1] IN
  /\ time < MaxTime /\ Len(t.chain) < MaxChain
  /\ time' = time + 1
  /\ SetLocal(d, run) /\ SetTab(d, Replaced(t, run))
  /\ UNCHANGED <<rows, key, session, calls, late, faults, reloads>>

\* A mutation of the Run (RunScreen, once hydrated)
Play(d) ==
  /\ tabs[d].hydrated /\ tabs[d].run # None
  /\ Replace(d, tabs[d], tabs[d].run.id)
  /\ Race(d, "choice", Choosing(d))

AbandonRun(d, t) ==
  /\ t.hydrated /\ t.run # None /\ Len(t.chain) < MaxChain
  /\ SetLocal(d, None) /\ SetTab(d, Abandoned(t))
  /\ Race(d, "choice", Choosing(d))
  /\ UNCHANGED <<rows, key, session, calls, late, time, faults, reloads>>

\* RunScreen's Abandon and Finish
Abandon(d) == "abandon" \in UserActs /\ AbandonRun(d, tabs[d])

\* PlayMenu's start: what is there is abandoned, and awaited, before the new Run is made.
MayStart(d) == tabs[d].hydrated /\ ~tabs[d].starting /\ ~tabs[d].syncing /\ "start" \in UserActs
StartOver(d) == MayStart(d) /\ AbandonRun(d, [tabs[d] EXCEPT !.starting = TRUE])
Start(d) ==
  /\ \/ MayStart(d) /\ tabs[d].run = None
     \/ tabs[d].starting /\ ~Deletes(tabs[d].chain)
  /\ Replace(d, [tabs[d] EXCEPT !.starting = FALSE], time + 1)
  /\ Race(d, "queue", Buried(tabs[d].chain))

----------------------------------------------------------------------------
(* The network, the server and the end of a page *)

Outstanding(d) == {calls[d][p].sent : p \in {q \in Procs : calls[d][q].sent # None}}

Serve(d, p) ==
  LET c == calls[d][p] IN
  /\ c.sent # None
  /\ rows' = Result(c.sent).rows
  /\ calls' = [calls EXCEPT ![d][p].sent = None, ![d][p].answer = Result(c.sent).answer]
  /\ UNCHANGED <<local, key, session, tabs, late, astray, time, faults, reloads>>

\* A request, or its answer, is lost: the page sees a failure.
Lose(d, p) ==
  LET c == calls[d][p] IN
  /\ faults < MaxFaults /\ (c.sent # None \/ c.answer # None) /\ c.answer # Failure
  /\ faults' = faults + 1
  /\ calls' = [calls EXCEPT ![d][p].sent = None, ![d][p].answer = Failure]
  /\ UNCHANGED <<rows, local, key, session, tabs, late, astray, time, reloads>>

ServeLate(q) ==
  /\ rows' = Result(q).rows
  /\ late' = late \ {q}
  /\ UNCHANGED <<local, key, session, tabs, calls, astray, time, faults, reloads>>

\* The page goes; at most one of its requests is still to reach the server.
Leave(d) ==
  /\ reloads < MaxReloads
  /\ reloads' = reloads + 1
  /\ \E S \in SUBSET {q \in Outstanding(d) : q.kind # "get"} : Cardinality(S) <= 1 /\ late' = late \cup S
  /\ SetTab(d, FreshTab(local[d]))
  /\ calls' = [calls EXCEPT ![d] = [p \in Procs |-> Idle]]
  /\ astray' = [astray EXCEPT ![d] = {}]
  /\ UNCHANGED <<rows, local, key, time, faults>>

Reload(d) == Leave(d) /\ UNCHANGED session
\* Signing in or out navigates away and back.
Sign(d) == "sign" \in UserActs /\ Leave(d) /\ session' = [session EXCEPT ![d] = ~@]

----------------------------------------------------------------------------

Init ==
  /\ rows = [o \in Owners |-> NoRow]
  /\ local = [d \in Devices |-> None]
  /\ key = [d \in Devices |-> None]
  /\ \E signedIn \in BOOLEAN : session = [d \in Devices |-> signedIn]
  /\ tabs = [d \in Devices |-> FreshTab(None)]
  /\ calls = [d \in Devices |-> [p \in Procs |-> Idle]]
  /\ astray = [d \in Devices |-> {}]
  /\ late = {} /\ time = 0 /\ faults = 0 /\ reloads = 0

\* A promise job runs before the page hears of anything else.
Next ==
  \/ \E d \in Devices : NextJob(d)
  \/ \E d \in Devices :
       /\ ~ReadyJob(d)
       /\ \/ JobAnswered(d)
          \/ \E m \in Mounts : Hydrate(d, m) \/ GuestAdopted(d, m) \/ Hydrated(d, m)
          \/ KeepAccountRun(d) \/ AdoptBrowserRun(d) \/ BrowserRunAnswered(d)
          \/ Play(d) \/ Abandon(d) \/ StartOver(d) \/ Start(d)
          \/ Reload(d) \/ Sign(d)
  \/ \E d \in Devices, p \in Procs : Serve(d, p) \/ Lose(d, p)
  \/ \E q \in late : ServeLate(q)

Spec == Init /\ [][Next]_vars

----------------------------------------------------------------------------

TypeOK ==
  /\ rows \in [Owners -> Rows]
  /\ local \in [Devices -> Runs \cup {None}]
  /\ key \in [Devices -> GuestKeys \cup {None}]
  /\ session \in [Devices -> BOOLEAN]
  /\ tabs \in [Devices -> Tabs]
  /\ calls \in [Devices -> [Procs -> Calls]]
  /\ late \subseteq Requests
  /\ astray \in [Devices -> SUBSET Races]
  /\ {time, faults, reloads} \subseteq Nat

\* A page that has nothing left to send and shows neither an error nor a conflict has saved
\* what it shows: as long as its row is the one it was last told of, the row holds its Run.
\* Not so for a page that a race befell: nothing keeps two hydrations apart, nor what the
\* player does from an adoption on its way, nor the chain from growing behind a DELETE.
SettledMeansSaved ==
  \A d \in Devices :
    LET t == tabs[d] IN
    /\ t.hydrated /\ t.remoteOwner = "account" /\ t.chain = <<>> /\ ~t.error /\ t.conflict = None
    /\ t.remote = rows[Account]
    /\ astray[d] = {}
    => t.remote.run = t.run

Older(r, s) == SameRun(r, s) /\ r.at < s.at

\* Nothing but a choice between two Runs takes a page or a browser back to an older version
\* of its Run, unless two scenes of the page hydrated it at once.
NeverOlder ==
  [][\A d \in Devices :
       \/ KeepAccountRun(d) \/ BrowserRunAnswered(d)
       \/ "hydrate" \in astray[d]
       \/ ~Older(local'[d], local[d]) /\ ~Older(tabs'[d].run, tabs[d].run)]_vars

\* The DELETE of an abandoned Run spares the Run that the page started after it, unless a
\* race befell the page.
DeleteSparesReplacement ==
  [][\A d \in Devices, p \in Procs :
       LET c == calls[d][p] IN
       /\ c.at = "delete" /\ Serve(d, p) /\ c.sent.owner # None /\ rows' # rows
       /\ astray[d] = {}
       => LET row == rows[c.sent.owner] IN
          SameRun(row.run, tabs[d].run) => row.run.id <= c.run.at]_vars

\* "compare-and-swap protected" (docs/persistence.md): a write replaces the row its page saw.
OnlySeenOverwritten ==
  [][\A q \in UNION {Outstanding(d) : d \in Devices} \cup late :
       q.kind = "put" /\ q.owner # None /\ rows' = Result(q).rows /\ rows' # rows => q.seen = rows[q.owner]]_vars
=============================================================================
