---------------------------- MODULE LobbyServer ----------------------------
(***************************************************************************)
(* The lobby authority of backend/server.js: the in-process `lobbies` Map, *)
(* the per-lobby SSE subscriber sets and every request handler that        *)
(* changes them.  Node runs a handler without interruption between awaits: *)
(* after `requireUser` each handler is one atomic action, except the two   *)
(* that await the official level document (level, start), which are three: *)
(* capture the expected state, read the document, re-check and apply.      *)
(*                                                                         *)
(* Every lookup first purges the tombstones whose time to live has passed, *)
(* so an action works on Store and LiveStreams, never on the raw Map.      *)
(***************************************************************************)
EXTENDS LobbyRecord, FiniteSets

CONSTANTS
  Ids,          \* lobby ids; crypto.randomUUID never returns one twice
  Unread,       \* the official document of a request has not arrived yet
  Watchers,     \* bound: the users who open per-lobby event streams
  MaxMoves,     \* bound: moves of one match
  MaxRevision,  \* bound: touches of one lobby
  MaxRequests   \* bound: level/start requests awaiting their document

ASSUME BoundsAssumption == {MaxMoves, MaxRevision, MaxRequests} \subseteq Nat
ASSUME UnreadAssumption == Unread \notin Contents \cup {None}
ASSUME NoLobbyAssumption == None \notin Lobby

VARIABLES
  lobbies,   \* the Map: id -> lobby or None
  minted,    \* the ids the server has handed out, over every restart
  streams,   \* id -> users with an open per-lobby event stream
  requests,  \* level/start requests between their two awaits
  official   \* the official workspace: level id -> content or None

vars == <<lobbies, minted, streams, requests, official>>

Requests ==
  [kind: {"level", "start"}, id: Ids, levelId: Levels, revision: Nat,
   phase: Phases, host: Users, guest: Users \cup {None},
   metadata: Contents \cup {None, Unread}]

TypeOK ==
  /\ lobbies \in [Ids -> Lobby \cup {None}]
  /\ minted \subseteq Ids
  /\ streams \in [Ids -> SUBSET Users]
  /\ requests \subseteq Requests
  /\ official \in [Levels -> Contents \cup {None}]

Init ==
  /\ lobbies = [id \in Ids |-> None]
  /\ minted = {}
  /\ streams = [id \in Ids |-> {}]
  /\ requests = {}
  /\ official \in [Levels -> Contents \cup {None}]

----------------------------------------------------------------------------
(* Lookups *)

Purgeable(l) == l # None /\ l.phase = "closed" /\ l.expired

\* purgeExpiredLobbyTombstones, run by lobbyRecord and activeLobbies.
Store == [id \in Ids |-> IF Purgeable(lobbies[id]) THEN None ELSE lobbies[id]]
LiveStreams == [id \in Ids |-> IF Purgeable(lobbies[id]) THEN {} ELSE streams[id]]

Present(id) == Store[id] # None

\* userActiveLobby
ActiveOf(u) == {id \in Ids : Present(id) /\ IsActive(Store[id]) /\ Occupies(Store[id], u)}

\* Who may read a lobby: anyone while it is open, its seats once it is closed.
MayRead(l, u) == l.phase # "closed" \/ Occupies(l, u)

\* A handler's write of one record, after the lookup's purge.
Put(id, l) ==
  /\ l.stateRevision <= MaxRevision
  /\ lobbies' = [Store EXCEPT ![id] = l]
  /\ streams' = LiveStreams

----------------------------------------------------------------------------
(* Requests that only read the Map: list, get, backfill, move retries and   *)
(* every refused request.  The purge is their only effect.                  *)

Lookup ==
  /\ lobbies' = Store
  /\ streams' = LiveStreams
  /\ UNCHANGED <<minted, requests, official>>

----------------------------------------------------------------------------
(* Lobby lifecycle *)

Create(u) ==
  /\ ActiveOf(u) = {}
  /\ \E id \in Ids \ minted :
       /\ Put(id, NewLobby(u))
       /\ minted' = minted \cup {id}
  /\ UNCHANGED <<requests, official>>

\* Mutant: a user who already sits elsewhere may join.
Join_Anywhere(u, id) ==
  /\ Present(id)
  /\ CanJoin(Store[id], u)
  /\ Put(id, SeatGuest(Store[id], u))
  /\ UNCHANGED <<minted, requests, official>>

Join(u, id) ==
  /\ Present(id)
  /\ ActiveOf(u) \subseteq {id}
  /\ CanJoin(Store[id], u)
  /\ Put(id, SeatGuest(Store[id], u))
  /\ UNCHANGED <<minted, requests, official>>

\* The state a level or start request expects to find again (expectedState).
Capture(kind, id, lv) ==
  LET l == Store[id]
  IN [kind |-> kind, id |-> id, levelId |-> lv, revision |-> l.stateRevision,
      phase |-> l.phase, host |-> l.host, guest |-> l.guest, metadata |-> Unread]

Await(r) ==
  /\ Cardinality(requests) < MaxRequests
  /\ requests' = requests \cup {r}
  /\ lobbies' = Store
  /\ streams' = LiveStreams
  /\ UNCHANGED <<minted, official>>

LevelRequest(u, id, lv) ==
  /\ Present(id)
  /\ CanSelectLevel(Store[id], u)
  /\ Await(Capture("level", id, lv))

StartRequest(u, id) ==
  /\ Present(id)
  /\ CanStart(Store[id], u)
  /\ Await(Capture("start", id, Store[id].levelId))

\* canonicalLobbyLevelMetadata: the document as it is now, or null when the
\* database is unavailable or holds no such level.
ReadDocument(r) ==
  /\ r.metadata = Unread
  /\ \E content \in {official[r.levelId], None} :
       requests' = (requests \ {r}) \cup {[r EXCEPT !.metadata = content]}
  /\ UNCHANGED <<lobbies, minted, streams, official>>

\* lobbyStateMatches looks the Map up directly, without the purge.
StateMatches(r) ==
  LET l == lobbies[r.id]
  IN /\ l # None
     /\ l.stateRevision = r.revision
     /\ l.phase = r.phase
     /\ l.host = r.host
     /\ l.guest = r.guest
     /\ r.kind = "start" => l.levelId = r.levelId

\* Mutant: Start trusts the eligibility cached at selection.
Continuation_Cached(r) ==
  LET l == lobbies[r.id]
  IN IF r.kind = "level" THEN SelectLevel(l, r.levelId, r.metadata)
     ELSE IF l.levelTimed THEN RejectTimed(l)
     ELSE PinMatch(l, r.metadata)

\* The continuation after the second await: what a request makes of its lobby.
Continuation(r) ==
  LET l == lobbies[r.id]
  IN IF r.kind = "level" THEN SelectLevel(l, r.levelId, r.metadata)
     ELSE IF r.metadata \in TimedContents THEN RejectTimed(l)
     ELSE PinMatch(l, r.metadata)

ApplyRequest(r) ==
  /\ r.metadata # Unread
  /\ StateMatches(r)
  /\ r.metadata # None
  /\ Continuation(r).stateRevision <= MaxRevision
  /\ lobbies' = [lobbies EXCEPT ![r.id] = Continuation(r)]
  /\ requests' = requests \ {r}
  /\ UNCHANGED <<minted, streams, official>>

\* 409 lobby_state_changed or level_not_found.
RefuseRequest(r) ==
  /\ r.metadata # Unread
  /\ ~StateMatches(r) \/ r.metadata = None
  /\ requests' = requests \ {r}
  /\ UNCHANGED <<lobbies, minted, streams, official>>

----------------------------------------------------------------------------
(* The match *)

PostMove(u, id, n, intent, g) ==
  /\ Present(id)
  /\ Occupies(Store[id], u)
  /\ ~KnownIntent(Store[id], intent)
  /\ MayRelay(Store[id], SideOf(Store[id], u), n)
  /\ Len(Store[id].moves) < MaxMoves
  /\ Put(id, Relay(Store[id], SideOf(Store[id], u), intent, g))
  /\ UNCHANGED <<minted, requests, official>>

Resign(u, id) ==
  /\ Present(id)
  /\ Occupies(Store[id], u)
  /\ Store[id].phase = "started"
  /\ Put(id, Publish(Store[id], Resignation(SideOf(Store[id], u))))
  /\ UNCHANGED <<minted, requests, official>>

ReportResult(u, id, rep) ==
  /\ Present(id)
  /\ Occupies(Store[id], u)
  /\ IsStartedLifecycle(Store[id])
  /\ ExactPrefix(Store[id], rep)
  /\ Put(id, RecordReport(Store[id], SideOf(Store[id], u), rep))
  /\ UNCHANGED <<minted, requests, official>>

\* Mutant: the observers stay connected to a closed lobby.
SeatStreams_Everybody(id, l) == LiveStreams[id]

\* The streams a closing lobby keeps (restrictClosedLobbyStreams).
SeatStreams(id, l) == {u \in LiveStreams[id] : Occupies(l, u)}

\* A leave that goes on past the report: the guest reopens a pregame seat; any
\* other leave closes the lobby, and the last departure deletes it.
LeaveSeat(id, l, side) ==
  IF ReopensSeat(l, side)
  THEN Put(id, ReopenSeat(l))
  ELSE LET left == Depart(l, side)
       IN /\ left.stateRevision <= MaxRevision
          /\ IF BothSeatsDeparted(left)
             THEN /\ lobbies' = [Store EXCEPT ![id] = None]
                  /\ streams' = [LiveStreams EXCEPT ![id] = {}]
             ELSE /\ lobbies' = [Store EXCEPT ![id] = left]
                  /\ streams' = [LiveStreams EXCEPT ![id] = SeatStreams(id, left)]

\* Leave without a completion body: from a live match, a resignation.
Leave(u, id) ==
  /\ Present(id)
  /\ Occupies(Store[id], u)
  /\ LET side == SideOf(Store[id], u)
     IN LeaveSeat(id, Concede(Store[id], side), side)
  /\ UNCHANGED <<minted, requests, official>>

\* Leave with a completion: one seat's report.  A refused report is not followed
\* by a departure, though the dispute it starts is kept.
LeaveFinished(u, id, rep) ==
  /\ Present(id)
  /\ Occupies(Store[id], u)
  /\ IsStartedLifecycle(Store[id])
  /\ ExactPrefix(Store[id], rep)
  /\ LET side == SideOf(Store[id], u)
         reported == RecordReport(Store[id], side, rep)
     IN IF ReportAccepted(Store[id], side, rep)
        THEN LeaveSeat(id, reported, side)
        ELSE Put(id, reported)
  /\ UNCHANGED <<minted, requests, official>>

----------------------------------------------------------------------------
(* Event streams *)

Subscribe(u, id) ==
  /\ u \in Watchers
  /\ Present(id)
  /\ MayRead(Store[id], u)
  /\ lobbies' = Store
  /\ streams' = [LiveStreams EXCEPT ![id] = @ \cup {u}]
  /\ UNCHANGED <<minted, requests, official>>

\* The socket closes, or a write to it fails.
Disconnect(u, id) ==
  /\ u \in streams[id]
  /\ streams' = [streams EXCEPT ![id] = @ \ {u}]
  /\ UNCHANGED <<lobbies, minted, requests, official>>

----------------------------------------------------------------------------
(* The environment *)

\* LOBBY_TOMBSTONE_TTL_MS passes.  Tombstones of any age may expire first.
Expire(id) ==
  /\ lobbies[id] # None
  /\ lobbies[id].phase = "closed"
  /\ ~lobbies[id].expired
  /\ lobbies' = [lobbies EXCEPT ![id].expired = TRUE]
  /\ UNCHANGED <<minted, streams, requests, official>>

Republish(lv, content) ==
  /\ official[lv] # content
  /\ official' = [official EXCEPT ![lv] = content]
  /\ UNCHANGED <<lobbies, minted, streams, requests>>

\* The single replica is replaced: the Map, the sockets and the requests go.
Restart ==
  /\ lobbies' = [id \in Ids |-> None]
  /\ streams' = [id \in Ids |-> {}]
  /\ requests' = {}
  /\ UNCHANGED <<minted, official>>

----------------------------------------------------------------------------

ReportsFor(n) == [expectedMoveCount: {n}, outcome: Outcomes]

Next ==
  \/ Lookup
  \/ Restart
  \/ \E u \in Users : Create(u)
  \/ \E u \in Users, id \in Ids :
       \/ Join(u, id)
       \/ StartRequest(u, id)
       \/ Resign(u, id)
       \/ Leave(u, id)
       \/ Subscribe(u, id)
       \/ Disconnect(u, id)
       \/ \E lv \in Levels : LevelRequest(u, id, lv)
       \/ \E n \in 0..MaxMoves :
            \/ \E intent \in Intents, g \in Gestures : PostMove(u, id, n, intent, g)
            \/ \E rep \in ReportsFor(n) : ReportResult(u, id, rep) \/ LeaveFinished(u, id, rep)
  \/ \E r \in requests : ReadDocument(r) \/ ApplyRequest(r) \/ RefuseRequest(r)
  \/ \E id \in Ids : Expire(id)
  \/ \E lv \in Levels, content \in Contents \cup {None} : Republish(lv, content)

Spec == Init /\ [][Next]_vars

----------------------------------------------------------------------------
(* Invariants *)

AllLobbies(P(_)) == \A id \in Ids : lobbies[id] # None => P(lobbies[id])

\* A user sits in at most one lobby that is not a tombstone, whatever the order
\* of the creates, joins and leaves of everybody (userActiveLobby's promise).
OneActiveLobbyPerUser ==
  \A u \in Users, a, b \in Ids :
    (/\ lobbies[a] # None /\ IsActive(lobbies[a]) /\ Occupies(lobbies[a], u)
     /\ lobbies[b] # None /\ IsActive(lobbies[b]) /\ Occupies(lobbies[b], u)) => a = b

\* A match exists exactly while two different users hold an untimed level pinned
\* at Start; no log, report or result exists outside of one.
PinnedMatch == AllLobbies(PinnedLobby)

\* The relay log alternates from the host, is indexed from zero and holds an
\* intent at most once, however often its POST is retried.
LogWellFormed == AllLobbies(OrderedLog)

\* A deterministic result has the report of both seats behind it, each for
\* exactly the final log; two reports that differ are a dispute until somebody
\* concedes, and nothing else is.
OutcomeJustified == AllLobbies(JustifiedLobby)

\* Only its two seats listen to a tombstone, and nobody listens to a lobby that
\* is gone: closing disconnects the observers before the first private frame.
StreamsArePrivate ==
  \A id \in Ids : \A u \in streams[id] : lobbies[id] # None /\ MayRead(lobbies[id], u)

\* While a level or start request waits for its document, an unchanged revision
\* means an unchanged lobby: no leave and rejoin, no other selection hides
\* behind it, so the re-check after the await is enough.
RevisionIdentifiesState ==
  \A r \in requests :
    LET l == lobbies[r.id]
    IN l # None =>
         /\ l.stateRevision >= r.revision
         /\ l.stateRevision = r.revision =>
              /\ <<l.phase, l.host, l.guest>> = <<r.phase, r.host, r.guest>>
              /\ r.kind = "start" => l.levelId = r.levelId

----------------------------------------------------------------------------
(* Refinement: the matches this server keeps are those of MatchAuthority *)

MatchOf(l) ==
  [stage |-> IF ~IsStartedLifecycle(l) THEN "none"
             ELSE IF l.result # None THEN "over"
             ELSE IF AnyReport(l) THEN "frozen" ELSE "live",
   content |-> l.levelSnapshot, log |-> l.moves, verdict |-> l.result]

Lost(id) ==
  [stage |-> IF id \in minted THEN "gone" ELSE "none",
   content |-> None, log |-> <<>>, verdict |-> None]

MatchView == [id \in Ids |-> IF lobbies[id] = None THEN Lost(id) ELSE MatchOf(lobbies[id])]

Authority ==
  INSTANCE MatchAuthority
    WITH match <- MatchView, Agreements <- Outcomes,
         Concessions <- {Resignation(s) : s \in Sides}

\* Every step of the server is, for each id, a step of its one match or a stutter.
ImplementsMatchAuthority == Authority!Spec

----------------------------------------------------------------------------
(* Action properties *)

Survives(id) == lobbies[id] # None /\ lobbies'[id] # None

\* Once started, a match keeps its seats, level and content; its log only grows,
\* and not at all after the first report or the result; reports and result are
\* written once.
MatchIsFinal ==
  [][\A id \in Ids : Survives(id) /\ IsStartedLifecycle(lobbies[id])
                        => FinalMatch(lobbies[id], lobbies'[id])]_vars

\* Every change a client can see raises the revision, so that a concurrent level
\* or start request notices it.
EveryChangeIsRevised ==
  [][\A id \in Ids :
       Survives(id) /\ [lobbies'[id] EXCEPT !.expired = FALSE] # [lobbies[id] EXCEPT !.expired = FALSE]
         => lobbies'[id].stateRevision > lobbies[id].stateRevision]_vars

\* A lobby is dropped only after its tombstone expired, when the second of two
\* seats departs, or with the process: a seat that has not left still finds the
\* final log and result.
DroppedOnlyWhenDone ==
  [][\A id \in Ids :
       lobbies[id] # None /\ lobbies'[id] = None /\ ~Restart =>
         \/ Purgeable(lobbies[id])
         \/ lobbies[id].guest # None /\ \E s \in Sides : lobbies[id].departed[s]]_vars
=============================================================================
