---------------------------- MODULE LobbyRecord ----------------------------
(***************************************************************************)
(* One entry of the in-process `lobbies` Map of backend/server.js and the  *)
(* pure functions the request handlers apply to it.  A handler reads and   *)
(* writes a single record, so every effect is an operator from a record to *)
(* a record; LobbyServer applies them to the Map and NetMatch to the one   *)
(* lobby a match is played in.                                             *)
(*                                                                         *)
(* Abstracted: names, timestamps, the board seed (pinned together with the *)
(* level) and the fingerprint (a function of the level snapshot).          *)
(***************************************************************************)
EXTENDS Naturals, Sequences

CONSTANTS
  Users,          \* authenticated e-mail identities
  Levels,         \* official level ids
  Contents,       \* published contents of a level
  TimedContents,  \* the contents with a timeControl
  Intents,        \* client-generated intent ids
  Gestures,       \* (pieceId, destination, promotion) payloads
  Outcomes,       \* deterministic terminal outcomes the clients may report
  None            \* null

Sides == {"player", "enemy"}
Phases == {"waiting", "ready", "started", "closed"}
WinReasons == {"victory-rule", "checkmate"}
DrawReasons == {"stalemate", "dead-position", "fifty-move", "threefold"}

DeterministicOutcomes ==
  [winner: Sides, reason: WinReasons] \cup [winner: {"draw"}, reason: DrawReasons]

ASSUME TimedAssumption == TimedContents \subseteq Contents
ASSUME OutcomesAssumption == Outcomes \subseteq DeterministicOutcomes
ASSUME NoneAssumption ==
  /\ None \notin Users \cup Levels \cup Contents
  /\ None \notin BOOLEAN
  /\ None \notin Phases
  /\ None \notin [winner: Sides \cup {"draw"}, reason: WinReasons \cup DrawReasons \cup {"resign"}]
  /\ None \notin [expectedMoveCount: Nat, outcome: Outcomes]
  /\ None \notin [i: Nat, side: Sides, intentId: Intents, gesture: Gestures]

Other(side) == IF side = "player" THEN "enemy" ELSE "player"
Resignation(side) == [winner |-> Other(side), reason |-> "resign"]

Moves == [i: Nat, side: Sides, intentId: Intents, gesture: Gestures]
Results == Outcomes \cup {Resignation(s) : s \in Sides}
Reports == [expectedMoveCount: Nat, outcome: Outcomes]

Lobby ==
  [phase: Phases, stateRevision: Nat, host: Users, guest: Users \cup {None},
   levelId: Levels \cup {None}, levelTimed: BOOLEAN \cup {None},
   levelSnapshot: Contents \cup {None}, moves: Seq(Moves),
   result: Results \cup {None}, resultReports: [Sides -> Reports \cup {None}],
   resultDisputed: BOOLEAN, departed: [Sides -> BOOLEAN],
   closedFromPhase: Phases \cup {None}, expired: BOOLEAN]

----------------------------------------------------------------------------
(* Reading a lobby *)

Occupies(l, u) == u = l.host \/ u = l.guest

\* lobbySideForEmail: only meaningful when Occupies(l, u).
SideOf(l, u) == IF l.host = u THEN "player" ELSE "enemy"

IsStartedLifecycle(l) ==
  l.phase = "started" \/ (l.phase = "closed" /\ l.closedFromPhase = "started")

\* Mutant: the first departure collects the tombstone.
BothSeatsDeparted_AnySeat(l) == \E s \in Sides : l.departed[s]

\* bothLobbySeatsDeparted
BothSeatsDeparted(l) == l.guest # None /\ \A s \in Sides : l.departed[s]

\* activeLobbies: the tombstones are not listed and block nobody.
IsActive(l) == l.phase # "closed"

AnyReport(l) == \E s \in Sides : l.resultReports[s] # None

ToMove(l) == IF Len(l.moves) % 2 = 0 THEN "player" ELSE "enemy"

----------------------------------------------------------------------------
(* Lifecycle: create, join, level, start *)

\* `touchLobby`
Touch(l) == [l EXCEPT !.stateRevision = @ + 1]

NewLobby(u) ==
  [phase |-> "waiting", stateRevision |-> 0, host |-> u, guest |-> None,
   levelId |-> None, levelTimed |-> None, levelSnapshot |-> None, moves |-> <<>>,
   result |-> None, resultReports |-> [s \in Sides |-> None],
   resultDisputed |-> FALSE, departed |-> [s \in Sides |-> FALSE],
   closedFromPhase |-> None, expired |-> FALSE]

CanJoin(l, u) == l.phase = "waiting" /\ l.guest = None /\ l.host # u

SeatGuest(l, u) ==
  Touch([l EXCEPT !.guest = u, !.departed["enemy"] = FALSE, !.phase = "ready"])

CanSelectLevel(l, u) == l.host = u /\ l.phase \in {"waiting", "ready"}

\* Mutant: a selection without touchLobby.
SelectLevel_Untouched(l, lv, content) ==
  [l EXCEPT !.levelId = lv, !.levelTimed = content \in TimedContents, !.levelSnapshot = None]

SelectLevel(l, lv, content) ==
  Touch([l EXCEPT !.levelId = lv, !.levelTimed = content \in TimedContents,
                  !.levelSnapshot = None])

\* Mutant: a started lobby may be started again.
CanStart_Again(l, u) ==
  l.host = u /\ l.phase \in {"ready", "started"} /\ l.guest # None /\ l.levelId # None

CanStart(l, u) ==
  l.host = u /\ l.phase = "ready" /\ l.guest # None /\ l.levelId # None

\* The level was republished with a clock between selection and Start.
RejectTimed(l) == Touch([l EXCEPT !.levelTimed = TRUE])

\* The one match of a lobby begins with nothing of an earlier one.
FreshMatch(l) ==
  [l EXCEPT !.moves = <<>>, !.result = None, !.resultReports = [s \in Sides |-> None],
            !.resultDisputed = FALSE, !.departed = [s \in Sides |-> FALSE],
            !.closedFromPhase = None, !.expired = FALSE]

PinMatch(l, content) ==
  Touch([FreshMatch(l) EXCEPT !.levelTimed = FALSE, !.levelSnapshot = content, !.phase = "started"])

----------------------------------------------------------------------------
(* The move relay *)

KnownIntent(l, intent) == \E k \in DOMAIN l.moves : l.moves[k].intentId = intent

PriorEvent(l, intent) ==
  l.moves[CHOOSE k \in DOMAIN l.moves : l.moves[k].intentId = intent]

\* An HTTP retry of the original body, answered with the original event.
IdenticalIntent(l, side, n, intent, g) ==
  KnownIntent(l, intent) /\ PriorEvent(l, intent) = [i |-> n, side |-> side, intentId |-> intent, gesture |-> g]

\* Mutants: without the pending-report gate; without the turn gate.
MayRelay_DuringReports(l, side, n) ==
  /\ l.phase = "started" /\ l.result = None /\ ~l.resultDisputed
  /\ n = Len(l.moves) /\ side = ToMove(l)
MayRelay_AnyTurn(l, side, n) ==
  /\ l.phase = "started" /\ l.result = None /\ ~l.resultDisputed /\ ~AnyReport(l)
  /\ n = Len(l.moves)

\* The gates a genuinely new intent passes, in the handler's order.
MayRelay(l, side, n) ==
  /\ l.phase = "started"
  /\ l.result = None
  /\ ~l.resultDisputed
  /\ ~AnyReport(l)
  /\ n = Len(l.moves)
  /\ side = ToMove(l)

Relay(l, side, intent, g) ==
  Touch([l EXCEPT !.moves = Append(@, [i |-> Len(l.moves), side |-> side,
                                       intentId |-> intent, gesture |-> g])])

----------------------------------------------------------------------------
(* Terminal results *)

\* publishLobbyResult: the first result stands.
Publish(l, result) ==
  IF l.result # None THEN l
  ELSE Touch([l EXCEPT !.result = result, !.resultDisputed = FALSE])

\* parseDeterministicLobbyResult: a report names the exact authoritative prefix.
ExactPrefix(l, rep) == rep.expectedMoveCount = Len(l.moves)

\* recordDeterministicLobbyResult answers 200 rather than 409.
ReportAccepted(l, side, rep) ==
  LET previous == l.resultReports[side]
      other == l.resultReports[Other(side)]
  IN IF previous # None THEN previous = rep
     ELSE l.result = None /\ other \in {None, rep}

\* What recordDeterministicLobbyResult stores, accepted or not: two reports that
\* differ are both kept and freeze the lobby.
RecordReport(l, side, rep) ==
  LET other == l.resultReports[Other(side)]
      stored == [l EXCEPT !.resultReports[side] = rep]
  IN CASE l.resultReports[side] # None \/ l.result # None -> l
       [] OTHER -> IF other = None THEN Touch(stored)
                   ELSE IF other = rep THEN Publish(stored, rep.outcome)
                   ELSE Touch([stored EXCEPT !.resultDisputed = TRUE])

----------------------------------------------------------------------------
(* Leaving *)

ReopensSeat(l, side) == side = "enemy" /\ l.phase \in {"waiting", "ready"}

\* Mutant: the reopened seat keeps its revision.
ReopenSeat_Untouched(l) ==
  [l EXCEPT !.guest = None, !.departed["enemy"] = FALSE, !.phase = "waiting"]

\* A guest leaving before the match: the seat opens again.
ReopenSeat(l) ==
  Touch([l EXCEPT !.guest = None, !.departed["enemy"] = FALSE, !.phase = "waiting"])

Close(l) ==
  IF l.phase = "closed" THEN l
  ELSE [l EXCEPT !.closedFromPhase = l.phase, !.phase = "closed"]

\* Leaving a live match without a completion is a resignation.
Concede(l, side) ==
  IF IsStartedLifecycle(l) /\ l.guest # None THEN Publish(l, Resignation(side)) ELSE l

Depart(l, side) == Touch([Close(l) EXCEPT !.departed[side] = TRUE])

----------------------------------------------------------------------------
(* What holds of every lobby; LobbyServer states it of the Map *)

\* Who sits in a lobby and when it can have been left, over its lifecycle; a match
\* that nobody has ended is still open.
Shaped(l) ==
  /\ l.guest # l.host
  /\ l.phase = "waiting" => l.guest = None
  /\ l.phase \in {"ready", "started"} => l.guest # None
  /\ l.phase = "closed" => l.closedFromPhase \in Phases \ {"closed"}
  /\ l.phase = "closed" /\ l.closedFromPhase # "waiting" => l.guest # None
  /\ l.expired => l.phase = "closed"
  /\ \A s \in Sides : l.departed[s] => l.phase = "closed"
  /\ IsStartedLifecycle(l) /\ l.result = None /\ ~AnyReport(l) => l.phase = "started"

PinnedLobby(l) ==
  IF IsStartedLifecycle(l)
  THEN /\ l.guest \in Users \ {l.host}
       /\ l.levelId # None
       /\ l.levelTimed = FALSE
       /\ l.levelSnapshot \in Contents \ TimedContents
  ELSE /\ l.levelSnapshot = None
       /\ l.moves = <<>>
       /\ l.result = None
       /\ ~AnyReport(l)

OrderedLog(l) ==
  /\ \A k \in DOMAIN l.moves :
       /\ l.moves[k].i = k - 1
       /\ l.moves[k].side = IF k % 2 = 1 THEN "player" ELSE "enemy"
  /\ \A j, k \in DOMAIN l.moves : l.moves[j].intentId = l.moves[k].intentId => j = k

JustifiedLobby(l) ==
  LET report(s) == l.resultReports[s]
      both == \A s \in Sides : report(s) # None
  IN /\ \A s \in Sides : report(s) # None => ExactPrefix(l, report(s))
     /\ l.result \in Outcomes => both /\ \A s \in Sides : report(s).outcome = l.result
     /\ both /\ report("player") = report("enemy") => l.result \in Outcomes
     /\ l.resultDisputed <=>
          both /\ report("player") # report("enemy") /\ l.result = None

\* From a lobby l to a later m, once the match has started.
FinalMatch(l, m) ==
  /\ IsStartedLifecycle(m)
  /\ <<m.host, m.guest, m.levelId, m.levelSnapshot>> = <<l.host, l.guest, l.levelId, l.levelSnapshot>>
  /\ Len(m.moves) >= Len(l.moves)
  /\ SubSeq(m.moves, 1, Len(l.moves)) = l.moves
  /\ AnyReport(l) \/ l.result # None => m.moves = l.moves
  /\ l.result # None => m.result = l.result
  /\ \A s \in Sides : l.resultReports[s] # None => m.resultReports[s] = l.resultReports[s]
=============================================================================
