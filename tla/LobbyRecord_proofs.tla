------------------------- MODULE LobbyRecord_proofs -------------------------
(***************************************************************************)
(* What each effect on one lobby record preserves.  LobbyServer_proofs     *)
(* lifts these lemmas to the Map.                                          *)
(***************************************************************************)
EXTENDS LobbyRecord, TLAPS

\* The conjunction that every effect preserves.
Sound(l) == Shaped(l) /\ PinnedLobby(l) /\ OrderedLog(l) /\ JustifiedLobby(l)

----------------------------------------------------------------------------
(* Data *)

\* A seat has an opposite one, and it is not itself.
LEMMA OtherSide ==
  ASSUME NEW s \in Sides PROVE Other(s) \in Sides /\ Other(s) # s /\ Other(Other(s)) = s
BY DEF Sides, Other

\* The side of a user is a side.
LEMMA SideOfType == ASSUME NEW l, NEW u PROVE SideOf(l, u) \in Sides
BY DEF Sides, SideOf

\* A concession is never mistaken for a result the clients report.
LEMMA ResignationIsNoOutcome ==
  ASSUME NEW s \in Sides
  PROVE Resignation(s) \notin Outcomes /\ Resignation(s) \in Results /\ Resignation(s) # None
<1>1. Resignation(s) \in [winner: Sides \cup {"draw"}, reason: WinReasons \cup DrawReasons \cup {"resign"}]
  BY OtherSide DEF Resignation
<1>2. Resignation(s).reason = "resign"
  BY DEF Resignation
<1>3. \A o \in Outcomes : o.reason # "resign"
  BY OutcomesAssumption DEF DeterministicOutcomes, WinReasons, DrawReasons
<1> QED BY <1>1, <1>2, <1>3, NoneAssumption DEF Results

\* null is no outcome and no report.
LEMMA NoneIsNoResult == None \notin Outcomes /\ None \notin Reports /\ None \notin Results
<1>1. Outcomes \subseteq [winner: Sides \cup {"draw"}, reason: WinReasons \cup DrawReasons \cup {"resign"}]
  BY OutcomesAssumption DEF DeterministicOutcomes
<1>2. None \notin Outcomes /\ None \notin Reports
  BY <1>1, NoneAssumption DEF Reports
<1> QED BY <1>2, ResignationIsNoOutcome DEF Results

----------------------------------------------------------------------------
(* Touch and the creation of a lobby *)

LEMMA TouchType == ASSUME NEW l \in Lobby PROVE Touch(l) \in Lobby
BY DEF Touch, Lobby

LEMMA TouchSound == ASSUME NEW l \in Lobby, Sound(l) PROVE Sound(Touch(l))
<1>1. Shaped(Touch(l)) /\ PinnedLobby(Touch(l)) /\ OrderedLog(Touch(l))
  BY DEF Sound, Shaped, PinnedLobby, OrderedLog, Touch, Lobby, IsStartedLifecycle, AnyReport
<1>2. JustifiedLobby(Touch(l))
  BY DEF Sound, JustifiedLobby, ExactPrefix, Touch, Lobby
<1> QED BY <1>1, <1>2 DEF Sound

LEMMA NewLobbyType == ASSUME NEW u \in Users PROVE NewLobby(u) \in Lobby
BY DEF NewLobby, Lobby, Phases, Sides

LEMMA NewLobbySound == ASSUME NEW u \in Users PROVE Sound(NewLobby(u))
<1> DEFINE l == NewLobby(u)
<1>1. Shaped(l)
  BY NoneAssumption DEF NewLobby, Shaped, IsStartedLifecycle, AnyReport, Sides, Phases
<1>2. PinnedLobby(l)
  BY DEF NewLobby, PinnedLobby, IsStartedLifecycle, AnyReport
<1>3. OrderedLog(l)
  BY DEF NewLobby, OrderedLog
<1>4. JustifiedLobby(l)
  BY NoneIsNoResult DEF NewLobby, JustifiedLobby, Sides
<1> QED BY <1>1, <1>2, <1>3, <1>4 DEF Sound

----------------------------------------------------------------------------
(* Before the match *)

\* A lobby in which no match was started has nothing of one.
LEMMA Unstarted ==
  ASSUME NEW l \in Lobby, Sound(l), ~IsStartedLifecycle(l)
  PROVE /\ l.levelSnapshot = None /\ l.moves = <<>> /\ l.result = None
        /\ \A s \in Sides : l.resultReports[s] = None
        /\ l.resultDisputed = FALSE
<1>1. l.levelSnapshot = None /\ l.moves = <<>> /\ l.result = None
  BY DEF Sound, PinnedLobby
<1>2. \A s \in Sides : l.resultReports[s] = None
  BY DEF Sound, PinnedLobby, AnyReport
<1>3. ~l.resultDisputed
  BY <1>2 DEF Sound, JustifiedLobby, Sides
<1> QED BY <1>1, <1>2, <1>3 DEF Lobby

\* A record that differs from a sound one only in its seats, level and phase, with
\* no match in either, is sound when it has the shape.
LEMMA UnstartedSound ==
  ASSUME NEW l \in Lobby, Sound(l), ~IsStartedLifecycle(l),
         NEW m \in Lobby, ~IsStartedLifecycle(m), Shaped(m),
         m.levelSnapshot = None, m.moves = l.moves, m.result = l.result,
         m.resultReports = l.resultReports, m.resultDisputed = l.resultDisputed
  PROVE Sound(m)
<1>1. PinnedLobby(m)
  BY Unstarted DEF PinnedLobby, AnyReport
<1>2. OrderedLog(m)
  <2>1. m.moves = <<>>
    BY Unstarted
  <2> QED BY <2>1 DEF OrderedLog
<1>3. JustifiedLobby(m)
  <2>1. /\ m.result = None /\ m.resultDisputed = FALSE
        /\ m.resultReports["player"] = None /\ m.resultReports["enemy"] = None
    BY Unstarted DEF Sides
  <2> QED BY <2>1, NoneIsNoResult DEF JustifiedLobby, Sides
<1> QED BY <1>1, <1>2, <1>3 DEF Sound

LEMMA SeatGuestType == ASSUME NEW l \in Lobby, NEW u \in Users PROVE SeatGuest(l, u) \in Lobby
<1> DEFINE d == [l.departed EXCEPT !["enemy"] = FALSE]
<1>1. d \in [Sides -> BOOLEAN]
  BY DEF Lobby, Sides
<1>2. [l EXCEPT !.guest = u, !.departed["enemy"] = FALSE, !.phase = "ready"]
       = [l EXCEPT !.guest = u, !.departed = d, !.phase = "ready"]
  OBVIOUS
<1> HIDE DEF d
<1>3. [l EXCEPT !.guest = u, !.departed = d, !.phase = "ready"] \in Lobby
  BY <1>1 DEF Lobby, Phases
<1> QED BY <1>2, <1>3, TouchType DEF SeatGuest

LEMMA SeatGuestSound ==
  ASSUME NEW l \in Lobby, NEW u \in Users, Sound(l), CanJoin(l, u)
  PROVE Sound(SeatGuest(l, u))
<1> DEFINE m == SeatGuest(l, u)
<1>1. m \in Lobby
  BY SeatGuestType
<1>2. Shaped(m)
  BY NoneAssumption DEF Sound, SeatGuest, CanJoin, Touch, Lobby, Sides, Shaped, IsStartedLifecycle
<1>3. ~IsStartedLifecycle(l) /\ ~IsStartedLifecycle(m)
  BY DEF SeatGuest, Touch, Lobby, CanJoin, IsStartedLifecycle
<1>4. /\ m.levelSnapshot = l.levelSnapshot /\ m.moves = l.moves /\ m.result = l.result
      /\ m.resultReports = l.resultReports /\ m.resultDisputed = l.resultDisputed
  BY DEF SeatGuest, Touch, Lobby
<1> QED BY <1>1, <1>2, <1>3, <1>4, Unstarted, UnstartedSound

LEMMA ReopenSeatType == ASSUME NEW l \in Lobby PROVE ReopenSeat(l) \in Lobby
<1> DEFINE d == [l.departed EXCEPT !["enemy"] = FALSE]
<1>1. d \in [Sides -> BOOLEAN]
  BY DEF Lobby, Sides
<1>2. [l EXCEPT !.guest = None, !.departed["enemy"] = FALSE, !.phase = "waiting"]
       = [l EXCEPT !.guest = None, !.departed = d, !.phase = "waiting"]
  OBVIOUS
<1> HIDE DEF d
<1>3. [l EXCEPT !.guest = None, !.departed = d, !.phase = "waiting"] \in Lobby
  BY <1>1 DEF Lobby, Phases
<1> QED BY <1>2, <1>3, TouchType DEF ReopenSeat

LEMMA ReopenSeatSound ==
  ASSUME NEW l \in Lobby, Sound(l), l.phase \in {"waiting", "ready"}
  PROVE Sound(ReopenSeat(l))
<1> DEFINE m == ReopenSeat(l)
<1>1. m \in Lobby
  BY ReopenSeatType
<1>2. Shaped(m)
  BY NoneAssumption DEF Sound, ReopenSeat, Touch, Lobby, Sides, Shaped, IsStartedLifecycle
<1>3. ~IsStartedLifecycle(l) /\ ~IsStartedLifecycle(m)
  BY DEF ReopenSeat, Touch, Lobby, IsStartedLifecycle
<1>4. /\ m.levelSnapshot = l.levelSnapshot /\ m.moves = l.moves /\ m.result = l.result
      /\ m.resultReports = l.resultReports /\ m.resultDisputed = l.resultDisputed
  BY DEF ReopenSeat, Touch, Lobby
<1> QED BY <1>1, <1>2, <1>3, <1>4, Unstarted, UnstartedSound

LEMMA SelectLevelType ==
  ASSUME NEW l \in Lobby, NEW lv \in Levels, NEW c \in Contents
  PROVE SelectLevel(l, lv, c) \in Lobby
<1> DEFINE timed == c \in TimedContents
<1>1. timed \in BOOLEAN
  OBVIOUS
<1> HIDE DEF timed
<1>2. [l EXCEPT !.levelId = lv, !.levelTimed = timed, !.levelSnapshot = None] \in Lobby
  BY <1>1 DEF Lobby
<1> QED BY <1>2, TouchType DEF SelectLevel, timed

LEMMA SelectLevelSound ==
  ASSUME NEW l \in Lobby, NEW lv \in Levels, NEW c \in Contents, Sound(l),
         l.phase \in {"waiting", "ready"}
  PROVE Sound(SelectLevel(l, lv, c))
<1> DEFINE m == SelectLevel(l, lv, c)
<1>1. m \in Lobby
  BY SelectLevelType
<1>2. Shaped(m)
  BY DEF Sound, SelectLevel, Touch, Lobby, Sides, Shaped, IsStartedLifecycle
<1>3. ~IsStartedLifecycle(l) /\ ~IsStartedLifecycle(m)
  BY DEF SelectLevel, Touch, Lobby, IsStartedLifecycle
<1>4. /\ m.levelSnapshot = None /\ m.moves = l.moves /\ m.result = l.result
      /\ m.resultReports = l.resultReports /\ m.resultDisputed = l.resultDisputed
  BY DEF SelectLevel, Touch, Lobby
<1> QED BY <1>1, <1>2, <1>3, <1>4, UnstartedSound

LEMMA RejectTimedType == ASSUME NEW l \in Lobby PROVE RejectTimed(l) \in Lobby
<1>1. [l EXCEPT !.levelTimed = TRUE] \in Lobby
  BY DEF Lobby
<1> QED BY <1>1, TouchType DEF RejectTimed

LEMMA RejectTimedSound ==
  ASSUME NEW l \in Lobby, Sound(l), l.phase = "ready"
  PROVE Sound(RejectTimed(l))
<1> DEFINE m == RejectTimed(l)
<1>1. m \in Lobby
  BY RejectTimedType
<1>2. Shaped(m)
  BY DEF Sound, RejectTimed, Touch, Lobby, Sides, Shaped, IsStartedLifecycle
<1>3. ~IsStartedLifecycle(l) /\ ~IsStartedLifecycle(m)
  BY DEF RejectTimed, Touch, Lobby, IsStartedLifecycle
<1>4. /\ m.levelSnapshot = l.levelSnapshot /\ m.moves = l.moves /\ m.result = l.result
      /\ m.resultReports = l.resultReports /\ m.resultDisputed = l.resultDisputed
  BY DEF RejectTimed, Touch, Lobby
<1> QED BY <1>1, <1>2, <1>3, <1>4, Unstarted, UnstartedSound

LEMMA FreshMatchType == ASSUME NEW l \in Lobby PROVE FreshMatch(l) \in Lobby
<1> DEFINE r == [s \in Sides |-> None]
           d == [s \in Sides |-> FALSE]
           e == <<>>
<1>1. r \in [Sides -> Reports \cup {None}] /\ d \in [Sides -> BOOLEAN] /\ e \in Seq(Moves)
  OBVIOUS
<1> HIDE DEF r, d, e
<1>2. [l EXCEPT !.moves = e, !.result = None, !.resultReports = r, !.resultDisputed = FALSE,
                !.departed = d, !.closedFromPhase = None, !.expired = FALSE] \in Lobby
  BY <1>1, Zenon DEF Lobby
<1> QED BY <1>2, Zenon DEF FreshMatch, r, d, e

LEMMA PinMatchType ==
  ASSUME NEW l \in Lobby, NEW c \in Contents PROVE PinMatch(l, c) \in Lobby
<1>1. ASSUME NEW k \in Lobby
      PROVE [k EXCEPT !.levelTimed = FALSE, !.levelSnapshot = c, !.phase = "started"] \in Lobby
  BY DEF Lobby, Phases
<1> QED BY <1>1, FreshMatchType, TouchType DEF PinMatch

LEMMA PinMatchSound ==
  ASSUME NEW l \in Lobby, NEW c \in Contents \ TimedContents, Sound(l),
         l.phase = "ready", l.guest # None, l.levelId # None
  PROVE Sound(PinMatch(l, c))
<1> DEFINE m == PinMatch(l, c)
<1>1. /\ m.phase = "started" /\ m.host = l.host /\ m.guest = l.guest /\ m.levelId = l.levelId
      /\ m.levelTimed = FALSE /\ m.levelSnapshot = c /\ m.moves = <<>> /\ m.result = None
      /\ m.resultReports = [s \in Sides |-> None] /\ m.resultDisputed = FALSE
      /\ m.departed = [s \in Sides |-> FALSE] /\ m.expired = FALSE
  BY DEF PinMatch, FreshMatch, Touch, Lobby
<1>2. Shaped(m)
  BY <1>1 DEF Sound, Shaped
<1>3. PinnedLobby(m)
  BY <1>1 DEF Sound, Shaped, PinnedLobby, IsStartedLifecycle, Lobby
<1>4. OrderedLog(m)
  BY <1>1 DEF OrderedLog
<1>5. JustifiedLobby(m)
  BY <1>1, NoneIsNoResult DEF JustifiedLobby, Sides
<1> QED BY <1>2, <1>3, <1>4, <1>5 DEF Sound

----------------------------------------------------------------------------
(* The move relay *)

LEMMA RelayType ==
  ASSUME NEW l \in Lobby, NEW side \in Sides, NEW intent \in Intents, NEW g \in Gestures
  PROVE Relay(l, side, intent, g) \in Lobby
<1> DEFINE e == [i |-> Len(l.moves), side |-> side, intentId |-> intent, gesture |-> g]
           log == Append(l.moves, e)
<1>1. l.moves \in Seq(Moves)
  BY DEF Lobby
<1>2. e \in Moves
  BY <1>1 DEF Moves
<1> HIDE DEF e
<1>3. log \in Seq(Moves)
  BY <1>1, <1>2
<1> HIDE DEF log
<1>4. [l EXCEPT !.moves = log] \in Lobby
  BY <1>3, Zenon DEF Lobby
<1> QED BY <1>4, TouchType DEF Relay, log, e

\* Turns alternate with the length of the log.
LEMMA Parity == \A k \in Nat : k % 2 = 0 <=> (k + 1) % 2 = 1
OBVIOUS

LEMMA RelaySound ==
  ASSUME NEW l \in Lobby, Sound(l), NEW side \in Sides, NEW intent \in Intents, NEW g \in Gestures,
         NEW n, MayRelay(l, side, n), ~KnownIntent(l, intent)
  PROVE Sound(Relay(l, side, intent, g))
<1> DEFINE m == Relay(l, side, intent, g)
           e == [i |-> Len(l.moves), side |-> side, intentId |-> intent, gesture |-> g]
<1>1. /\ m.phase = l.phase /\ m.host = l.host /\ m.guest = l.guest /\ m.levelId = l.levelId
      /\ m.levelTimed = l.levelTimed /\ m.levelSnapshot = l.levelSnapshot
      /\ m.moves = Append(l.moves, e) /\ m.result = l.result
      /\ m.resultReports = l.resultReports /\ m.resultDisputed = l.resultDisputed
      /\ m.departed = l.departed /\ m.expired = l.expired /\ m.closedFromPhase = l.closedFromPhase
  BY DEF Relay, Touch, Lobby
<1>2. l.phase = "started" /\ l.result = None /\ ~l.resultDisputed /\ ~AnyReport(l)
  BY DEF MayRelay
<1>3. Shaped(m)
  BY <1>1, <1>2 DEF Sound, Shaped
<1>4. PinnedLobby(m)
  BY <1>1, <1>2 DEF Sound, PinnedLobby, IsStartedLifecycle
<1>5. OrderedLog(m)
  <2>1. l.moves \in Seq(Moves)
    BY DEF Lobby
  <2>2. /\ Len(m.moves) = Len(l.moves) + 1 /\ DOMAIN m.moves = 1..(Len(l.moves) + 1)
        /\ DOMAIN l.moves = 1..Len(l.moves) /\ Len(l.moves) \in Nat
        /\ \A k \in 1..Len(l.moves) : m.moves[k] = l.moves[k]
        /\ m.moves[Len(l.moves) + 1] = e
    BY <1>1, <2>1
  <2>3. side = IF (Len(l.moves) + 1) % 2 = 1 THEN "player" ELSE "enemy"
    <3> DEFINE k == Len(l.moves)
    <3>1. k \in Nat
      BY <2>2
    <3>2. side = IF k % 2 = 0 THEN "player" ELSE "enemy"
      BY DEF MayRelay, ToMove
    <3> HIDE DEF k
    <3>3. k % 2 = 0 <=> (k + 1) % 2 = 1
      BY <3>1, Parity
    <3> QED BY <3>2, <3>3 DEF k
  <2>4. ASSUME NEW k \in DOMAIN m.moves
        PROVE m.moves[k].i = k - 1 /\ m.moves[k].side = IF k % 2 = 1 THEN "player" ELSE "enemy"
    <3>1. CASE k \in 1..Len(l.moves)
      BY <3>1, <2>2 DEF Sound, OrderedLog
    <3>2. CASE k = Len(l.moves) + 1
      BY <3>2, <2>2, <2>3
    <3> QED BY <3>1, <3>2, <2>2
  <2>5. \A k \in 1..Len(l.moves) : l.moves[k].intentId # intent
    BY <2>2 DEF KnownIntent
  <2>6. ASSUME NEW j \in DOMAIN m.moves, NEW k \in DOMAIN m.moves,
               m.moves[j].intentId = m.moves[k].intentId
        PROVE j = k
    <3>1. CASE j \in 1..Len(l.moves) /\ k \in 1..Len(l.moves)
      BY <3>1, <2>2, <2>6 DEF Sound, OrderedLog
    <3>2. CASE j = Len(l.moves) + 1 \/ k = Len(l.moves) + 1
      BY <3>2, <2>2, <2>5, <2>6
    <3> QED BY <3>1, <3>2, <2>2
  <2> QED BY <2>4, <2>6 DEF OrderedLog
<1>6. JustifiedLobby(m)
  <2>1. \A s \in Sides : m.resultReports[s] = None
    BY <1>1, <1>2 DEF AnyReport
  <2>2. m.resultReports["player"] = None /\ m.result = None /\ m.resultDisputed = FALSE
    BY <1>1, <1>2, <2>1 DEF Sides, Lobby
  <2> HIDE DEF m
  <2> QED BY <2>1, <2>2, NoneIsNoResult DEF JustifiedLobby, Sides
<1> QED BY <1>3, <1>4, <1>5, <1>6 DEF Sound

----------------------------------------------------------------------------
(* Results *)

LEMMA PublishType ==
  ASSUME NEW l \in Lobby, NEW r \in Results PROVE Publish(l, r) \in Lobby
<1>1. [l EXCEPT !.result = r, !.resultDisputed = FALSE] \in Lobby
  BY Zenon DEF Lobby
<1> QED BY <1>1, TouchType DEF Publish

\* A concession decides a match from any of its states.
LEMMA PublishResignationSound ==
  ASSUME NEW l \in Lobby, Sound(l), NEW s \in Sides, IsStartedLifecycle(l)
  PROVE Sound(Publish(l, Resignation(s)))
<1> DEFINE m == Publish(l, Resignation(s))
<1>1. CASE l.result # None
  BY <1>1 DEF Publish
<1>2. CASE l.result = None
  <2>1. /\ m.phase = l.phase /\ m.host = l.host /\ m.guest = l.guest /\ m.levelId = l.levelId
        /\ m.levelTimed = l.levelTimed /\ m.levelSnapshot = l.levelSnapshot
        /\ m.moves = l.moves /\ m.result = Resignation(s)
        /\ m.resultReports = l.resultReports /\ m.resultDisputed = FALSE
        /\ m.departed = l.departed /\ m.expired = l.expired /\ m.closedFromPhase = l.closedFromPhase
    BY <1>2 DEF Publish, Touch, Lobby
  <2>2. m.result # None /\ m.result \notin Outcomes
    BY <2>1, ResignationIsNoOutcome
  <2>3. Shaped(m)
    BY <2>1, <2>2 DEF Sound, Shaped, IsStartedLifecycle
  <2>4. PinnedLobby(m)
    BY <2>1 DEF Sound, PinnedLobby, IsStartedLifecycle
  <2>5. OrderedLog(m)
    BY <2>1 DEF Sound, OrderedLog
  <2>6. JustifiedLobby(m)
    BY <1>2, <2>1, <2>2, NoneIsNoResult DEF Sound, JustifiedLobby, ExactPrefix
  <2> QED BY <2>3, <2>4, <2>5, <2>6 DEF Sound
<1> QED BY <1>1, <1>2

\* Storing a report in its own slot keeps the record a lobby.
LEMMA StoreReportType ==
  ASSUME NEW l \in Lobby, NEW side \in Sides, NEW rep \in Reports
  PROVE [l EXCEPT !.resultReports[side] = rep] \in Lobby
<1> DEFINE r == [l.resultReports EXCEPT ![side] = rep]
<1>1. r \in [Sides -> Reports \cup {None}]
  BY DEF Lobby
<1>2. [l EXCEPT !.resultReports[side] = rep] = [l EXCEPT !.resultReports = r]
  OBVIOUS
<1> HIDE DEF r
<1>3. [l EXCEPT !.resultReports = r] \in Lobby
  BY <1>1, Zenon DEF Lobby
<1> QED BY <1>2, <1>3

\* recordDeterministicLobbyResult does one of four things.
LEMMA RecordReportCases ==
  ASSUME NEW l \in Lobby, NEW side \in Sides, NEW rep \in Reports
  PROVE LET other == l.resultReports[Other(side)]
            stored == [l EXCEPT !.resultReports[side] = rep]
            m == RecordReport(l, side, rep)
        IN \/ m = l
           \/ /\ l.resultReports[side] = None /\ l.result = None
              /\ \/ other = None /\ m = Touch(stored)
                 \/ other = rep /\ m = Publish(stored, rep.outcome)
                 \/ other # None /\ other # rep /\ m = Touch([stored EXCEPT !.resultDisputed = TRUE])
BY Zenon DEF RecordReport

LEMMA RecordReportType ==
  ASSUME NEW l \in Lobby, NEW side \in Sides, NEW rep \in Reports
  PROVE RecordReport(l, side, rep) \in Lobby
<1> DEFINE stored == [l EXCEPT !.resultReports[side] = rep]
<1>1. stored \in Lobby
  BY StoreReportType
<1>2. rep.outcome \in Results
  BY DEF Reports, Results
<1> HIDE DEF stored
<1>3. [stored EXCEPT !.resultDisputed = TRUE] \in Lobby
  BY <1>1, Zenon DEF Lobby
<1>4. /\ Touch(stored) \in Lobby /\ Publish(stored, rep.outcome) \in Lobby
      /\ Touch([stored EXCEPT !.resultDisputed = TRUE]) \in Lobby
  BY <1>1, <1>2, <1>3, TouchType, PublishType
<1> QED BY <1>4, RecordReportCases, Zenon DEF stored

\* What a new report changes: its own slot, and the result or the dispute.
NewReport(l, side, rep, m) ==
  /\ m.phase = l.phase /\ m.host = l.host /\ m.guest = l.guest /\ m.levelId = l.levelId
  /\ m.levelTimed = l.levelTimed /\ m.levelSnapshot = l.levelSnapshot
  /\ m.moves = l.moves /\ m.departed = l.departed /\ m.expired = l.expired
  /\ m.closedFromPhase = l.closedFromPhase
  /\ m.stateRevision = l.stateRevision + 1
  /\ l.result = None /\ l.resultReports[side] = None
  /\ m.resultReports[side] = rep
  /\ m.resultReports[Other(side)] = l.resultReports[Other(side)]
  /\ LET other == l.resultReports[Other(side)]
     IN \/ other = None /\ m.result = None /\ m.resultDisputed = l.resultDisputed
        \/ other = rep /\ m.result = rep.outcome /\ m.resultDisputed = FALSE
        \/ other # None /\ other # rep /\ m.result = None /\ m.resultDisputed = TRUE

\* recordDeterministicLobbyResult either changes nothing or records the report.
LEMMA RecordReportFields ==
  ASSUME NEW l \in Lobby, NEW side \in Sides, NEW rep \in Reports, RecordReport(l, side, rep) # l
  PROVE NewReport(l, side, rep, RecordReport(l, side, rep))
<1> DEFINE m == RecordReport(l, side, rep)
           other == l.resultReports[Other(side)]
           r == [l.resultReports EXCEPT ![side] = rep]
           stored == [l EXCEPT !.resultReports[side] = rep]
<1>1. stored = [l EXCEPT !.resultReports = r]
  OBVIOUS
<1>2. r[side] = rep /\ r[Other(side)] = other
  BY OtherSide DEF Lobby
<1>4. CASE l.result = None /\ l.resultReports[side] = None /\ other = None /\ m = Touch(stored)
  BY <1>1, <1>2, <1>4 DEF Touch, Lobby, NewReport
<1>5. CASE l.result = None /\ l.resultReports[side] = None /\ other = rep /\ m = Publish(stored, rep.outcome)
  BY <1>1, <1>2, <1>5 DEF Publish, Touch, Lobby, NewReport
<1>6. CASE /\ l.result = None /\ l.resultReports[side] = None /\ other # None /\ other # rep
           /\ m = Touch([stored EXCEPT !.resultDisputed = TRUE])
  BY <1>1, <1>2, <1>6 DEF Touch, Lobby, NewReport
<1> QED BY <1>4, <1>5, <1>6, RecordReportCases, Zenon

\* The first report of a side, before any result, is stored.
LEMMA RecordReportProgress ==
  ASSUME NEW l \in Lobby, NEW side \in Sides, NEW rep \in Reports,
         l.result = None, l.resultReports[side] = None
  PROVE RecordReport(l, side, rep) # l
<1> DEFINE other == l.resultReports[Other(side)]
           r == [l.resultReports EXCEPT ![side] = rep]
           stored == [l EXCEPT !.resultReports[side] = rep]
<1>1. \/ RecordReport(l, side, rep) = Touch(stored)
      \/ RecordReport(l, side, rep) = Publish(stored, rep.outcome)
      \/ RecordReport(l, side, rep) = Touch([stored EXCEPT !.resultDisputed = TRUE])
  BY Zenon DEF RecordReport
<1>2. stored \in Lobby /\ stored.stateRevision = l.stateRevision /\ stored.result = None
  BY StoreReportType DEF Lobby
<1> HIDE DEF stored
<1>3. /\ Touch(stored).stateRevision = l.stateRevision + 1
      /\ Publish(stored, rep.outcome).stateRevision = l.stateRevision + 1
      /\ Touch([stored EXCEPT !.resultDisputed = TRUE]).stateRevision = l.stateRevision + 1
  BY <1>2 DEF Touch, Publish, Lobby
<1>4. l.stateRevision + 1 # l.stateRevision
  BY DEF Lobby
<1> QED BY <1>1, <1>3, <1>4

\* A report never breaks the agreement behind a result, wherever it comes from.
LEMMA RecordReportSound ==
  ASSUME NEW l \in Lobby, Sound(l), NEW side \in Sides, NEW rep \in Reports,
         IsStartedLifecycle(l), ExactPrefix(l, rep)
  PROVE Sound(RecordReport(l, side, rep))
<1> DEFINE m == RecordReport(l, side, rep)
           other == l.resultReports[Other(side)]
<1>0. m = RecordReport(l, side, rep) /\ other = l.resultReports[Other(side)]
  OBVIOUS
<1> HIDE DEF m, other
<1>1. CASE m = l
  BY <1>0, <1>1
<1>2. CASE m # l
  <2>0. NewReport(l, side, rep, m)
    BY <1>0, <1>2, RecordReportFields
  <2>1. /\ m.phase = l.phase /\ m.host = l.host /\ m.guest = l.guest /\ m.levelId = l.levelId
        /\ m.levelTimed = l.levelTimed /\ m.levelSnapshot = l.levelSnapshot
        /\ m.moves = l.moves /\ m.departed = l.departed /\ m.expired = l.expired
        /\ m.closedFromPhase = l.closedFromPhase
        /\ l.result = None /\ l.resultReports[side] = None
        /\ m.resultReports[side] = rep
        /\ m.resultReports[Other(side)] = other
    BY <1>0, <2>0 DEF NewReport
  <2>2. \/ other = None /\ m.result = None /\ m.resultDisputed = l.resultDisputed
        \/ other = rep /\ m.result = rep.outcome /\ m.resultDisputed = FALSE
        \/ other # None /\ other # rep /\ m.result = None /\ m.resultDisputed = TRUE
    BY <1>0, <2>0 DEF NewReport
  <2>3. rep # None /\ rep.outcome \in Outcomes
    BY NoneIsNoResult DEF Reports
  <2>4. Shaped(m)
    BY <2>1, <2>3 DEF Sound, Shaped, IsStartedLifecycle, AnyReport
  <2>5. PinnedLobby(m)
    BY <2>1 DEF Sound, PinnedLobby, IsStartedLifecycle
  <2>6. OrderedLog(m)
    BY <2>1 DEF Sound, OrderedLog
  <2>7. JustifiedLobby(m)
    <3>1. /\ \A s \in Sides : s = side \/ s = Other(side)
          /\ "player" \in Sides /\ "enemy" \in Sides /\ "player" # "enemy"
          /\ side \in {"player", "enemy"} /\ Other(side) \in {"player", "enemy"} /\ side # Other(side)
      BY DEF Sides, Other
    <3>2. ~l.resultDisputed
      BY <2>1 DEF Sound, JustifiedLobby
    <3>3. other # None => ExactPrefix(l, other)
      BY <1>0, OtherSide DEF Sound, JustifiedLobby
    <3>4. \A s \in Sides : m.resultReports[s] # None => ExactPrefix(m, m.resultReports[s])
      BY <2>1, <3>1, <3>3 DEF ExactPrefix
    <3> DEFINE both == \A s \in Sides : m.resultReports[s] # None
    <3>5. both <=> other # None
      BY <2>1, <2>3, <3>1
    <3>6. m.resultReports["player"] = m.resultReports["enemy"] <=> rep = other
      BY <2>1, <3>1
    <3>7. m.result \in Outcomes => both /\ \A s \in Sides : m.resultReports[s].outcome = m.result
      BY <2>1, <2>2, <2>3, <3>1, <3>5, NoneIsNoResult
    <3>8. both /\ m.resultReports["player"] = m.resultReports["enemy"] => m.result \in Outcomes
      BY <2>2, <2>3, <3>5, <3>6
    <3>9. m.resultDisputed <=>
            both /\ m.resultReports["player"] # m.resultReports["enemy"] /\ m.result = None
      BY <2>2, <2>3, <3>2, <3>5, <3>6, NoneIsNoResult
    <3> QED BY <3>4, <3>7, <3>8, <3>9 DEF JustifiedLobby
  <2> QED BY <1>0, <2>4, <2>5, <2>6, <2>7 DEF Sound
<1> QED BY <1>1, <1>2

----------------------------------------------------------------------------
(* Leaving *)

LEMMA ConcedeType ==
  ASSUME NEW l \in Lobby, NEW side \in Sides PROVE Concede(l, side) \in Lobby
BY PublishType, ResignationIsNoOutcome DEF Concede

LEMMA ConcedeSound ==
  ASSUME NEW l \in Lobby, Sound(l), NEW side \in Sides PROVE Sound(Concede(l, side))
BY PublishResignationSound DEF Concede

LEMMA CloseType == ASSUME NEW l \in Lobby PROVE Close(l) \in Lobby
<1>1. [l EXCEPT !.closedFromPhase = l.phase, !.phase = "closed"] \in Lobby
  <2>1. l.phase \in Phases /\ "closed" \in Phases
    BY DEF Lobby, Phases
  <2> QED BY <2>1, Zenon DEF Lobby
<1> QED BY <1>1, Zenon DEF Close

\* What a departure changes: the phase, the departed mark of its side, the revision.
LEMMA DepartFields ==
  ASSUME NEW l \in Lobby, NEW side \in Sides
  PROVE LET m == Depart(l, side)
        IN /\ m.phase = "closed" /\ m.host = l.host /\ m.guest = l.guest /\ m.levelId = l.levelId
           /\ m.levelTimed = l.levelTimed /\ m.levelSnapshot = l.levelSnapshot
           /\ m.moves = l.moves /\ m.result = l.result /\ m.resultReports = l.resultReports
           /\ m.resultDisputed = l.resultDisputed /\ m.expired = l.expired
           /\ m.stateRevision = l.stateRevision + 1
           /\ m.departed = [l.departed EXCEPT ![side] = TRUE]
           /\ m.closedFromPhase = IF l.phase = "closed" THEN l.closedFromPhase ELSE l.phase
<1> DEFINE d == [l.departed EXCEPT ![side] = TRUE]
           c == Close(l)
<1>1. /\ c.phase = "closed" /\ c.host = l.host /\ c.guest = l.guest /\ c.levelId = l.levelId
      /\ c.levelTimed = l.levelTimed /\ c.levelSnapshot = l.levelSnapshot
      /\ c.moves = l.moves /\ c.result = l.result /\ c.resultReports = l.resultReports
      /\ c.resultDisputed = l.resultDisputed /\ c.expired = l.expired
      /\ c.stateRevision = l.stateRevision /\ c.departed = l.departed
      /\ c.closedFromPhase = IF l.phase = "closed" THEN l.closedFromPhase ELSE l.phase
  BY DEF Close, Lobby
<1>2. c \in Lobby
  BY CloseType
<1> HIDE DEF c
<1>3. [c EXCEPT !.departed[side] = TRUE] = [c EXCEPT !.departed = d]
  BY <1>1
<1>4. Depart(l, side) = Touch([c EXCEPT !.departed = d])
  BY <1>3 DEF Depart, c
<1> HIDE DEF d
<1>5. /\ Depart(l, side).phase = "closed" /\ Depart(l, side).host = c.host
      /\ Depart(l, side).guest = c.guest /\ Depart(l, side).levelId = c.levelId
      /\ Depart(l, side).levelTimed = c.levelTimed /\ Depart(l, side).levelSnapshot = c.levelSnapshot
      /\ Depart(l, side).moves = c.moves /\ Depart(l, side).result = c.result
      /\ Depart(l, side).resultReports = c.resultReports
      /\ Depart(l, side).resultDisputed = c.resultDisputed /\ Depart(l, side).expired = c.expired
      /\ Depart(l, side).stateRevision = c.stateRevision + 1 /\ Depart(l, side).departed = d
      /\ Depart(l, side).closedFromPhase = c.closedFromPhase
  BY <1>1, <1>2, <1>4 DEF Touch, Lobby
<1> QED BY <1>1, <1>5 DEF d

LEMMA DepartType ==
  ASSUME NEW l \in Lobby, NEW side \in Sides PROVE Depart(l, side) \in Lobby
<1> DEFINE c == Close(l)
           d == [c.departed EXCEPT ![side] = TRUE]
<1>1. c \in Lobby
  BY CloseType
<1> HIDE DEF c
<1>2. d \in [Sides -> BOOLEAN]
  BY <1>1 DEF Lobby
<1>3. [c EXCEPT !.departed[side] = TRUE] = [c EXCEPT !.departed = d]
  OBVIOUS
<1> HIDE DEF d
<1>4. [c EXCEPT !.departed = d] \in Lobby
  BY <1>1, <1>2, Zenon DEF Lobby
<1> QED BY <1>3, <1>4, TouchType DEF Depart, c

\* A departure is sound once the match, if there is one, has an end: a result or a
\* report that froze it.
LEMMA DepartSound ==
  ASSUME NEW l \in Lobby, Sound(l), NEW side \in Sides,
         IsStartedLifecycle(l) => l.result # None \/ AnyReport(l),
         l.phase = "waiting" => side = "player"
  PROVE Sound(Depart(l, side))
<1> DEFINE m == Depart(l, side)
<1>1. /\ m.phase = "closed" /\ m.host = l.host /\ m.guest = l.guest /\ m.levelId = l.levelId
      /\ m.levelTimed = l.levelTimed /\ m.levelSnapshot = l.levelSnapshot
      /\ m.moves = l.moves /\ m.result = l.result /\ m.resultReports = l.resultReports
      /\ m.resultDisputed = l.resultDisputed /\ m.expired = l.expired
      /\ m.closedFromPhase = IF l.phase = "closed" THEN l.closedFromPhase ELSE l.phase
  BY DepartFields
<1>2. IsStartedLifecycle(m) <=> IsStartedLifecycle(l)
  BY <1>1 DEF IsStartedLifecycle
<1>3. AnyReport(m) <=> AnyReport(l)
  BY <1>1 DEF AnyReport
<1> HIDE DEF m
<1>4. Shaped(m)
  BY <1>1, <1>2, <1>3 DEF Sound, Shaped, Lobby, Phases
<1>5. PinnedLobby(m)
  BY <1>1, <1>2, <1>3 DEF Sound, PinnedLobby
<1>6. OrderedLog(m)
  BY <1>1 DEF Sound, OrderedLog
<1>7. JustifiedLobby(m)
  BY <1>1 DEF Sound, JustifiedLobby, ExactPrefix
<1> QED BY <1>4, <1>5, <1>6, <1>7 DEF Sound, m
=============================================================================
