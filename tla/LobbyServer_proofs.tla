------------------------- MODULE LobbyServer_proofs -------------------------
(***************************************************************************)
(* The safety of LobbyServer for every number of users, lobbies, levels,   *)
(* moves and requests.  Effect names everything a handler may do to one    *)
(* record; the lemmas say what an effect preserves, Step says that every   *)
(* action is, id by id, an effect, a creation or a removal, and the        *)
(* theorems follow from the two.  What users may rely on comes last: one   *)
(* active lobby each, private streams, which are looked at action by       *)
(* action, and the matches of MatchAuthority.                              *)
(***************************************************************************)
EXTENDS LobbyServer, LobbyRecord_proofs

\* A departure: the end of the match it brings about, then the mark of its side.
Departure(l, m) ==
  \E s \in Sides, k \in Lobby :
    /\ \/ k = Concede(l, s)
       \/ \E rep \in Reports :
            /\ IsStartedLifecycle(l) /\ ExactPrefix(l, rep) /\ ReportAccepted(l, s, rep)
            /\ k = RecordReport(l, s, rep)
    /\ ~ReopensSeat(k, s)
    /\ m = Depart(k, s)

Joined(l, m) == \E u \in Users : CanJoin(l, u) /\ m = SeatGuest(l, u)

Pregame(l, m) ==
  \/ \E lv \in Levels, c \in Contents :
       l.phase \in {"waiting", "ready"} /\ m = SelectLevel(l, lv, c)
  \/ l.phase = "ready" /\ m = RejectTimed(l)
  \/ l.phase \in {"waiting", "ready"} /\ m = ReopenSeat(l)

Pinned(l, m) ==
  /\ l.phase = "ready" /\ l.guest # None /\ l.levelId # None
  /\ \E c \in Contents \ TimedContents : m = PinMatch(l, c)

Relayed(l, m) ==
  \E s \in Sides, intent \in Intents, g \in Gestures, n \in Nat :
    MayRelay(l, s, n) /\ ~KnownIntent(l, intent) /\ m = Relay(l, s, intent, g)

Conceded(l, m) == \E s \in Sides : IsStartedLifecycle(l) /\ m = Publish(l, Resignation(s))

Reported(l, m) ==
  \E s \in Sides, rep \in Reports :
    IsStartedLifecycle(l) /\ ExactPrefix(l, rep) /\ m = RecordReport(l, s, rep)

Expired(l, m) == l.phase = "closed" /\ m = [l EXCEPT !.expired = TRUE]

Change(l, m) ==
  \/ Pregame(l, m) \/ Pinned(l, m) \/ Relayed(l, m) \/ Conceded(l, m)
  \/ Reported(l, m) \/ Departure(l, m) \/ Expired(l, m)

Effect(l, m) == Joined(l, m) \/ Change(l, m)

----------------------------------------------------------------------------
(* What an effect preserves *)

\* After a concession a match has a result.
LEMMA ConcedeEnds ==
  ASSUME NEW l \in Lobby, Sound(l), NEW s \in Sides
  PROVE IsStartedLifecycle(Concede(l, s)) => Concede(l, s).result # None
<1>1. CASE IsStartedLifecycle(l)
  <2>1. l.guest # None
    BY <1>1, NoneAssumption DEF Sound, PinnedLobby
  <2>2. Concede(l, s) = Publish(l, Resignation(s))
    BY <1>1, <2>1 DEF Concede
  <2>3. l.result = None => Publish(l, Resignation(s)).result = Resignation(s)
    BY DEF Publish, Touch, Lobby
  <2> QED BY <2>2, <2>3, ResignationIsNoOutcome DEF Publish
<1>2. CASE ~IsStartedLifecycle(l)
  BY <1>2 DEF Concede
<1> QED BY <1>1, <1>2

\* An accepted report of a side is in the record.
LEMMA AcceptedReportStays ==
  ASSUME NEW l \in Lobby, NEW s \in Sides, NEW rep \in Reports, ReportAccepted(l, s, rep)
  PROVE AnyReport(RecordReport(l, s, rep))
<1>1. rep # None
  BY NoneIsNoResult
<1>2. CASE RecordReport(l, s, rep) = l
  <2>1. CASE l.resultReports[s] # None
    BY <1>2, <2>1 DEF AnyReport
  <2>2. CASE l.resultReports[s] = None
    <3>1. l.result = None /\ l.resultReports[Other(s)] \in {None, rep}
      BY <2>2 DEF ReportAccepted
    <3> QED BY <1>1, <1>2, <2>2, <3>1, RecordReportProgress
  <2> QED BY <2>1, <2>2
<1>3. CASE RecordReport(l, s, rep) # l
  <2>1. NewReport(l, s, rep, RecordReport(l, s, rep))
    BY <1>3, RecordReportFields
  <2> QED BY <1>1, <2>1 DEF NewReport, AnyReport
<1> QED BY <1>2, <1>3

LEMMA DepartureType ==
  ASSUME NEW l \in Lobby, NEW m, Departure(l, m) PROVE m \in Lobby
BY DepartType DEF Departure

LEMMA DepartureSound ==
  ASSUME NEW l \in Lobby, Sound(l), NEW m, Departure(l, m) PROVE Sound(m)
<1>1. PICK s \in Sides, k \in Lobby :
        /\ \/ k = Concede(l, s)
           \/ \E rep \in Reports :
                /\ IsStartedLifecycle(l) /\ ExactPrefix(l, rep) /\ ReportAccepted(l, s, rep)
                /\ k = RecordReport(l, s, rep)
        /\ ~ReopensSeat(k, s)
        /\ m = Depart(k, s)
  BY DEF Departure
<1>2. Sound(k)
  BY <1>1, ConcedeSound, RecordReportSound
<1>3. IsStartedLifecycle(k) => k.result # None \/ AnyReport(k)
  BY <1>1, ConcedeEnds, AcceptedReportStays
<1>4. k.phase = "waiting" => s = "player"
  BY <1>1 DEF ReopensSeat, Sides
<1> QED BY <1>1, <1>2, <1>3, <1>4, DepartSound

LEMMA ExpiredType == ASSUME NEW l \in Lobby, NEW m, Expired(l, m) PROVE m \in Lobby
BY Zenon DEF Expired, Lobby

LEMMA ExpiredSound == ASSUME NEW l \in Lobby, Sound(l), NEW m, Expired(l, m) PROVE Sound(m)
<1>1. /\ m.phase = l.phase /\ m.host = l.host /\ m.guest = l.guest /\ m.levelId = l.levelId
      /\ m.levelTimed = l.levelTimed /\ m.levelSnapshot = l.levelSnapshot
      /\ m.moves = l.moves /\ m.result = l.result /\ m.resultReports = l.resultReports
      /\ m.resultDisputed = l.resultDisputed /\ m.departed = l.departed
      /\ m.closedFromPhase = l.closedFromPhase
  BY DEF Expired, Lobby
<1>2. (IsStartedLifecycle(m) <=> IsStartedLifecycle(l)) /\ (AnyReport(m) <=> AnyReport(l))
  BY <1>1 DEF IsStartedLifecycle, AnyReport
<1>3. Shaped(m)
  BY <1>1, <1>2 DEF Sound, Shaped, Expired
<1>4. PinnedLobby(m)
  BY <1>1, <1>2 DEF Sound, PinnedLobby
<1>5. OrderedLog(m) /\ JustifiedLobby(m)
  BY <1>1 DEF Sound, OrderedLog, JustifiedLobby, ExactPrefix
<1> QED BY <1>3, <1>4, <1>5 DEF Sound

LEMMA EffectType ==
  ASSUME NEW l \in Lobby, NEW m, Effect(l, m) PROVE m \in Lobby
BY SeatGuestType, SelectLevelType, RejectTimedType, ReopenSeatType, PinMatchType, RelayType,
   PublishType, ResignationIsNoOutcome, RecordReportType, DepartureType, ExpiredType
   DEF Effect, Change, Joined, Pregame, Pinned, Relayed, Conceded, Reported

LEMMA EffectSound ==
  ASSUME NEW l \in Lobby, Sound(l), NEW m, Effect(l, m) PROVE Sound(m)
BY SeatGuestSound, SelectLevelSound, RejectTimedSound, ReopenSeatSound, PinMatchSound, RelaySound,
   PublishResignationSound, RecordReportSound, DepartureSound, ExpiredSound
   DEF Effect, Change, Joined, Pregame, Pinned, Relayed, Conceded, Reported

----------------------------------------------------------------------------
(* Every action, id by id *)

\* What may be removed from the Map by a handler.
Removable(l) == Purgeable(l) \/ (l.guest # None /\ \E s \in Sides : l.departed[s])

\* A step that seats nobody.
Quiet(id) ==
  \/ lobbies'[id] = lobbies[id]
  \/ lobbies[id] # None /\ lobbies'[id] = None /\ (Removable(lobbies[id]) \/ Restart)
  \/ lobbies[id] # None /\ Change(lobbies[id], lobbies'[id])

MapStep(id) ==
  \/ Quiet(id)
  \/ lobbies[id] = None /\ id \notin minted /\ \E u \in Users : lobbies'[id] = NewLobby(u)
  \/ lobbies[id] # None /\ Joined(lobbies[id], lobbies'[id])

\* A waiting request captured a lobby its action was allowed on.
RequestsAllowed ==
  \A r \in requests :
    /\ r.phase \in {"waiting", "ready"}
    /\ r.kind = "start" => r.phase = "ready" /\ r.guest # None

\* Only minted ids are in use.
MintedOnly ==
  /\ \A id \in Ids : lobbies[id] # None => id \in minted
  /\ \A r \in requests : r.id \in minted

Base == TypeOK /\ AllLobbies(Sound) /\ RequestsAllowed /\ MintedOnly

LEMMA StoreCases ==
  ASSUME TypeOK, NEW id \in Ids
  PROVE /\ Store[id] \in Lobby \cup {None}
        /\ Store[id] = lobbies[id] \/ (Purgeable(lobbies[id]) /\ Store[id] = None)
        /\ Present(id) => Store[id] = lobbies[id] /\ lobbies[id] \in Lobby
BY DEF Store, Present, TypeOK, Purgeable

\* The purge alone is a step of every id.
LEMMA PurgeStep ==
  ASSUME TypeOK, NEW id \in Ids, lobbies'[id] = Store[id]
  PROVE Quiet(id)
BY StoreCases DEF Quiet, Removable, Purgeable

LEMMA AllPurged == ASSUME TypeOK, lobbies' = Store PROVE \A id \in Ids : Quiet(id)
<1> SUFFICES ASSUME NEW id \in Ids PROVE Quiet(id)
  OBVIOUS
<1>1. lobbies'[id] = Store[id]
  OBVIOUS
<1> QED BY <1>1, PurgeStep

\* A handler's write of one record, where that write is an effect.
LEMMA PutStep ==
  ASSUME TypeOK, NEW id \in Ids, NEW m, Present(id), Change(lobbies[id], m),
         lobbies' = [Store EXCEPT ![id] = m]
  PROVE \A j \in Ids : Quiet(j)
<1> SUFFICES ASSUME NEW j \in Ids PROVE Quiet(j)
  OBVIOUS
<1>1. CASE j = id
  <2>1. lobbies'[id] = m
    BY DEF Store
  <2>2. lobbies[id] # None
    BY StoreCases, NoLobbyAssumption
  <2> QED BY <1>1, <2>1, <2>2 DEF Quiet
<1>2. CASE j # id
  <2>1. lobbies'[j] = Store[j]
    BY <1>2 DEF Store
  <2> QED BY <2>1, PurgeStep
<1> QED BY <1>1, <1>2

\* A departure of l after its match ended as k.
EndedBy(l, s, k) ==
  \/ k = Concede(l, s)
  \/ \E rep \in Reports :
       /\ IsStartedLifecycle(l) /\ ExactPrefix(l, rep) /\ ReportAccepted(l, s, rep)
       /\ k = RecordReport(l, s, rep)

\* Ending a match moves neither its seats nor its marks; before a match nothing ends.
LEMMA EndedByKeeps ==
  ASSUME NEW l \in Lobby, NEW s \in Sides, NEW k, EndedBy(l, s, k)
  PROVE /\ k \in Lobby /\ k.host = l.host /\ k.guest = l.guest /\ k.departed = l.departed
        /\ k.phase = l.phase
        /\ ~IsStartedLifecycle(l) => k = l
<1>1. CASE k = Concede(l, s)
  <2>1. CASE k = l
    BY <2>1
  <2>2. CASE IsStartedLifecycle(l) /\ k = Publish(l, Resignation(s))
    <3>1. k \in Lobby
      BY <2>2, PublishType, ResignationIsNoOutcome
    <3> QED BY <2>2, <3>1 DEF Publish, Touch, Lobby
  <2> QED BY <1>1, <2>1, <2>2 DEF Concede
<1>2. ASSUME NEW rep \in Reports, IsStartedLifecycle(l), k = RecordReport(l, s, rep)
      PROVE /\ k \in Lobby /\ k.host = l.host /\ k.guest = l.guest /\ k.departed = l.departed
            /\ k.phase = l.phase /\ (~IsStartedLifecycle(l) => k = l)
  <2>1. k \in Lobby
    BY <1>2, RecordReportType
  <2>2. k = l \/ NewReport(l, s, rep, k)
    BY <1>2, RecordReportFields
  <2> QED BY <1>2, <2>1, <2>2 DEF NewReport
<1> QED BY <1>1, <1>2 DEF EndedBy

LEMMA LeaveSeatStep ==
  ASSUME Base, NEW id \in Ids, Present(id), NEW s \in Sides, NEW k,
         EndedBy(lobbies[id], s, k), LeaveSeat(id, k, s)
  PROVE \A j \in Ids : Quiet(j)
<1> DEFINE l == lobbies[id]
<1>1. l \in Lobby /\ l # None /\ Sound(l)
  BY StoreCases DEF Base, AllLobbies, Present
<1>2. /\ k \in Lobby /\ k.host = l.host /\ k.guest = l.guest /\ k.departed = l.departed
      /\ k.phase = l.phase /\ (~IsStartedLifecycle(l) => k = l)
  BY <1>1, EndedByKeeps
<1>3. CASE ReopensSeat(k, s)
  <2>1. k = l /\ l.phase \in {"waiting", "ready"}
    BY <1>2, <1>3 DEF ReopensSeat, IsStartedLifecycle
  <2>2. Change(l, ReopenSeat(k))
    BY <2>1 DEF Change, Pregame
  <2>3. lobbies' = [Store EXCEPT ![id] = ReopenSeat(k)]
    BY <1>3 DEF LeaveSeat, Put
  <2> QED BY <2>2, <2>3, PutStep DEF Base
<1>4. CASE ~ReopensSeat(k, s) /\ ~BothSeatsDeparted(Depart(k, s))
  <2>1. Change(l, Depart(k, s))
    BY <1>2, <1>4 DEF Change, Departure, EndedBy
  <2>2. lobbies' = [Store EXCEPT ![id] = Depart(k, s)]
    BY <1>4 DEF LeaveSeat
  <2> QED BY <2>1, <2>2, PutStep DEF Base
<1>5. CASE ~ReopensSeat(k, s) /\ BothSeatsDeparted(Depart(k, s))
  <2>1. lobbies' = [Store EXCEPT ![id] = None]
    BY <1>5 DEF LeaveSeat
  <2>2. Depart(k, s).guest = k.guest /\ Depart(k, s).departed = [k.departed EXCEPT ![s] = TRUE]
    BY <1>2, DepartFields
  <2>3. l.guest # None
    BY <1>2, <1>5, <2>2 DEF BothSeatsDeparted
  <2>4. l.departed[Other(s)]
    <3>1. Depart(k, s).departed[Other(s)]
      BY <1>5, OtherSide DEF BothSeatsDeparted
    <3> QED BY <1>2, <2>2, <3>1, OtherSide DEF Lobby
  <2>5. Removable(l)
    BY <2>3, <2>4, OtherSide DEF Removable
  <2> SUFFICES ASSUME NEW j \in Ids PROVE Quiet(j)
    OBVIOUS
  <2>6. CASE j = id
    BY <1>1, <2>1, <2>5, <2>6 DEF Quiet, Store
  <2>7. CASE j # id
    <3>1. lobbies'[j] = Store[j]
      BY <2>1, <2>7 DEF Store
    <3> QED BY <3>1, PurgeStep DEF Base
  <2> QED BY <2>6, <2>7
<1> QED BY <1>3, <1>4, <1>5

\* What every handler of a seat starts from.
LEMMA SeatedLobby ==
  ASSUME Base, NEW id \in Ids, NEW u, Present(id)
  PROVE /\ Store[id] = lobbies[id] /\ lobbies[id] \in Lobby /\ lobbies[id] # None
        /\ Sound(lobbies[id]) /\ SideOf(lobbies[id], u) \in Sides
BY StoreCases, SideOfType DEF Base, AllLobbies, Present

LEMMA ApplyRequestEffect ==
  ASSUME Base, NEW r \in requests, ApplyRequest(r)
  PROVE lobbies[r.id] \in Lobby /\ Change(lobbies[r.id], Continuation(r))
<1> DEFINE l == lobbies[r.id]
<1>1. r \in Requests /\ l \in Lobby /\ l # None
  BY NoLobbyAssumption DEF Base, TypeOK, Requests, ApplyRequest, StateMatches
<1>2. r.metadata \in Contents /\ r.levelId \in Levels /\ r.kind \in {"level", "start"}
  BY <1>1 DEF ApplyRequest, Requests
<1>3. /\ l.phase = r.phase /\ l.guest = r.guest /\ r.phase \in {"waiting", "ready"}
      /\ r.kind = "start" => l.levelId = r.levelId /\ r.phase = "ready" /\ r.guest # None
  BY DEF ApplyRequest, StateMatches, Base, RequestsAllowed
<1>4. CASE r.kind = "level"
  BY <1>1, <1>2, <1>3, <1>4 DEF Continuation, Change, Pregame
<1>5. CASE r.kind = "start" /\ r.metadata \in TimedContents
  BY <1>1, <1>3, <1>5 DEF Continuation, Change, Pregame
<1>6. CASE r.kind = "start" /\ r.metadata \notin TimedContents
  <2>1. l.levelId # None
    BY <1>2, <1>3, <1>6, NoneAssumption
  <2> QED BY <1>1, <1>2, <1>3, <1>6, <2>1 DEF Continuation, Change, Pinned
<1> QED BY <1>1, <1>2, <1>4, <1>5, <1>6

\* Only Create and Join seat anybody.
LEMMA QuietSteps ==
  ASSUME Base, [Next]_vars
  PROVE \/ \A id \in Ids : Quiet(id)
        \/ \E u \in Users : Create(u)
        \/ \E u \in Users, id \in Ids : Join(u, id)
<1> USE DEF Base
<1>1. CASE Lookup
  BY <1>1, AllPurged DEF Lookup
<1>2. CASE Restart
  <2>1. \A id \in Ids : lobbies'[id] = None
    BY <1>2 DEF Restart
  <2> QED BY <1>2, <2>1 DEF Quiet
<1>5. ASSUME NEW u \in Users, NEW id \in Ids, StartRequest(u, id) PROVE \A j \in Ids : Quiet(j)
  BY <1>5, AllPurged DEF StartRequest, Await
<1>6. ASSUME NEW u \in Users, NEW id \in Ids, Resign(u, id) PROVE \A j \in Ids : Quiet(j)
  <2> DEFINE l == lobbies[id]
             s == SideOf(l, u)
  <2>1. /\ Present(id) /\ l.phase = "started" /\ s \in Sides
        /\ lobbies' = [Store EXCEPT ![id] = Publish(l, Resignation(s))]
    BY <1>6, SeatedLobby DEF Resign, Put
  <2>2. Change(l, Publish(l, Resignation(s)))
    BY <2>1 DEF Change, Conceded, IsStartedLifecycle
  <2> QED BY <2>1, <2>2, PutStep
<1>7. ASSUME NEW u \in Users, NEW id \in Ids, Leave(u, id) PROVE \A j \in Ids : Quiet(j)
  <2> DEFINE l == lobbies[id]
             s == SideOf(l, u)
  <2>1. Present(id) /\ s \in Sides /\ LeaveSeat(id, Concede(l, s), s)
    BY <1>7, SeatedLobby DEF Leave
  <2> QED BY <2>1, LeaveSeatStep DEF EndedBy
<1>8. ASSUME NEW u \in Users, NEW id \in Ids, Subscribe(u, id) PROVE \A j \in Ids : Quiet(j)
  BY <1>8, AllPurged DEF Subscribe
<1>9. ASSUME NEW u \in Users, NEW id \in Ids, Disconnect(u, id) PROVE \A j \in Ids : Quiet(j)
  BY <1>9 DEF Disconnect, Quiet
<1>10. ASSUME NEW u \in Users, NEW id \in Ids, NEW lv \in Levels, LevelRequest(u, id, lv)
       PROVE \A j \in Ids : Quiet(j)
  BY <1>10, AllPurged DEF LevelRequest, Await
<1>11. ASSUME NEW u \in Users, NEW id \in Ids, NEW n \in 0..MaxMoves, NEW intent \in Intents,
              NEW g \in Gestures, PostMove(u, id, n, intent, g)
       PROVE \A j \in Ids : Quiet(j)
  <2> DEFINE l == lobbies[id]
             s == SideOf(l, u)
  <2>1. /\ Present(id) /\ s \in Sides /\ ~KnownIntent(l, intent) /\ MayRelay(l, s, n)
        /\ lobbies' = [Store EXCEPT ![id] = Relay(l, s, intent, g)]
    BY <1>11, SeatedLobby DEF PostMove, Put
  <2>2. n \in Nat
    BY BoundsAssumption
  <2>3. Change(l, Relay(l, s, intent, g))
    BY <2>1, <2>2 DEF Change, Relayed
  <2> QED BY <2>1, <2>3, PutStep
<1>12. ASSUME NEW u \in Users, NEW id \in Ids, NEW n \in 0..MaxMoves, NEW rep \in ReportsFor(n),
              ReportResult(u, id, rep)
       PROVE \A j \in Ids : Quiet(j)
  <2> DEFINE l == lobbies[id]
             s == SideOf(l, u)
  <2>1. /\ Present(id) /\ s \in Sides /\ IsStartedLifecycle(l) /\ ExactPrefix(l, rep)
        /\ lobbies' = [Store EXCEPT ![id] = RecordReport(l, s, rep)]
    BY <1>12, SeatedLobby DEF ReportResult, Put
  <2>2. rep \in Reports
    BY BoundsAssumption DEF ReportsFor, Reports
  <2>3. Change(l, RecordReport(l, s, rep))
    BY <2>1, <2>2 DEF Change, Reported
  <2> QED BY <2>1, <2>3, PutStep
<1>13. ASSUME NEW u \in Users, NEW id \in Ids, NEW n \in 0..MaxMoves, NEW rep \in ReportsFor(n),
              LeaveFinished(u, id, rep)
       PROVE \A j \in Ids : Quiet(j)
  <2> DEFINE l == lobbies[id]
             s == SideOf(l, u)
  <2>1. /\ Present(id) /\ s \in Sides /\ IsStartedLifecycle(l) /\ ExactPrefix(l, rep)
        /\ IF ReportAccepted(l, s, rep) THEN LeaveSeat(id, RecordReport(l, s, rep), s)
           ELSE lobbies' = [Store EXCEPT ![id] = RecordReport(l, s, rep)]
    BY <1>13, SeatedLobby DEF LeaveFinished, Put
  <2>2. rep \in Reports
    BY BoundsAssumption DEF ReportsFor, Reports
  <2>3. CASE ReportAccepted(l, s, rep)
    <3>1. EndedBy(l, s, RecordReport(l, s, rep))
      BY <2>1, <2>2, <2>3 DEF EndedBy
    <3> QED BY <2>1, <2>3, <3>1, LeaveSeatStep
  <2>4. CASE ~ReportAccepted(l, s, rep)
    <3>1. Change(l, RecordReport(l, s, rep))
      BY <2>1, <2>2 DEF Change, Reported
    <3> QED BY <2>1, <2>4, <3>1, PutStep
  <2> QED BY <2>3, <2>4
<1>14. ASSUME NEW r \in requests, ReadDocument(r) PROVE \A j \in Ids : Quiet(j)
  BY <1>14 DEF ReadDocument, Quiet
<1>15. ASSUME NEW r \in requests, ApplyRequest(r) PROVE \A j \in Ids : Quiet(j)
  <2>1. lobbies[r.id] \in Lobby /\ Change(lobbies[r.id], Continuation(r)) /\ r.id \in Ids
    BY <1>15, ApplyRequestEffect DEF TypeOK, Requests
  <2>2. lobbies' = [lobbies EXCEPT ![r.id] = Continuation(r)]
    BY <1>15 DEF ApplyRequest
  <2> SUFFICES ASSUME NEW j \in Ids PROVE Quiet(j)
    OBVIOUS
  <2>3. CASE j = r.id
    <3>1. lobbies[j] # None /\ lobbies'[j] = Continuation(r)
      BY <2>1, <2>2, <2>3, NoLobbyAssumption DEF TypeOK
    <3> QED BY <2>1, <2>3, <3>1 DEF Quiet
  <2>4. CASE j # r.id
    BY <2>2, <2>4 DEF Quiet, TypeOK
  <2> QED BY <2>3, <2>4
<1>16. ASSUME NEW r \in requests, RefuseRequest(r) PROVE \A j \in Ids : Quiet(j)
  BY <1>16 DEF RefuseRequest, Quiet
<1>17. ASSUME NEW id \in Ids, Expire(id) PROVE \A j \in Ids : Quiet(j)
  <2> SUFFICES ASSUME NEW j \in Ids PROVE Quiet(j)
    OBVIOUS
  <2>1. CASE j = id
    <3>1. lobbies[j] # None /\ lobbies'[j] = [lobbies[j] EXCEPT !.expired = TRUE]
      BY <1>17, <2>1 DEF Expire, TypeOK
    <3>2. Expired(lobbies[j], lobbies'[j])
      BY <1>17, <2>1, <3>1 DEF Expire, Expired
    <3> QED BY <3>1, <3>2 DEF Quiet, Change
  <2>2. CASE j # id
    BY <1>17, <2>2 DEF Expire, Quiet, TypeOK
  <2> QED BY <2>1, <2>2
<1>18. ASSUME NEW lv \in Levels, NEW c \in Contents \cup {None}, Republish(lv, c)
       PROVE \A j \in Ids : Quiet(j)
  BY <1>18 DEF Republish, Quiet
<1>19. CASE UNCHANGED vars
  BY <1>19 DEF vars, Quiet
<1> QED
  BY <1>1, <1>2, <1>5, <1>6, <1>7, <1>8, <1>9, <1>10, <1>11, <1>12, <1>13, <1>14,
     <1>15, <1>16, <1>17, <1>18, <1>19 DEF Next

\* Every step of the server is, for every id, nothing, a removal, a creation or
\* an effect on its lobby.
LEMMA Step == ASSUME Base, [Next]_vars PROVE \A id \in Ids : MapStep(id)
<1> USE DEF Base
<1>1. CASE \A id \in Ids : Quiet(id)
  BY <1>1 DEF MapStep
<1>2. ASSUME NEW u \in Users, Create(u), NEW id \in Ids PROVE MapStep(id)
  <2>1. PICK new \in Ids \ minted : Put(new, NewLobby(u))
    BY <1>2 DEF Create
  <2>2. CASE id = new
    <3>1. lobbies[id] = None
      BY <2>2 DEF MintedOnly
    <3>2. lobbies'[id] = NewLobby(u)
      BY <2>1, <2>2 DEF Put, Store
    <3> QED BY <2>2, <3>1, <3>2 DEF MapStep
  <2>3. CASE id # new
    <3>1. lobbies'[id] = Store[id]
      BY <2>1, <2>3 DEF Put, Store
    <3> QED BY <3>1, PurgeStep DEF MapStep
  <2> QED BY <2>2, <2>3
<1>3. ASSUME NEW u \in Users, NEW w \in Ids, Join(u, w), NEW id \in Ids PROVE MapStep(id)
  <2>1. /\ Present(w) /\ CanJoin(lobbies[w], u) /\ lobbies[w] # None
        /\ lobbies' = [Store EXCEPT ![w] = SeatGuest(lobbies[w], u)]
    BY <1>3, SeatedLobby DEF Join, Put
  <2>2. CASE id = w
    <3>1. lobbies'[id] = SeatGuest(lobbies[w], u)
      BY <2>1, <2>2 DEF Store
    <3> QED BY <2>1, <2>2, <3>1 DEF MapStep, Joined
  <2>3. CASE id # w
    <3>1. lobbies'[id] = Store[id]
      BY <2>1, <2>3 DEF Store
    <3> QED BY <3>1, PurgeStep DEF MapStep
  <2> QED BY <2>2, <2>3
<1> QED BY <1>1, <1>2, <1>3, QuietSteps

----------------------------------------------------------------------------
(* What an action may do besides: streams, ids, requests and documents *)

\* A request that has just captured its lobby.
Captured(r) ==
  \E id \in Ids, u \in Users, lv \in Levels :
    /\ Present(id)
    /\ \/ CanSelectLevel(Store[id], u) /\ r = Capture("level", id, lv)
       \/ CanStart(Store[id], u) /\ lv = Store[id].levelId /\ r = Capture("start", id, lv)

RequestsStep ==
  \/ requests' \subseteq requests
  \/ \E r : Captured(r) /\ requests' = requests \cup {r} /\ lobbies' = Store
  \/ \E r \in requests, c \in Contents \cup {None} :
       requests' = (requests \ {r}) \cup {[r EXCEPT !.metadata = c]} /\ lobbies' = lobbies

Frame ==
  /\ lobbies' = [id \in Ids |-> lobbies'[id]]
  /\ streams' \in [Ids -> SUBSET Users]
  /\ minted \subseteq minted' /\ minted' \subseteq Ids
  /\ \A id \in Ids : lobbies[id] = None /\ lobbies'[id] # None => id \in minted'
  /\ official' \in [Levels -> Contents \cup {None}]
  /\ RequestsStep

\* Only ids that had a lobby, or get one from the action, appear after a write.
LEMMA PutFrame ==
  ASSUME TypeOK, NEW id \in Ids, NEW m, Put(id, m)
  PROVE /\ lobbies' = [j \in Ids |-> lobbies'[j]]
        /\ streams' \in [Ids -> SUBSET Users]
        /\ \A j \in Ids : lobbies[j] = None /\ lobbies'[j] # None => j = id
BY DEF Put, Store, LiveStreams, TypeOK

LEMMA LookupFrame ==
  ASSUME TypeOK, lobbies' = Store
  PROVE /\ lobbies' = [j \in Ids |-> lobbies'[j]]
        /\ \A j \in Ids : lobbies[j] = None => lobbies'[j] = None
BY DEF Store, TypeOK

LEMMA LiveStreamsType == ASSUME TypeOK PROVE LiveStreams \in [Ids -> SUBSET Users]
BY DEF LiveStreams, TypeOK

\* A write to a lobby that is present mints no id.
LEMMA WriteFrame ==
  ASSUME Base, NEW id \in Ids, NEW m, Present(id), Put(id, m),
         UNCHANGED <<minted, requests, official>>
  PROVE Frame
<1>1. lobbies[id] # None
  BY SeatedLobby
<1> QED BY <1>1, PutFrame DEF Frame, RequestsStep, Base, TypeOK

LEMMA LeaveSeatFrame ==
  ASSUME Base, NEW id \in Ids, NEW k, NEW s, Present(id), LeaveSeat(id, k, s),
         UNCHANGED <<minted, requests, official>>
  PROVE Frame
<1>1. CASE ReopensSeat(k, s)
  BY <1>1, WriteFrame DEF LeaveSeat
<1>2. CASE ~ReopensSeat(k, s)
  <2>1. \E m : lobbies' = [Store EXCEPT ![id] = m]
    BY <1>2 DEF LeaveSeat
  <2>2. /\ lobbies' = [j \in Ids |-> lobbies'[j]]
        /\ \A j \in Ids : lobbies[j] = None /\ lobbies'[j] # None => j = id
    BY <2>1 DEF Store
  <2>3. lobbies[id] # None
    BY SeatedLobby
  <2>4. streams' \in [Ids -> SUBSET Users]
    <3>1. SeatStreams(id, Depart(k, s)) \subseteq LiveStreams[id]
      BY DEF SeatStreams
    <3> HIDE DEF SeatStreams
    <3> QED BY <1>2, <3>1, LiveStreamsType DEF LeaveSeat, Base
  <2> QED BY <2>2, <2>3, <2>4 DEF Frame, RequestsStep, Base, TypeOK
<1> QED BY <1>1, <1>2

LEMMA FrameStep == ASSUME Base, [Next]_vars PROVE Frame
<1> USE DEF Base
<1>1. CASE Lookup
  BY <1>1, LookupFrame, LiveStreamsType DEF Lookup, Frame, RequestsStep, TypeOK
<1>2. CASE Restart
  BY <1>2 DEF Restart, Frame, RequestsStep, TypeOK
<1>3. ASSUME NEW u \in Users, Create(u) PROVE Frame
  BY <1>3, PutFrame DEF Create, Frame, RequestsStep, TypeOK
<1>4. ASSUME NEW u \in Users, NEW id \in Ids, Join(u, id) PROVE Frame
  BY <1>4, WriteFrame DEF Join
<1>5. ASSUME NEW u \in Users, NEW id \in Ids, StartRequest(u, id) PROVE Frame
  <2> DEFINE r == Capture("start", id, Store[id].levelId)
  <2>1. Store[id].levelId \in Levels
    BY <1>5, SeatedLobby DEF StartRequest, CanStart, Lobby
  <2>2. Captured(r)
    BY <1>5, <2>1 DEF StartRequest, Captured
  <2>3. requests' = requests \cup {r} /\ lobbies' = Store /\ streams' = LiveStreams
        /\ UNCHANGED <<minted, official>>
    BY <1>5 DEF StartRequest, Await
  <2> HIDE DEF r
  <2>4. RequestsStep
    BY <2>2, <2>3 DEF RequestsStep
  <2> QED BY <2>3, <2>4, LookupFrame, LiveStreamsType DEF Frame, TypeOK
<1>6. ASSUME NEW u \in Users, NEW id \in Ids, Resign(u, id) PROVE Frame
  BY <1>6, WriteFrame DEF Resign
<1>7. ASSUME NEW u \in Users, NEW id \in Ids, Leave(u, id) PROVE Frame
  BY <1>7, LeaveSeatFrame DEF Leave
<1>8. ASSUME NEW u \in Users, NEW id \in Ids, Subscribe(u, id) PROVE Frame
  <2>1. [LiveStreams EXCEPT ![id] = @ \cup {u}] \in [Ids -> SUBSET Users]
    BY LiveStreamsType
  <2> QED BY <1>8, <2>1, LookupFrame DEF Subscribe, Frame, RequestsStep, TypeOK
<1>9. ASSUME NEW u \in Users, NEW id \in Ids, Disconnect(u, id) PROVE Frame
  BY <1>9 DEF Disconnect, Frame, RequestsStep, TypeOK
<1>10. ASSUME NEW u \in Users, NEW id \in Ids, NEW lv \in Levels, LevelRequest(u, id, lv)
       PROVE Frame
  <2> DEFINE r == Capture("level", id, lv)
  <2>1. Captured(r)
    BY <1>10 DEF LevelRequest, Captured
  <2>2. requests' = requests \cup {r} /\ lobbies' = Store /\ streams' = LiveStreams
        /\ UNCHANGED <<minted, official>>
    BY <1>10 DEF LevelRequest, Await
  <2> HIDE DEF r
  <2>3. RequestsStep
    BY <2>1, <2>2 DEF RequestsStep
  <2> QED BY <2>2, <2>3, LookupFrame, LiveStreamsType DEF Frame, TypeOK
<1>11. ASSUME NEW u \in Users, NEW id \in Ids, NEW n \in 0..MaxMoves, NEW intent \in Intents,
              NEW g \in Gestures, PostMove(u, id, n, intent, g)
       PROVE Frame
  BY <1>11, WriteFrame DEF PostMove
<1>12. ASSUME NEW u \in Users, NEW id \in Ids, NEW n \in 0..MaxMoves, NEW rep \in ReportsFor(n),
              ReportResult(u, id, rep)
       PROVE Frame
  BY <1>12, WriteFrame DEF ReportResult
<1>13. ASSUME NEW u \in Users, NEW id \in Ids, NEW n \in 0..MaxMoves, NEW rep \in ReportsFor(n),
              LeaveFinished(u, id, rep)
       PROVE Frame
  BY <1>13, WriteFrame, LeaveSeatFrame DEF LeaveFinished
<1>14. ASSUME NEW r \in requests, ReadDocument(r) PROVE Frame
  <2>1. PICK c \in {official[r.levelId], None} :
          requests' = (requests \ {r}) \cup {[r EXCEPT !.metadata = c]}
    BY <1>14 DEF ReadDocument
  <2>2. c \in Contents \cup {None}
    BY DEF TypeOK, Requests
  <2>3. RequestsStep
    BY <1>14, <2>1, <2>2 DEF ReadDocument, RequestsStep
  <2> QED BY <1>14, <2>3 DEF ReadDocument, Frame, TypeOK
<1>15. ASSUME NEW r \in requests, ApplyRequest(r) PROVE Frame
  <2>1. lobbies' = [lobbies EXCEPT ![r.id] = Continuation(r)] /\ lobbies[r.id] # None
    BY <1>15 DEF ApplyRequest, StateMatches
  <2> QED BY <1>15, <2>1 DEF ApplyRequest, Frame, RequestsStep, TypeOK
<1>16. ASSUME NEW r \in requests, RefuseRequest(r) PROVE Frame
  BY <1>16 DEF RefuseRequest, Frame, RequestsStep, TypeOK
<1>17. ASSUME NEW id \in Ids, Expire(id) PROVE Frame
  <2>1. \A j \in Ids : lobbies[j] = None => lobbies'[j] = None
    BY <1>17 DEF Expire, TypeOK
  <2> QED BY <1>17, <2>1 DEF Expire, Frame, RequestsStep, TypeOK
<1>18. ASSUME NEW lv \in Levels, NEW c \in Contents \cup {None}, Republish(lv, c) PROVE Frame
  BY <1>18 DEF Republish, Frame, RequestsStep, TypeOK
<1>19. CASE UNCHANGED vars
  BY <1>19 DEF vars, Frame, RequestsStep, TypeOK
<1> QED
  BY <1>1, <1>2, <1>3, <1>4, <1>5, <1>6, <1>7, <1>8, <1>9, <1>10, <1>11, <1>12, <1>13, <1>14,
     <1>15, <1>16, <1>17, <1>18, <1>19 DEF Next

----------------------------------------------------------------------------
(* The inductive invariant *)

\* What a captured or updated request is.
LEMMA CapturedRequest ==
  ASSUME Base, NEW r, Captured(r)
  PROVE /\ r \in Requests /\ r.phase \in {"waiting", "ready"}
        /\ r.kind = "start" => r.phase = "ready" /\ r.guest # None
        /\ lobbies[r.id] # None /\ Store[r.id] = lobbies[r.id]
        /\ r.revision = lobbies[r.id].stateRevision
        /\ r.phase = lobbies[r.id].phase /\ r.host = lobbies[r.id].host
        /\ r.guest = lobbies[r.id].guest
        /\ r.kind = "start" => r.levelId = lobbies[r.id].levelId
<1>1. PICK id \in Ids, u \in Users, lv \in Levels :
        /\ Present(id)
        /\ \/ CanSelectLevel(Store[id], u) /\ r = Capture("level", id, lv)
           \/ CanStart(Store[id], u) /\ lv = Store[id].levelId /\ r = Capture("start", id, lv)
  BY DEF Captured
<1>2. Store[id] = lobbies[id] /\ lobbies[id] \in Lobby /\ lobbies[id] # None
  BY <1>1, SeatedLobby
<1>3. CASE CanSelectLevel(Store[id], u) /\ r = Capture("level", id, lv)
  BY <1>2, <1>3 DEF Capture, CanSelectLevel, Requests, Lobby
<1>4. CASE CanStart(Store[id], u) /\ lv = Store[id].levelId /\ r = Capture("start", id, lv)
  BY <1>2, <1>4 DEF Capture, CanStart, Requests, Lobby
<1> QED BY <1>1, <1>3, <1>4

LEMMA InitBase == Init => Base
BY DEF Init, Base, TypeOK, AllLobbies, RequestsAllowed, MintedOnly

LEMMA BaseStep == Base /\ [Next]_vars => Base'
<1> SUFFICES ASSUME Base, [Next]_vars PROVE Base'
  OBVIOUS
<1>1. (\A id \in Ids : MapStep(id)) /\ Frame
  BY Step, FrameStep
<1>2. ASSUME NEW id \in Ids, lobbies'[id] # None PROVE lobbies'[id] \in Lobby /\ Sound(lobbies'[id])
  <2>1. CASE lobbies'[id] = lobbies[id]
    BY <1>2, <2>1 DEF Base, TypeOK, AllLobbies
  <2>2. CASE \E u \in Users : lobbies'[id] = NewLobby(u)
    BY <2>2, NewLobbyType, NewLobbySound
  <2>3. CASE lobbies[id] # None /\ Effect(lobbies[id], lobbies'[id])
    <3>1. lobbies[id] \in Lobby /\ Sound(lobbies[id])
      BY <2>3 DEF Base, TypeOK, AllLobbies
    <3> QED BY <2>3, <3>1, EffectType, EffectSound
  <2> QED BY <1>1, <1>2, <2>1, <2>2, <2>3 DEF MapStep, Quiet, Effect
<1>3. requests' \subseteq Requests /\ RequestsAllowed' /\ \A r \in requests' : r.id \in minted'
  <2>1. minted \subseteq minted'
    BY <1>1 DEF Frame
  <2>2. CASE requests' \subseteq requests
    BY <2>1, <2>2 DEF Base, TypeOK, RequestsAllowed, MintedOnly
  <2>3. ASSUME NEW r, Captured(r), requests' = requests \cup {r}
        PROVE requests' \subseteq Requests /\ RequestsAllowed' /\ \A q \in requests' : q.id \in minted'
    <3>1. /\ r \in Requests /\ r.phase \in {"waiting", "ready"} /\ r.id \in minted
          /\ r.kind = "start" => r.phase = "ready" /\ r.guest # None
      BY <2>3, CapturedRequest DEF Base, MintedOnly, Requests
    <3> QED BY <2>1, <2>3, <3>1 DEF Base, TypeOK, RequestsAllowed, MintedOnly
  <2>4. ASSUME NEW r \in requests, NEW c \in Contents \cup {None},
               requests' = (requests \ {r}) \cup {[r EXCEPT !.metadata = c]}
        PROVE requests' \subseteq Requests /\ RequestsAllowed' /\ \A q \in requests' : q.id \in minted'
    <3> DEFINE n == [r EXCEPT !.metadata = c]
    <3>1. r \in Requests
      BY DEF Base, TypeOK
    <3>2. n \in Requests /\ n.phase = r.phase /\ n.kind = r.kind /\ n.guest = r.guest /\ n.id = r.id
      BY <3>1 DEF Requests
    <3> HIDE DEF n
    <3> QED BY <2>1, <2>4, <3>2 DEF Base, TypeOK, RequestsAllowed, MintedOnly, n
  <2> QED BY <1>1, <2>2, <2>3, <2>4 DEF Frame, RequestsStep
<1>4. TypeOK'
  <2>1. lobbies' \in [Ids -> Lobby \cup {None}]
    BY <1>1, <1>2 DEF Frame
  <2> QED BY <1>1, <1>3, <2>1 DEF Frame, TypeOK
<1>5. AllLobbies(Sound)'
  BY <1>2 DEF AllLobbies
<1>6. MintedOnly'
  BY <1>1, <1>3 DEF Frame, Base, MintedOnly
<1> QED BY <1>3, <1>4, <1>5, <1>6 DEF Base

LEMMA BaseAlways == Spec => []Base
BY InitBase, BaseStep, PTL DEF Spec

\* Every state is well typed.
THEOREM TypeCorrect == Spec => []TypeOK
<1>1. Base => TypeOK
  BY DEF Base
<1> QED BY <1>1, BaseAlways, PTL

\* Whatever the interleaving of handlers, a match has two different seats and a
\* pinned untimed level, and nothing of a match exists outside of one.
THEOREM MatchesPinned == Spec => []PinnedMatch
<1>1. Base => PinnedMatch
  BY DEF Base, PinnedMatch, AllLobbies, Sound
<1> QED BY <1>1, BaseAlways, PTL

\* The relay log of every match is ordered, alternating and free of duplicates.
THEOREM LogsOrdered == Spec => []LogWellFormed
<1>1. Base => LogWellFormed
  BY DEF Base, LogWellFormed, AllLobbies, Sound
<1> QED BY <1>1, BaseAlways, PTL

\* A deterministic result is always the agreement of two reports of the final log.
THEOREM ResultsJustified == Spec => []OutcomeJustified
<1>1. Base => OutcomeJustified
  BY DEF Base, OutcomeJustified, AllLobbies, Sound
<1> QED BY <1>1, BaseAlways, PTL

----------------------------------------------------------------------------
(* Revisions and the finality of a match *)

\* Concessions and reports leave the identity of a match alone and write each
\* report and the result once.
LEMMA EndedByFinal ==
  ASSUME NEW l \in Lobby, Sound(l), NEW s \in Sides, NEW k, EndedBy(l, s, k), IsStartedLifecycle(l)
  PROVE FinalMatch(l, k) /\ k.stateRevision \in Nat /\ (k = l \/ k.stateRevision = l.stateRevision + 1)
<1>0. l.moves \in Seq(Moves) /\ l.stateRevision \in Nat /\ SubSeq(l.moves, 1, Len(l.moves)) = l.moves
  BY DEF Lobby
<1>1. FinalMatch(l, l)
  BY <1>0 DEF FinalMatch
<1>2. CASE k = Concede(l, s)
  <2>1. CASE k = l
    BY <1>0, <1>1, <2>1
  <2>2. CASE l.result = None /\ k = Touch([l EXCEPT !.result = Resignation(s), !.resultDisputed = FALSE])
    <3>1. /\ k.phase = l.phase /\ k.host = l.host /\ k.guest = l.guest /\ k.levelId = l.levelId
          /\ k.levelSnapshot = l.levelSnapshot /\ k.moves = l.moves
          /\ k.resultReports = l.resultReports /\ k.closedFromPhase = l.closedFromPhase
          /\ k.stateRevision = l.stateRevision + 1
      BY <2>2 DEF Touch, Lobby
    <3> QED BY <1>0, <2>2, <3>1 DEF FinalMatch, IsStartedLifecycle
  <2> QED BY <1>2, <2>1, <2>2 DEF Concede, Publish
<1>3. ASSUME NEW rep \in Reports, k = RecordReport(l, s, rep)
      PROVE FinalMatch(l, k) /\ k.stateRevision \in Nat /\ (k = l \/ k.stateRevision = l.stateRevision + 1)
  <2>1. CASE k = l
    BY <1>0, <1>1, <2>1
  <2>2. CASE k # l
    <3>1. NewReport(l, s, rep, k)
      BY <1>3, <2>2, RecordReportFields
    <3>2. /\ k.phase = l.phase /\ k.host = l.host /\ k.guest = l.guest /\ k.levelId = l.levelId
          /\ k.levelSnapshot = l.levelSnapshot /\ k.moves = l.moves
          /\ k.closedFromPhase = l.closedFromPhase
          /\ k.stateRevision = l.stateRevision + 1
          /\ l.result = None /\ l.resultReports[s] = None
          /\ k.resultReports[Other(s)] = l.resultReports[Other(s)]
      BY <3>1 DEF NewReport
    <3>3. \A t \in Sides : t = s \/ t = Other(s)
      BY DEF Sides, Other
    <3>4. \A t \in Sides : l.resultReports[t] # None => k.resultReports[t] = l.resultReports[t]
      BY <3>2, <3>3
    <3> QED BY <1>0, <3>2, <3>4 DEF FinalMatch, IsStartedLifecycle
  <2> QED BY <2>1, <2>2
<1> QED BY <1>2, <1>3 DEF EndedBy

\* Every effect a client can see raises the revision; no other step changes it.
LEMMA EffectRevised ==
  ASSUME NEW l \in Lobby, Sound(l), NEW m, Effect(l, m)
  PROVE m.stateRevision > l.stateRevision \/ m = l \/ m = [l EXCEPT !.expired = TRUE]
<1>1. CASE Joined(l, m)
  BY <1>1 DEF Joined, SeatGuest, Touch, Lobby
<1>2. CASE Pregame(l, m)
  <2>1. \A lv \in Levels, c \in Contents : SelectLevel(l, lv, c).stateRevision = l.stateRevision + 1
    BY DEF SelectLevel, Touch, Lobby
  <2>2. /\ RejectTimed(l).stateRevision = l.stateRevision + 1
        /\ ReopenSeat(l).stateRevision = l.stateRevision + 1
    BY DEF RejectTimed, ReopenSeat, Touch, Lobby
  <2> QED BY <1>2, <2>1, <2>2 DEF Pregame, Lobby
<1>3. CASE Pinned(l, m)
  <2>1. PICK c \in Contents : m = PinMatch(l, c)
    BY <1>3 DEF Pinned
  <2>2. FreshMatch(l) \in Lobby /\ FreshMatch(l).stateRevision = l.stateRevision
    BY FreshMatchType DEF FreshMatch, Lobby
  <2> HIDE DEF FreshMatch
  <2> QED BY <2>1, <2>2 DEF PinMatch, Touch, Lobby
<1>4. CASE Relayed(l, m)
  BY <1>4 DEF Relayed, Relay, Touch, Lobby
<1>5. CASE Conceded(l, m)
  BY <1>5 DEF Conceded, Publish, Touch, Lobby
<1>6. CASE Reported(l, m)
  <2>1. PICK s \in Sides, rep \in Reports : m = RecordReport(l, s, rep)
    BY <1>6 DEF Reported
  <2>2. CASE m # l
    <3>1. NewReport(l, s, rep, m)
      BY <2>1, <2>2, RecordReportFields
    <3> QED BY <3>1 DEF NewReport, Lobby
  <2> QED BY <2>2
<1>7. CASE Departure(l, m)
  <2>1. PICK s \in Sides, k \in Lobby : EndedBy(l, s, k) /\ m = Depart(k, s)
    BY <1>7 DEF Departure, EndedBy
  <2>2. m.stateRevision = k.stateRevision + 1
    BY <2>1, DepartFields
  <2>3. k = l \/ k.stateRevision = l.stateRevision + 1
    BY <2>1, EndedByFinal, EndedByKeeps
  <2> QED BY <2>2, <2>3 DEF Lobby
<1>8. CASE Expired(l, m)
  BY <1>8 DEF Expired
<1> QED BY <1>1, <1>2, <1>3, <1>4, <1>5, <1>6, <1>7, <1>8 DEF Effect, Change

\* FinalMatch depends on the identity, log, reports and result of the later lobby.
LEMMA FinalMatchFields ==
  ASSUME NEW l, NEW k, NEW m, FinalMatch(l, k), IsStartedLifecycle(m),
         m.host = k.host, m.guest = k.guest, m.levelId = k.levelId,
         m.levelSnapshot = k.levelSnapshot, m.moves = k.moves, m.result = k.result,
         m.resultReports = k.resultReports
  PROVE FinalMatch(l, m)
BY DEF FinalMatch

\* No effect rewrites a started match.
LEMMA EffectFinal ==
  ASSUME NEW l \in Lobby, Sound(l), NEW m, Effect(l, m), IsStartedLifecycle(l)
  PROVE FinalMatch(l, m)
<1>0. l.moves \in Seq(Moves) /\ SubSeq(l.moves, 1, Len(l.moves)) = l.moves
  BY DEF Lobby
<1>1. FinalMatch(l, l)
  BY <1>0 DEF FinalMatch
<1>2. l.phase \in {"started", "closed"}
  BY DEF IsStartedLifecycle
<1>3. CASE Relayed(l, m)
  <2>1. PICK s \in Sides, intent \in Intents, g \in Gestures, n \in Nat :
          MayRelay(l, s, n) /\ m = Relay(l, s, intent, g)
    BY <1>3 DEF Relayed
  <2> DEFINE e == [i |-> Len(l.moves), side |-> s, intentId |-> intent, gesture |-> g]
  <2>2. /\ m.phase = l.phase /\ m.host = l.host /\ m.guest = l.guest /\ m.levelId = l.levelId
        /\ m.levelSnapshot = l.levelSnapshot /\ m.moves = Append(l.moves, e)
        /\ m.result = l.result /\ m.resultReports = l.resultReports
    BY <2>1 DEF Relay, Touch, Lobby
  <2>3. Len(m.moves) >= Len(l.moves) /\ SubSeq(m.moves, 1, Len(l.moves)) = l.moves
    <3> HIDE DEF e
    <3> QED BY <1>0, <2>2
  <2>4. l.phase = "started" /\ l.result = None /\ ~AnyReport(l)
    BY <2>1 DEF MayRelay
  <2> QED BY <2>2, <2>3, <2>4 DEF FinalMatch, IsStartedLifecycle
<1>4. CASE Conceded(l, m)
  <2>1. PICK s \in Sides : m = Publish(l, Resignation(s))
    BY <1>4 DEF Conceded
  <2>2. l.guest # None
    BY NoneAssumption DEF Sound, PinnedLobby
  <2>3. EndedBy(l, s, m)
    BY <2>1, <2>2 DEF EndedBy, Concede
  <2> QED BY <2>3, EndedByFinal
<1>5. CASE Reported(l, m)
  <2>1. PICK s \in Sides, rep \in Reports : m = RecordReport(l, s, rep)
    BY <1>5 DEF Reported
  <2>2. CASE m # l
    <3>1. NewReport(l, s, rep, m)
      BY <2>1, <2>2, RecordReportFields
    <3>3. /\ m.phase = l.phase /\ m.host = l.host /\ m.guest = l.guest /\ m.levelId = l.levelId
          /\ m.levelSnapshot = l.levelSnapshot /\ m.moves = l.moves
          /\ m.closedFromPhase = l.closedFromPhase
          /\ l.result = None /\ l.resultReports[s] = None
          /\ m.resultReports[Other(s)] = l.resultReports[Other(s)]
      BY <3>1 DEF NewReport
    <3>4. \A t \in Sides : l.resultReports[t] # None => m.resultReports[t] = l.resultReports[t]
      <4>1. \A t \in Sides : t = s \/ t = Other(s)
        BY DEF Sides, Other
      <4> QED BY <3>3, <4>1
    <3> QED BY <1>0, <3>3, <3>4 DEF FinalMatch, IsStartedLifecycle
  <2> QED BY <1>1, <2>2
<1>6. CASE Departure(l, m)
  <2>1. PICK s \in Sides, k \in Lobby : EndedBy(l, s, k) /\ m = Depart(k, s)
    BY <1>6 DEF Departure, EndedBy
  <2>2. FinalMatch(l, k) /\ IsStartedLifecycle(k)
    BY <2>1, EndedByFinal DEF FinalMatch
  <2>3. /\ m.host = k.host /\ m.guest = k.guest /\ m.levelId = k.levelId
        /\ m.levelSnapshot = k.levelSnapshot /\ m.moves = k.moves /\ m.result = k.result
        /\ m.resultReports = k.resultReports /\ m.phase = "closed"
        /\ m.closedFromPhase = IF k.phase = "closed" THEN k.closedFromPhase ELSE k.phase
    BY <2>1, DepartFields
  <2>4. IsStartedLifecycle(m)
    BY <2>2, <2>3 DEF IsStartedLifecycle
  <2> QED BY <2>2, <2>3, <2>4, FinalMatchFields
<1>7. CASE Expired(l, m)
  <2>1. /\ m.host = l.host /\ m.guest = l.guest /\ m.levelId = l.levelId
        /\ m.levelSnapshot = l.levelSnapshot /\ m.moves = l.moves /\ m.result = l.result
        /\ m.resultReports = l.resultReports /\ m.phase = l.phase
        /\ m.closedFromPhase = l.closedFromPhase
    BY <1>7 DEF Expired, Lobby
  <2>2. IsStartedLifecycle(m)
    BY <2>1 DEF IsStartedLifecycle
  <2> QED BY <1>1, <2>1, <2>2, FinalMatchFields
<1>8. ~Joined(l, m) /\ ~Pregame(l, m) /\ ~Pinned(l, m)
  BY <1>2 DEF Joined, CanJoin, Pregame, Pinned
<1> QED BY <1>3, <1>4, <1>5, <1>6, <1>7, <1>8 DEF Effect, Change

\* Once started, a match is final in everything but the growth of its open log.
THEOREM MatchesFinal == Spec => MatchIsFinal
<1>1. ASSUME Base, [Next]_vars, NEW id \in Ids, Survives(id), IsStartedLifecycle(lobbies[id])
      PROVE FinalMatch(lobbies[id], lobbies'[id])
  <2>1. MapStep(id)
    BY <1>1, Step
  <2>2. lobbies[id] \in Lobby /\ Sound(lobbies[id])
    BY <1>1 DEF Base, TypeOK, AllLobbies, Survives
  <2>3. CASE lobbies'[id] = lobbies[id]
    <3>1. SubSeq(lobbies[id].moves, 1, Len(lobbies[id].moves)) = lobbies[id].moves
      BY <2>2 DEF Lobby
    <3>2. Len(lobbies[id].moves) \in Nat
      BY <2>2 DEF Lobby
    <3> QED BY <1>1, <2>3, <3>1, <3>2 DEF FinalMatch
  <2>4. CASE Effect(lobbies[id], lobbies'[id])
    BY <1>1, <2>2, <2>4, EffectFinal
  <2> QED BY <1>1, <2>1, <2>3, <2>4 DEF MapStep, Quiet, Effect, Survives
<1>2. Base /\ [Next]_vars
      => [\A id \in Ids : Survives(id) /\ IsStartedLifecycle(lobbies[id])
                             => FinalMatch(lobbies[id], lobbies'[id])]_vars
  BY <1>1
<1> QED BY <1>2, BaseAlways, PTL DEF Spec, MatchIsFinal

\* Every visible change of a lobby raises its revision.
THEOREM ChangesRevised == Spec => EveryChangeIsRevised
<1>1. ASSUME Base, [Next]_vars, NEW id \in Ids, Survives(id),
             [lobbies'[id] EXCEPT !.expired = FALSE] # [lobbies[id] EXCEPT !.expired = FALSE]
      PROVE lobbies'[id].stateRevision > lobbies[id].stateRevision
  <2>1. MapStep(id)
    BY <1>1, Step
  <2>2. lobbies[id] \in Lobby /\ Sound(lobbies[id])
    BY <1>1 DEF Base, TypeOK, AllLobbies, Survives
  <2>3. Effect(lobbies[id], lobbies'[id])
    BY <1>1, <2>1 DEF MapStep, Quiet, Effect, Survives
  <2>4. lobbies'[id] # [lobbies[id] EXCEPT !.expired = TRUE]
    BY <1>1, <2>2 DEF Lobby
  <2> QED BY <1>1, <2>2, <2>3, <2>4, EffectRevised
<1>2. Base /\ [Next]_vars
      => [\A id \in Ids :
            Survives(id) /\ [lobbies'[id] EXCEPT !.expired = FALSE] # [lobbies[id] EXCEPT !.expired = FALSE]
              => lobbies'[id].stateRevision > lobbies[id].stateRevision]_vars
  BY <1>1
<1> QED BY <1>2, BaseAlways, PTL DEF Spec, EveryChangeIsRevised

\* A lobby disappears only expired, after a departure of one of its two seats, or
\* with the process.
THEOREM DropsAreDone == Spec => DroppedOnlyWhenDone
<1>1. ASSUME Base, [Next]_vars, NEW id \in Ids, lobbies[id] # None, lobbies'[id] = None, ~Restart
      PROVE Purgeable(lobbies[id]) \/ (lobbies[id].guest # None /\ \E s \in Sides : lobbies[id].departed[s])
  <2>1. MapStep(id)
    BY <1>1, Step
  <2>2. lobbies[id] \in Lobby
    BY <1>1 DEF Base, TypeOK
  <2>3. ~Effect(lobbies[id], lobbies'[id])
    BY <1>1, <2>2, EffectType, NoLobbyAssumption
  <2> QED BY <1>1, <2>1, <2>3 DEF MapStep, Quiet, Effect, Removable
<1>2. Base /\ [Next]_vars
      => [\A id \in Ids :
            lobbies[id] # None /\ lobbies'[id] = None /\ ~Restart =>
              \/ Purgeable(lobbies[id])
              \/ lobbies[id].guest # None /\ \E s \in Sides : lobbies[id].departed[s]]_vars
  BY <1>1
<1> QED BY <1>2, BaseAlways, PTL DEF Spec, DroppedOnlyWhenDone

\* The revision a waiting request captured identifies the lobby it captured.
LEMMA RevisionStep ==
  Base /\ RevisionIdentifiesState /\ [Next]_vars => RevisionIdentifiesState'
<1> DEFINE Same(r, l) ==
      /\ l.stateRevision >= r.revision
      /\ l.stateRevision = r.revision =>
           /\ <<l.phase, l.host, l.guest>> = <<r.phase, r.host, r.guest>>
           /\ r.kind = "start" => l.levelId = r.levelId
<1> SUFFICES ASSUME Base, RevisionIdentifiesState, [Next]_vars, NEW r \in requests',
                    lobbies'[r.id] # None
             PROVE Same(r, lobbies'[r.id])
  BY DEF RevisionIdentifiesState
<1>1. Frame /\ \A id \in Ids : MapStep(id)
  BY Step, FrameStep
<1>2. ASSUME NEW q \in requests, r.id = q.id, r.revision = q.revision, r.phase = q.phase,
             r.host = q.host, r.guest = q.guest, r.kind = q.kind, r.levelId = q.levelId
      PROVE Same(r, lobbies'[r.id])
  <2> DEFINE l == lobbies[r.id]
             m == lobbies'[r.id]
  <2>1. MapStep(r.id) /\ r.id \in Ids /\ r.id \in minted /\ q.revision \in Nat
    BY <1>1, <1>2 DEF Base, TypeOK, Requests, MintedOnly
  <2>2. l # None /\ (m = l \/ Effect(l, m))
    BY <2>1 DEF MapStep, Quiet, Effect
  <2>3. l \in Lobby /\ Sound(l) /\ Same(q, l)
    BY <1>2, <2>1, <2>2 DEF Base, TypeOK, AllLobbies, RevisionIdentifiesState
  <2>4. CASE m = l
    BY <1>2, <2>3, <2>4
  <2>5. CASE m = [l EXCEPT !.expired = TRUE]
    <3>1. /\ m.stateRevision = l.stateRevision /\ m.phase = l.phase /\ m.host = l.host
          /\ m.guest = l.guest /\ m.levelId = l.levelId
      BY <2>3, <2>5 DEF Lobby
    <3> QED BY <1>2, <2>3, <3>1
  <2>6. CASE m.stateRevision > l.stateRevision
    <3>1. m \in Lobby
      BY <2>2, <2>3, EffectType
    <3>2. m.stateRevision \in Nat /\ l.stateRevision \in Nat
      BY <2>3, <3>1 DEF Lobby
    <3>3. l.stateRevision >= r.revision
      BY <1>2, <2>3
    <3> QED BY <1>2, <2>1, <2>6, <3>2, <3>3
  <2> QED BY <2>2, <2>3, <2>4, <2>5, <2>6, EffectRevised
<1>3. CASE requests' \subseteq requests
  BY <1>2, <1>3
<1>4. ASSUME NEW c, Captured(c), requests' = requests \cup {c}, lobbies' = Store
      PROVE Same(r, lobbies'[r.id])
  <2>1. CASE r \in requests
    BY <1>2, <2>1
  <2>2. CASE r = c
    <3>1. lobbies[c.id] \in Lobby
      BY <1>4, CapturedRequest DEF Base, TypeOK, Requests
    <3> QED BY <1>4, <2>2, <3>1, CapturedRequest DEF Lobby
  <2> QED BY <1>4, <2>1, <2>2
<1>5. ASSUME NEW q \in requests, NEW c \in Contents \cup {None},
             requests' = (requests \ {q}) \cup {[q EXCEPT !.metadata = c]}
      PROVE Same(r, lobbies'[r.id])
  <2>1. CASE r \in requests
    BY <1>2, <2>1
  <2>2. CASE r = [q EXCEPT !.metadata = c]
    <3>1. /\ r.id = q.id /\ r.revision = q.revision /\ r.phase = q.phase /\ r.host = q.host
          /\ r.guest = q.guest /\ r.kind = q.kind /\ r.levelId = q.levelId
      BY <2>2 DEF Base, TypeOK, Requests
    <3> QED BY <1>2, <3>1
  <2> QED BY <1>5, <2>1, <2>2
<1> QED BY <1>1, <1>3, <1>4, <1>5 DEF Frame, RequestsStep

\* The re-check after the await is enough: an unchanged revision hides no change.
THEOREM RevisionsIdentify == Spec => []RevisionIdentifiesState
<1>1. Init => RevisionIdentifiesState
  BY DEF Init, RevisionIdentifiesState
<1> QED BY <1>1, RevisionStep, BaseAlways, PTL DEF Spec

----------------------------------------------------------------------------
(* Seats *)

\* u sits in the active lobby id.
ActiveSeat(id, u) == lobbies[id] # None /\ IsActive(lobbies[id]) /\ Occupies(lobbies[id], u)

\* Ending a match or leaving it seats nobody and opens nothing that was closed.
LEMMA DepartureCloses ==
  ASSUME NEW l \in Lobby, NEW m, Departure(l, m)
  PROVE m.phase = "closed" /\ m.host = l.host /\ m.guest = l.guest
<1>1. PICK s \in Sides, k \in Lobby : EndedBy(l, s, k) /\ m = Depart(k, s)
  BY DEF Departure, EndedBy
<1>2. k.host = l.host /\ k.guest = l.guest
  BY <1>1, EndedByKeeps
<1> QED BY <1>1, <1>2, DepartFields

LEMMA ReportKeepsSeats ==
  ASSUME NEW l \in Lobby, NEW m, Reported(l, m) \/ Conceded(l, m)
  PROVE m.phase = l.phase /\ m.host = l.host /\ m.guest = l.guest
<1>1. CASE Conceded(l, m)
  BY <1>1 DEF Conceded, Publish, Touch, Lobby
<1>2. CASE Reported(l, m)
  <2>1. PICK s \in Sides, rep \in Reports : m = RecordReport(l, s, rep)
    BY <1>2 DEF Reported
  <2>2. CASE m # l
    <3>1. NewReport(l, s, rep, m)
      BY <2>1, <2>2, RecordReportFields
    <3> QED BY <3>1 DEF NewReport
  <2> QED BY <2>2
<1> QED BY <1>1, <1>2

LEMMA SeatGuestFields ==
  ASSUME NEW l \in Lobby, NEW u \in Users
  PROVE LET m == SeatGuest(l, u) IN m.host = l.host /\ m.guest = u /\ m.phase = "ready"
<1> DEFINE d == [l.departed EXCEPT !["enemy"] = FALSE]
<1>1. [l EXCEPT !.guest = u, !.departed["enemy"] = FALSE, !.phase = "ready"]
       = [l EXCEPT !.guest = u, !.departed = d, !.phase = "ready"]
  OBVIOUS
<1> HIDE DEF d
<1> QED BY <1>1 DEF SeatGuest, Touch, Lobby

\* A lobby active after a change was active before, with everybody it seats.
LEMMA ChangeSeatsNobody ==
  ASSUME NEW l \in Lobby, NEW m, Change(l, m), IsActive(m)
  PROVE IsActive(l) /\ m.host = l.host /\ m.guest \in {l.guest, None}
<1> USE DEF IsActive
<1>1. CASE Pregame(l, m)
  <2>1. \A lv \in Levels, c \in Contents :
          SelectLevel(l, lv, c).host = l.host /\ SelectLevel(l, lv, c).guest = l.guest
    BY DEF SelectLevel, Touch, Lobby
  <2>2. /\ RejectTimed(l).host = l.host /\ RejectTimed(l).guest = l.guest
        /\ ReopenSeat(l).host = l.host /\ ReopenSeat(l).guest = None
    BY DEF RejectTimed, ReopenSeat, Touch, Lobby
  <2> QED BY <1>1, <2>1, <2>2 DEF Pregame
<1>2. CASE Pinned(l, m)
  <2>1. \A c \in Contents : PinMatch(l, c).host = l.host /\ PinMatch(l, c).guest = l.guest
    BY DEF PinMatch, FreshMatch, Touch, Lobby
  <2> QED BY <1>2, <2>1 DEF Pinned
<1>3. CASE Relayed(l, m)
  BY <1>3 DEF Relayed, MayRelay, Relay, Touch, Lobby
<1>4. CASE Conceded(l, m) \/ Reported(l, m)
  BY <1>4, ReportKeepsSeats
<1>5. CASE Departure(l, m)
  BY <1>5, DepartureCloses
<1>6. CASE Expired(l, m)
  BY <1>6 DEF Expired, Lobby
<1> QED BY <1>1, <1>2, <1>3, <1>4, <1>5, <1>6 DEF Change

LEMMA QuietSeats ==
  ASSUME Base, NEW id \in Ids, Quiet(id), NEW u \in Users, ActiveSeat(id, u)'
  PROVE ActiveSeat(id, u)
<1>1. CASE lobbies'[id] = lobbies[id]
  BY <1>1 DEF ActiveSeat
<1>2. CASE lobbies[id] # None /\ Change(lobbies[id], lobbies'[id])
  <2>1. lobbies[id] \in Lobby /\ IsActive(lobbies'[id]) /\ Occupies(lobbies'[id], u)
    BY <1>2 DEF Base, TypeOK, ActiveSeat
  <2> QED BY <1>2, <2>1, ChangeSeatsNobody, NoneAssumption DEF ActiveSeat, Occupies
<1> QED BY <1>1, <1>2 DEF Quiet, ActiveSeat

\* A seat in an active lobby is what userActiveLobby finds.
LEMMA ActiveSeatFound ==
  ASSUME Base, NEW id \in Ids, NEW u, ActiveSeat(id, u) PROVE id \in ActiveOf(u)
<1>1. Store[id] = lobbies[id]
  BY StoreCases DEF Base, ActiveSeat, IsActive, Purgeable
<1> QED BY <1>1 DEF ActiveSeat, ActiveOf, Present

LEMMA OneActiveStep == Base /\ OneActiveLobbyPerUser /\ [Next]_vars => OneActiveLobbyPerUser'
<1> SUFFICES ASSUME Base, OneActiveLobbyPerUser, [Next]_vars, NEW v \in Users, NEW a \in Ids, NEW b \in Ids,
                    ActiveSeat(a, v)', ActiveSeat(b, v)'
             PROVE a = b
  BY DEF OneActiveLobbyPerUser, ActiveSeat
<1>0. ASSUME ActiveSeat(a, v), ActiveSeat(b, v) PROVE a = b
  BY <1>0 DEF OneActiveLobbyPerUser, ActiveSeat
<1>1. CASE \A id \in Ids : Quiet(id)
  BY <1>0, <1>1, QuietSeats
<1>2. ASSUME NEW u \in Users, Create(u) PROVE a = b
  <2>1. PICK new \in Ids \ minted : lobbies' = [Store EXCEPT ![new] = NewLobby(u)]
    BY <1>2 DEF Create, Put
  <2>2. ASSUME NEW id \in Ids, id # new, ActiveSeat(id, v)' PROVE ActiveSeat(id, v)
    <3>1. lobbies'[id] = Store[id]
      BY <2>1, <2>2 DEF Store
    <3> QED BY <2>2, <3>1, PurgeStep, QuietSeats DEF Base
  <2>3. ActiveSeat(new, v)' => v = u
    <3>1. lobbies'[new] = NewLobby(u)
      BY <2>1 DEF Store
    <3> QED BY <3>1, NoneAssumption DEF ActiveSeat, NewLobby, Occupies
  <2>4. \A id \in Ids : ~ActiveSeat(id, u)
    BY <1>2, ActiveSeatFound DEF Create
  <2> QED BY <1>0, <2>2, <2>3, <2>4
<1>3. ASSUME NEW u \in Users, NEW w \in Ids, Join(u, w) PROVE a = b
  <2>1. /\ lobbies[w] \in Lobby /\ lobbies[w] # None /\ CanJoin(lobbies[w], u)
        /\ lobbies' = [Store EXCEPT ![w] = SeatGuest(lobbies[w], u)]
    BY <1>3, SeatedLobby DEF Join, Put
  <2>2. ASSUME NEW id \in Ids, id # w, ActiveSeat(id, v)' PROVE ActiveSeat(id, v)
    <3>1. lobbies'[id] = Store[id]
      BY <2>1, <2>2 DEF Store
    <3> QED BY <2>2, <3>1, PurgeStep, QuietSeats DEF Base
  <2>3. ActiveSeat(w, v)' => v = u \/ ActiveSeat(w, v)
    <3>1. lobbies'[w] = SeatGuest(lobbies[w], u)
      BY <2>1 DEF Store
    <3>2. lobbies'[w].host = lobbies[w].host /\ lobbies'[w].guest = u
      BY <2>1, <3>1, SeatGuestFields
    <3> QED BY <2>1, <3>2 DEF ActiveSeat, Occupies, CanJoin, IsActive
  <2>4. \A id \in Ids : ActiveSeat(id, u) => id = w
    BY <1>3, ActiveSeatFound DEF Join
  <2> QED BY <1>0, <2>2, <2>3, <2>4
<1> QED BY <1>1, <1>2, <1>3, QuietSteps

\* Whatever creates, joins and leaves interleave, nobody sits in two active lobbies.
THEOREM OneActive == Spec => []OneActiveLobbyPerUser
<1>1. Init => OneActiveLobbyPerUser
  BY DEF Init, OneActiveLobbyPerUser
<1> QED BY <1>1, OneActiveStep, BaseAlways, PTL DEF Spec

----------------------------------------------------------------------------
(* Event streams *)

\* The listeners of a lobby may read it.
Private(id) == \A u \in streams[id] : lobbies[id] # None /\ MayRead(lobbies[id], u)

\* The purge closes the streams of what it drops.
LEMMA LiveStreamsPrivate ==
  ASSUME TypeOK, StreamsArePrivate, NEW id \in Ids, NEW u \in LiveStreams[id]
  PROVE Store[id] # None /\ MayRead(Store[id], u)
BY DEF StreamsArePrivate, LiveStreams, Store, TypeOK

LEMMA LookupPrivate ==
  ASSUME TypeOK, StreamsArePrivate, NEW id \in Ids, lobbies'[id] = Store[id],
         streams'[id] \subseteq LiveStreams[id]
  PROVE Private(id)'
BY LiveStreamsPrivate DEF Private, MayRead

\* A write that closes nothing, and one that moves no seat, keep every reader.
LEMMA PutPrivate ==
  ASSUME TypeOK, StreamsArePrivate, NEW id \in Ids, NEW m \in Lobby, Put(id, m),
         Present(id) => m.phase # "closed" \/ (lobbies[id].phase = "closed" /\ m.host = lobbies[id].host /\ m.guest = lobbies[id].guest)
  PROVE \A j \in Ids : Private(j)'
<1> SUFFICES ASSUME NEW j \in Ids PROVE Private(j)'
  OBVIOUS
<1>1. streams' = LiveStreams /\ lobbies' = [Store EXCEPT ![id] = m]
  BY DEF Put
<1>2. CASE j # id
  <2>1. lobbies'[j] = Store[j]
    BY <1>1, <1>2 DEF Store
  <2> QED BY <1>1, <2>1, LookupPrivate
<1>3. CASE j = id
  <2>1. lobbies'[j] = m /\ m # None
    BY <1>1, <1>3, NoLobbyAssumption DEF Store
  <2>2. \A u \in LiveStreams[id] : Present(id) /\ MayRead(Store[id], u) /\ Store[id] = lobbies[id]
    BY LiveStreamsPrivate, StoreCases DEF Present
  <2> QED BY <1>1, <1>3, <2>1, <2>2 DEF Private, MayRead, Occupies
<1> QED BY <1>2, <1>3

LEMMA LeaveSeatPrivate ==
  ASSUME Base, StreamsArePrivate, NEW id \in Ids, Present(id), NEW s \in Sides, NEW k,
         EndedBy(lobbies[id], s, k), LeaveSeat(id, k, s)
  PROVE \A j \in Ids : Private(j)'
<1> USE DEF Base
<1>1. k \in Lobby
  BY SeatedLobby, EndedByKeeps
<1>2. CASE ReopensSeat(k, s)
  <2>1. ReopenSeat(k) \in Lobby /\ ReopenSeat(k).phase = "waiting"
    BY <1>1, ReopenSeatType DEF ReopenSeat, Touch, Lobby
  <2> QED BY <1>2, <2>1, PutPrivate DEF LeaveSeat
<1>3. CASE ~ReopensSeat(k, s)
  <2> SUFFICES ASSUME NEW j \in Ids PROVE Private(j)'
    OBVIOUS
  <2> DEFINE left == Depart(k, s)
  <2>1. left \in Lobby /\ left # None
    BY <1>1, DepartType, NoLobbyAssumption
  <2>2. \/ lobbies' = [Store EXCEPT ![id] = None] /\ streams' = [LiveStreams EXCEPT ![id] = {}]
        \/ lobbies' = [Store EXCEPT ![id] = left] /\ streams' = [LiveStreams EXCEPT ![id] = SeatStreams(id, left)]
    BY <1>3 DEF LeaveSeat
  <2> HIDE DEF left
  <2>3. CASE j # id
    <3>1. lobbies'[j] = Store[j] /\ streams'[j] = LiveStreams[j]
      BY <2>2, <2>3 DEF Store, LiveStreams
    <3> QED BY <3>1, LookupPrivate
  <2>4. CASE j = id
    <3>1. \/ streams'[j] = {}
          \/ lobbies'[j] = left /\ streams'[j] = SeatStreams(j, left)
      BY <2>2, <2>4 DEF Store, LiveStreams
    <3> QED BY <2>1, <3>1 DEF Private, SeatStreams, MayRead
  <2> QED BY <2>3, <2>4
<1> QED BY <1>2, <1>3

LEMMA PrivateStep == Base /\ StreamsArePrivate /\ [Next]_vars => StreamsArePrivate'
<1> SUFFICES ASSUME Base, StreamsArePrivate, [Next]_vars PROVE \A j \in Ids : Private(j)'
  BY DEF StreamsArePrivate, Private
<1> USE DEF Base
<1>0. ASSUME lobbies' = Store, streams' = LiveStreams PROVE \A j \in Ids : Private(j)'
  BY <1>0, LookupPrivate
<1>1. CASE Lookup
  BY <1>0, <1>1 DEF Lookup
<1>2. CASE Restart
  BY <1>2 DEF Restart, Private
<1>3. ASSUME NEW u \in Users, Create(u) PROVE \A j \in Ids : Private(j)'
  <2>1. PICK new \in Ids \ minted : Put(new, NewLobby(u))
    BY <1>3 DEF Create
  <2>2. NewLobby(u) \in Lobby /\ NewLobby(u).phase = "waiting"
    BY NewLobbyType DEF NewLobby
  <2> QED BY <2>1, <2>2, PutPrivate
<1>4. ASSUME NEW u \in Users, NEW id \in Ids, Join(u, id) PROVE \A j \in Ids : Private(j)'
  <2>1. Put(id, SeatGuest(lobbies[id], u)) /\ lobbies[id] \in Lobby
    BY <1>4, SeatedLobby DEF Join
  <2> QED BY <2>1, SeatGuestType, SeatGuestFields, PutPrivate
<1>5. ASSUME NEW u \in Users, NEW id \in Ids, StartRequest(u, id) PROVE \A j \in Ids : Private(j)'
  BY <1>0, <1>5 DEF StartRequest, Await
<1>6. ASSUME NEW u \in Users, NEW id \in Ids, Resign(u, id) PROVE \A j \in Ids : Private(j)'
  <2> DEFINE l == lobbies[id]
             m == Publish(l, Resignation(SideOf(l, u)))
  <2>1. /\ Put(id, m) /\ l.phase = "started" /\ l \in Lobby /\ SideOf(l, u) \in Sides
    BY <1>6, SeatedLobby DEF Resign
  <2>2. m \in Lobby
    BY <2>1, PublishType, ResignationIsNoOutcome
  <2>3. Conceded(l, m)
    BY <2>1 DEF Conceded, IsStartedLifecycle
  <2> QED BY <2>1, <2>2, <2>3, ReportKeepsSeats, PutPrivate
<1>7. ASSUME NEW u \in Users, NEW id \in Ids, Leave(u, id) PROVE \A j \in Ids : Private(j)'
  <2> DEFINE l == lobbies[id]
             s == SideOf(l, u)
  <2>1. Present(id) /\ s \in Sides /\ LeaveSeat(id, Concede(l, s), s)
    BY <1>7, SeatedLobby DEF Leave
  <2> QED BY <2>1, LeaveSeatPrivate DEF EndedBy
<1>8. ASSUME NEW u \in Users, NEW id \in Ids, Subscribe(u, id) PROVE \A j \in Ids : Private(j)'
  <2> SUFFICES ASSUME NEW j \in Ids PROVE Private(j)'
    OBVIOUS
  <2>1. Store[id] # None /\ MayRead(Store[id], u) /\ lobbies' = Store
        /\ streams' = [LiveStreams EXCEPT ![id] = @ \cup {u}]
    BY <1>8 DEF Subscribe, Present
  <2>2. \A w \in streams'[j] : w \in LiveStreams[j] \/ (j = id /\ w = u)
    BY <2>1, LiveStreamsType
  <2> QED BY <2>1, <2>2, LiveStreamsPrivate DEF Private, MayRead
<1>9. ASSUME NEW u \in Users, NEW id \in Ids, Disconnect(u, id) PROVE \A j \in Ids : Private(j)'
  <2>1. lobbies' = lobbies /\ \A j \in Ids : streams'[j] \subseteq streams[j]
    BY <1>9 DEF Disconnect, TypeOK
  <2> QED BY <2>1 DEF Private, MayRead, StreamsArePrivate
<1>10. ASSUME NEW u \in Users, NEW id \in Ids, NEW lv \in Levels, LevelRequest(u, id, lv)
       PROVE \A j \in Ids : Private(j)'
  BY <1>0, <1>10 DEF LevelRequest, Await
<1>11. ASSUME NEW u \in Users, NEW id \in Ids, NEW n \in 0..MaxMoves, NEW intent \in Intents,
              NEW g \in Gestures, PostMove(u, id, n, intent, g)
       PROVE \A j \in Ids : Private(j)'
  <2> DEFINE l == lobbies[id]
             s == SideOf(l, u)
  <2>1. Put(id, Relay(l, s, intent, g)) /\ l.phase = "started" /\ l \in Lobby /\ s \in Sides
    BY <1>11, SeatedLobby DEF PostMove, MayRelay
  <2>2. Relay(l, s, intent, g) \in Lobby /\ Relay(l, s, intent, g).phase = "started"
    BY <2>1, RelayType DEF Relay, Touch, Lobby
  <2> QED BY <2>1, <2>2, PutPrivate
<1>12. ASSUME NEW u \in Users, NEW id \in Ids, NEW n \in 0..MaxMoves, NEW rep \in ReportsFor(n),
              Put(id, RecordReport(lobbies[id], SideOf(lobbies[id], u), rep)), Present(id),
              IsStartedLifecycle(lobbies[id]), ExactPrefix(lobbies[id], rep)
       PROVE \A j \in Ids : Private(j)'
  <2> DEFINE l == lobbies[id]
             m == RecordReport(l, SideOf(l, u), rep)
  <2>1. rep \in Reports /\ l \in Lobby /\ SideOf(l, u) \in Sides
    BY <1>12, SeatedLobby, BoundsAssumption DEF ReportsFor, Reports
  <2>2. m \in Lobby /\ Reported(l, m)
    BY <1>12, <2>1, RecordReportType DEF Reported
  <2> QED BY <1>12, <2>1, <2>2, ReportKeepsSeats, PutPrivate
<1>13. ASSUME NEW u \in Users, NEW id \in Ids, NEW n \in 0..MaxMoves, NEW rep \in ReportsFor(n),
              ReportResult(u, id, rep)
       PROVE \A j \in Ids : Private(j)'
  BY <1>12, <1>13, SeatedLobby DEF ReportResult
<1>14. ASSUME NEW u \in Users, NEW id \in Ids, NEW n \in 0..MaxMoves, NEW rep \in ReportsFor(n),
              LeaveFinished(u, id, rep)
       PROVE \A j \in Ids : Private(j)'
  <2> DEFINE l == lobbies[id]
             s == SideOf(l, u)
  <2>1. /\ Present(id) /\ s \in Sides /\ IsStartedLifecycle(l) /\ ExactPrefix(l, rep)
        /\ IF ReportAccepted(l, s, rep) THEN LeaveSeat(id, RecordReport(l, s, rep), s)
           ELSE Put(id, RecordReport(l, s, rep))
    BY <1>14, SeatedLobby DEF LeaveFinished
  <2>2. CASE ReportAccepted(l, s, rep)
    <3>1. rep \in Reports
      BY BoundsAssumption DEF ReportsFor, Reports
    <3>2. EndedBy(l, s, RecordReport(l, s, rep))
      BY <2>1, <2>2, <3>1 DEF EndedBy
    <3> QED BY <2>1, <2>2, <3>2, LeaveSeatPrivate
  <2> QED BY <1>12, <2>1, <2>2
<1>15. ASSUME NEW r \in requests, ReadDocument(r) \/ RefuseRequest(r) PROVE \A j \in Ids : Private(j)'
  BY <1>15 DEF ReadDocument, RefuseRequest, StreamsArePrivate, Private, MayRead
<1>16. ASSUME NEW r \in requests, ApplyRequest(r) PROVE \A j \in Ids : Private(j)'
  <2>1. lobbies' = [lobbies EXCEPT ![r.id] = Continuation(r)] /\ streams' = streams
    BY <1>16 DEF ApplyRequest
  <2>2. Continuation(r) \in Lobby /\ Continuation(r).phase # "closed"
    <3>1. lobbies[r.id] \in Lobby /\ Change(lobbies[r.id], Continuation(r))
      BY <1>16, ApplyRequestEffect
    <3>2. Continuation(r) \in Lobby
      BY <3>1, EffectType DEF Effect
    <3>3. lobbies[r.id].phase # "closed" /\ r \in Requests
      BY <1>16 DEF ApplyRequest, StateMatches, RequestsAllowed, TypeOK
    <3>4. \A lv, c : SelectLevel(lobbies[r.id], lv, c).phase = lobbies[r.id].phase
      BY <3>1 DEF SelectLevel, Touch, Lobby
    <3>5. RejectTimed(lobbies[r.id]).phase = lobbies[r.id].phase
      BY <3>1 DEF RejectTimed, Touch, Lobby
    <3>6. \A c : PinMatch(lobbies[r.id], c).phase = "started"
      BY <3>1 DEF PinMatch, FreshMatch, Touch, Lobby
    <3> QED BY <3>2, <3>3, <3>4, <3>5, <3>6 DEF Continuation
  <2> SUFFICES ASSUME NEW j \in Ids PROVE Private(j)'
    OBVIOUS
  <2>3. lobbies'[j] = lobbies[j] \/ (lobbies'[j] # None /\ lobbies'[j].phase # "closed")
    BY <2>1, <2>2, NoLobbyAssumption DEF TypeOK
  <2> QED BY <2>1, <2>3 DEF StreamsArePrivate, Private, MayRead
<1>17. ASSUME NEW id \in Ids, Expire(id) PROVE \A j \in Ids : Private(j)'
  <2> SUFFICES ASSUME NEW j \in Ids PROVE Private(j)'
    OBVIOUS
  <2>1. lobbies'[j] = lobbies[j] \/ (lobbies[j] \in Lobby /\ lobbies'[j] = [lobbies[j] EXCEPT !.expired = TRUE])
    BY <1>17 DEF Expire, TypeOK
  <2>2. CASE lobbies[j] \in Lobby /\ lobbies'[j] = [lobbies[j] EXCEPT !.expired = TRUE]
    <3>1. /\ lobbies'[j].phase = lobbies[j].phase /\ lobbies'[j].host = lobbies[j].host
          /\ lobbies'[j].guest = lobbies[j].guest /\ lobbies'[j] \in Lobby
      BY <2>2, ExpiredType DEF Lobby
    <3> QED BY <1>17, <3>1, NoLobbyAssumption DEF Expire, StreamsArePrivate, Private, MayRead, Occupies
  <2> QED BY <1>17, <2>1, <2>2 DEF Expire, StreamsArePrivate, Private, MayRead
<1>18. ASSUME NEW lv \in Levels, NEW c \in Contents \cup {None}, Republish(lv, c)
       PROVE \A j \in Ids : Private(j)'
  BY <1>18 DEF Republish, StreamsArePrivate, Private, MayRead
<1>19. CASE UNCHANGED vars
  BY <1>19 DEF vars, StreamsArePrivate, Private, MayRead
<1> QED
  BY <1>1, <1>2, <1>3, <1>4, <1>5, <1>6, <1>7, <1>8, <1>9, <1>10, <1>11, <1>13, <1>14,
     <1>15, <1>16, <1>17, <1>18, <1>19 DEF Next

\* Only its seats listen to a closed lobby, and nobody to one that is gone.
THEOREM StreamsPrivate == Spec => []StreamsArePrivate
<1>1. Init => StreamsArePrivate
  BY DEF Init, StreamsArePrivate
<1> QED BY <1>1, PrivateStep, BaseAlways, PTL DEF Spec

----------------------------------------------------------------------------
(* The matches of the server are those of MatchAuthority *)

NoMatch == Authority!NoMatch
MatchStep(m, n) == Authority!MatchStep(m, n)

\* Before Start there is no match to see.
LEMMA UnstartedView ==
  ASSUME NEW l \in Lobby, Sound(l), ~IsStartedLifecycle(l) PROVE MatchOf(l) = NoMatch
BY Unstarted DEF MatchOf, NoMatch, Authority!NoMatch

\* The view depends on the lifecycle, content, log, reports and result alone.
LEMMA SameView ==
  ASSUME NEW l, NEW m, IsStartedLifecycle(m) <=> IsStartedLifecycle(l), m.levelSnapshot = l.levelSnapshot,
         m.moves = l.moves, m.result = l.result, m.resultReports = l.resultReports
  PROVE MatchOf(m) = MatchOf(l)
BY DEF MatchOf, AnyReport

\* What a started match shows.
LEMMA StartedView ==
  ASSUME NEW l, IsStartedLifecycle(l)
  PROVE LET shown(stage) == [stage |-> stage, content |-> l.levelSnapshot, log |-> l.moves, verdict |-> l.result]
        IN /\ l.result # None => MatchOf(l) = shown("over")
           /\ l.result = None /\ AnyReport(l) => MatchOf(l) = shown("frozen")
           /\ l.result = None /\ ~AnyReport(l) => MatchOf(l) = shown("live")
BY DEF MatchOf

\* A concession ends a match that has no result, whatever was reported.
LEMMA ConcessionView ==
  ASSUME NEW l \in Lobby, Sound(l), IsStartedLifecycle(l), NEW s \in Sides
  PROVE MatchStep(MatchOf(l), MatchOf(Publish(l, Resignation(s))))
<1> DEFINE m == Publish(l, Resignation(s))
<1>1. CASE l.result # None
  BY <1>1 DEF Publish, MatchStep, Authority!MatchStep
<1>2. CASE l.result = None
  <2>1. /\ m.phase = l.phase /\ m.closedFromPhase = l.closedFromPhase /\ m.levelSnapshot = l.levelSnapshot
        /\ m.moves = l.moves /\ m.result = Resignation(s)
    BY <1>2 DEF Publish, Touch, Lobby
  <2>2. IsStartedLifecycle(m) /\ m.result # None
    BY <2>1, ResignationIsNoOutcome DEF IsStartedLifecycle
  <2> HIDE DEF m
  <2>3. MatchOf(m) = [MatchOf(l) EXCEPT !.stage = "over", !.verdict = Resignation(s)]
    <3>1. MatchOf(m) = [stage |-> "over", content |-> l.levelSnapshot, log |-> l.moves, verdict |-> Resignation(s)]
      BY <2>1, <2>2, StartedView
    <3>2. \E stage : MatchOf(l) = [stage |-> stage, content |-> l.levelSnapshot, log |-> l.moves, verdict |-> None]
      BY <1>2, StartedView
    <3> DEFINE n == [MatchOf(l) EXCEPT !.stage = "over"]
    <3>3. n = [stage |-> "over", content |-> l.levelSnapshot, log |-> l.moves, verdict |-> None]
      BY <3>2
    <3>4. [MatchOf(l) EXCEPT !.stage = "over", !.verdict = Resignation(s)] = [n EXCEPT !.verdict = Resignation(s)]
      BY <3>2
    <3> HIDE DEF n
    <3>5. [n EXCEPT !.verdict = Resignation(s)] = MatchOf(m)
      BY <3>1, <3>3
    <3> QED BY <3>4, <3>5
  <2>4. MatchOf(l).stage \in {"live", "frozen"}
    BY <1>2, StartedView
  <2>5. Authority!Concedes(MatchOf(l), MatchOf(m))
    BY <2>3, <2>4 DEF Authority!Concedes
  <2> QED BY <2>5 DEF MatchStep, Authority!MatchStep, m
<1> QED BY <1>1, <1>2

\* A first report freezes the match, an equal one decides it, another one changes nothing.
LEMMA ReportView ==
  ASSUME NEW l \in Lobby, Sound(l), IsStartedLifecycle(l), NEW s \in Sides, NEW rep \in Reports
  PROVE MatchStep(MatchOf(l), MatchOf(RecordReport(l, s, rep)))
<1> DEFINE m == RecordReport(l, s, rep)
           other == l.resultReports[Other(s)]
<1>1. CASE m = l
  BY <1>1 DEF MatchStep, Authority!MatchStep
<1>2. CASE m # l
  <2>0. NewReport(l, s, rep, m)
    BY <1>2, RecordReportFields
  <2>1. /\ m.phase = l.phase /\ m.closedFromPhase = l.closedFromPhase /\ m.levelSnapshot = l.levelSnapshot
        /\ m.moves = l.moves /\ l.result = None /\ l.resultReports[s] = None /\ m.resultReports[s] = rep
        /\ \/ other = None /\ m.result = None
           \/ other = rep /\ m.result = rep.outcome
           \/ other # None /\ m.result = None
    BY <2>0 DEF NewReport
  <2>2. IsStartedLifecycle(m) /\ AnyReport(m)
    BY <2>1, NoneIsNoResult DEF IsStartedLifecycle, AnyReport
  <2>3. AnyReport(l) <=> other # None
    <3>1. \A t \in Sides : t = s \/ t = Other(s)
      BY DEF Sides, Other
    <3> QED BY <2>1, <3>1, OtherSide DEF AnyReport
  <2> HIDE DEF m, other
  <2>4. CASE other = None /\ m.result = None
    <3>1. MatchOf(l).stage = "live" /\ MatchOf(m) = [MatchOf(l) EXCEPT !.stage = "frozen"]
      BY <2>1, <2>2, <2>3, <2>4 DEF MatchOf, IsStartedLifecycle
    <3> QED BY <3>1 DEF MatchStep, Authority!MatchStep, Authority!Freezes, m
  <2>5. CASE other = rep /\ m.result = rep.outcome
    <3>1. rep.outcome \in Outcomes /\ rep # None /\ rep.outcome # None
      BY NoneIsNoResult DEF Reports
    <3>2. MatchOf(m) = [stage |-> "over", content |-> l.levelSnapshot, log |-> l.moves, verdict |-> rep.outcome]
      BY <2>1, <2>2, <2>5, <3>1, StartedView
    <3>3. MatchOf(l) = [stage |-> "frozen", content |-> l.levelSnapshot, log |-> l.moves, verdict |-> None]
      BY <2>1, <2>3, <2>5, <3>1, StartedView
    <3>4. MatchOf(l).stage = "frozen" /\ MatchOf(m) = [MatchOf(l) EXCEPT !.stage = "over", !.verdict = rep.outcome]
      <4>1. MatchOf(l).stage = "frozen"
        BY <3>3
      <4> DEFINE n == [MatchOf(l) EXCEPT !.stage = "over"]
      <4>2. n = [stage |-> "over", content |-> l.levelSnapshot, log |-> l.moves, verdict |-> None]
        BY <3>3
      <4>3. [MatchOf(l) EXCEPT !.stage = "over", !.verdict = rep.outcome] = [n EXCEPT !.verdict = rep.outcome]
        BY <3>3
      <4> HIDE DEF n
      <4>4. [n EXCEPT !.verdict = rep.outcome] = MatchOf(m)
        BY <3>2, <4>2
      <4> QED BY <4>1, <4>3, <4>4
    <3> QED BY <3>1, <3>4 DEF MatchStep, Authority!MatchStep, Authority!Agrees, m
  <2>6. CASE other # None /\ m.result = None
    <3>1. MatchOf(m) = MatchOf(l)
      BY <2>1, <2>2, <2>3, <2>6 DEF MatchOf, IsStartedLifecycle
    <3> QED BY <3>1 DEF MatchStep, Authority!MatchStep, m
  <2> QED BY <2>1, <2>4, <2>5, <2>6
<1> QED BY <1>1, <1>2

LEMMA EndedByView ==
  ASSUME NEW l \in Lobby, Sound(l), NEW s \in Sides, NEW k, EndedBy(l, s, k)
  PROVE MatchStep(MatchOf(l), MatchOf(k))
<1>1. CASE k = Concede(l, s)
  BY <1>1, ConcessionView DEF Concede, MatchStep, Authority!MatchStep
<1> QED BY <1>1, ReportView DEF EndedBy

\* Every effect on a lobby is a step of its match.
LEMMA EffectView ==
  ASSUME NEW l \in Lobby, Sound(l), NEW m, Effect(l, m)
  PROVE MatchStep(MatchOf(l), MatchOf(m))
<1>0. m \in Lobby /\ Sound(m)
  BY EffectType, EffectSound
<1>1. CASE ~IsStartedLifecycle(l) /\ ~IsStartedLifecycle(m)
  BY <1>0, <1>1, UnstartedView DEF MatchStep, Authority!MatchStep
<1>2. CASE Joined(l, m)
  <2>1. l.phase = "waiting" /\ m.phase = "ready"
    BY <1>2, SeatGuestFields DEF Joined, CanJoin
  <2> QED BY <1>1, <2>1 DEF IsStartedLifecycle
<1>3. CASE Pregame(l, m)
  <2>1. \A lv \in Levels, c \in Contents : SelectLevel(l, lv, c).phase = l.phase
    BY DEF SelectLevel, Touch, Lobby
  <2>2. RejectTimed(l).phase = l.phase /\ ReopenSeat(l).phase = "waiting"
    BY DEF RejectTimed, ReopenSeat, Touch, Lobby
  <2>3. l.phase \in {"waiting", "ready"} /\ m.phase \in {"waiting", "ready"}
    BY <1>3, <2>1, <2>2 DEF Pregame
  <2> QED BY <1>1, <2>3 DEF IsStartedLifecycle
<1>4. CASE Pinned(l, m)
  <2>1. PICK c \in Contents : m = PinMatch(l, c)
    BY <1>4 DEF Pinned
  <2>2. /\ m.phase = "started" /\ m.moves = <<>> /\ m.result = None /\ m.levelSnapshot = c
        /\ m.resultReports = [s \in Sides |-> None]
    BY <2>1 DEF PinMatch, FreshMatch, Touch, Lobby
  <2>3. MatchOf(m) = [NoMatch EXCEPT !.stage = "live", !.content = c]
    <3>1. IsStartedLifecycle(m) /\ ~AnyReport(m)
      BY <2>2 DEF IsStartedLifecycle, AnyReport
    <3>2. MatchOf(m) = [stage |-> "live", content |-> c, log |-> <<>>, verdict |-> None]
      BY <2>2, <3>1, StartedView
    <3> DEFINE n == [NoMatch EXCEPT !.stage = "live"]
    <3>3. n = [stage |-> "live", content |-> None, log |-> <<>>, verdict |-> None]
      BY DEF NoMatch, Authority!NoMatch
    <3>4. [NoMatch EXCEPT !.stage = "live", !.content = c] = [n EXCEPT !.content = c]
      BY DEF NoMatch, Authority!NoMatch
    <3> HIDE DEF n
    <3>5. [n EXCEPT !.content = c] = MatchOf(m)
      BY <3>2, <3>3
    <3> QED BY <3>4, <3>5
  <2>4. MatchOf(l) = NoMatch
    BY <1>4, UnstartedView DEF Pinned, IsStartedLifecycle
  <2> QED BY <2>3, <2>4 DEF MatchStep, Authority!MatchStep, Authority!Opens, NoMatch
<1>5. CASE Relayed(l, m)
  <2>1. PICK s \in Sides, intent \in Intents, g \in Gestures, n \in Nat :
          MayRelay(l, s, n) /\ m = Relay(l, s, intent, g)
    BY <1>5 DEF Relayed
  <2> DEFINE e == [i |-> Len(l.moves), side |-> s, intentId |-> intent, gesture |-> g]
  <2>2. /\ m.phase = "started" /\ m.levelSnapshot = l.levelSnapshot /\ m.moves = Append(l.moves, e)
        /\ m.result = None /\ m.resultReports = l.resultReports
        /\ l.phase = "started" /\ l.result = None /\ ~AnyReport(l)
    BY <2>1 DEF Relay, MayRelay, Touch, Lobby
  <2> HIDE DEF e
  <2>3. MatchOf(l).stage = "live" /\ MatchOf(m) = [MatchOf(l) EXCEPT !.log = m.moves] /\ MatchOf(l).log = l.moves
        /\ MatchOf(m).log = m.moves
    <3>1. IsStartedLifecycle(l) /\ IsStartedLifecycle(m) /\ ~AnyReport(m)
      BY <2>2 DEF IsStartedLifecycle, AnyReport
    <3>2. MatchOf(l) = [stage |-> "live", content |-> l.levelSnapshot, log |-> l.moves, verdict |-> None]
      BY <2>2, <3>1, StartedView
    <3>3. MatchOf(m) = [stage |-> "live", content |-> l.levelSnapshot, log |-> m.moves, verdict |-> None]
      BY <2>2, <3>1, StartedView
    <3> QED BY <3>2, <3>3
  <2>4. Len(m.moves) = Len(l.moves) + 1 /\ SubSeq(m.moves, 1, Len(l.moves)) = l.moves
    BY <2>2 DEF Lobby
  <2>5. Authority!Extends(MatchOf(l), MatchOf(m))
    BY <2>3, <2>4 DEF Authority!Extends
  <2> QED BY <2>5 DEF MatchStep, Authority!MatchStep
<1>6. CASE Conceded(l, m)
  BY <1>6, ConcessionView DEF Conceded
<1>7. CASE Reported(l, m)
  BY <1>7, ReportView DEF Reported
<1>8. CASE Departure(l, m)
  <2>1. PICK s \in Sides, k \in Lobby : EndedBy(l, s, k) /\ m = Depart(k, s)
    BY <1>8 DEF Departure, EndedBy
  <2>2. /\ m.levelSnapshot = k.levelSnapshot /\ m.moves = k.moves /\ m.result = k.result
        /\ m.resultReports = k.resultReports /\ m.phase = "closed"
        /\ m.closedFromPhase = IF k.phase = "closed" THEN k.closedFromPhase ELSE k.phase
    BY <2>1, DepartFields
  <2>3. IsStartedLifecycle(m) <=> IsStartedLifecycle(k)
    BY <2>2 DEF IsStartedLifecycle
  <2>4. MatchOf(m) = MatchOf(k)
    BY <2>2, <2>3, SameView
  <2> QED BY <2>1, <2>4, EndedByView
<1>9. CASE Expired(l, m)
  <2>1. /\ m.phase = l.phase /\ m.closedFromPhase = l.closedFromPhase /\ m.levelSnapshot = l.levelSnapshot
        /\ m.moves = l.moves /\ m.result = l.result /\ m.resultReports = l.resultReports
    BY <1>9 DEF Expired, Lobby
  <2>2. MatchOf(m) = MatchOf(l)
    BY <2>1, SameView DEF IsStartedLifecycle
  <2> QED BY <2>2 DEF MatchStep, Authority!MatchStep
<1> QED BY <1>2, <1>3, <1>4, <1>5, <1>6, <1>7, <1>8, <1>9 DEF Effect, Change

\* An id is handed out only with a lobby.
LEMMA MintStep ==
  ASSUME Base, [Next]_vars, NEW id \in Ids, id \in minted', id \notin minted
  PROVE lobbies'[id] # None
<1>1. \A u \in Users : Create(u) => lobbies'[id] # None
  <2> SUFFICES ASSUME NEW u \in Users, Create(u) PROVE lobbies'[id] # None
    OBVIOUS
  <2>1. PICK new \in Ids \ minted : lobbies' = [Store EXCEPT ![new] = NewLobby(u)] /\ minted' = minted \cup {new}
    BY DEF Create, Put
  <2>2. id = new /\ NewLobby(u) # None
    BY <2>1, NewLobbyType, NoLobbyAssumption
  <2> QED BY <2>1, <2>2 DEF Store
<1>2. (\E u \in Users : Create(u)) \/ UNCHANGED minted
  BY DEF Next, vars, Lookup, Restart, Join, StartRequest, LevelRequest, Await, Resign, Leave, Subscribe,
         Disconnect, PostMove, ReportResult, LeaveFinished, ReadDocument, ApplyRequest, RefuseRequest,
         Expire, Republish
<1> QED BY <1>1, <1>2

\* A match that is still played is not what a removal finds.
LEMMA RemovableView ==
  ASSUME NEW l \in Lobby, Sound(l), Removable(l) PROVE MatchOf(l).stage # "live"
<1>1. l.phase = "closed"
  BY DEF Removable, Purgeable, Sound, Shaped
<1>2. IsStartedLifecycle(l) => l.result # None \/ AnyReport(l)
  BY <1>1 DEF Sound, Shaped
<1> QED BY <1>2 DEF MatchOf

LEMMA ViewStep ==
  ASSUME Base, [Next]_vars, ~Restart, NEW id \in Ids
  PROVE MatchStep(MatchView[id], MatchView'[id])
<1> USE DEF Base
<1>0. MapStep(id) /\ (id \in minted => id \in minted')
  BY Step, FrameStep DEF Frame
<1>1. ASSUME lobbies[id] # None
      PROVE lobbies[id] \in Lobby /\ Sound(lobbies[id]) /\ id \in minted /\ MatchView[id] = MatchOf(lobbies[id])
  BY <1>1 DEF TypeOK, AllLobbies, MintedOnly, MatchView
<1>2. lobbies'[id] # None => MatchView'[id] = MatchOf(lobbies'[id])
  BY DEF MatchView
<1>3. lobbies'[id] = None => MatchView'[id] = Lost(id)'
  BY DEF MatchView
<1>4. CASE lobbies'[id] = lobbies[id]
  <2>1. lobbies[id] = None => MatchView[id] = Lost(id)
    BY DEF MatchView
  <2>2. lobbies[id] = None => Lost(id)' = Lost(id)
    BY <1>0, <1>4, MintStep DEF Lost
  <2>3. MatchView'[id] = MatchView[id]
    BY <1>1, <1>2, <1>3, <1>4, <2>1, <2>2
  <2> QED BY <2>3 DEF MatchStep, Authority!MatchStep
<1>5. CASE lobbies[id] # None /\ lobbies'[id] = None /\ Removable(lobbies[id])
  <2>1. MatchView[id].stage # "live"
    BY <1>1, <1>5, RemovableView
  <2>2. MatchView'[id] = Authority!Gone
    BY <1>0, <1>1, <1>3, <1>5 DEF Lost, Authority!Gone, Authority!NoMatch
  <2> QED BY <2>1, <2>2 DEF MatchStep, Authority!MatchStep, Authority!Drops
<1>6. ASSUME lobbies[id] = None, id \notin minted, NEW u \in Users, lobbies'[id] = NewLobby(u)
      PROVE MatchStep(MatchView[id], MatchView'[id])
  <2>1. MatchView[id] = NoMatch
    BY <1>6 DEF MatchView, Lost, NoMatch, Authority!NoMatch
  <2>2. NewLobby(u) \in Lobby /\ Sound(NewLobby(u)) /\ NewLobby(u) # None /\ NewLobby(u).phase = "waiting"
    BY NewLobbyType, NewLobbySound, NoLobbyAssumption DEF NewLobby
  <2>3. MatchView'[id] = NoMatch
    BY <1>2, <1>6, <2>2, UnstartedView DEF IsStartedLifecycle
  <2> QED BY <2>1, <2>3 DEF MatchStep, Authority!MatchStep
<1>7. CASE lobbies[id] # None /\ Effect(lobbies[id], lobbies'[id])
  <2>1. lobbies'[id] # None
    BY <1>1, <1>7, EffectType, NoLobbyAssumption
  <2> QED BY <1>1, <1>2, <1>7, <2>1, EffectView
<1> QED BY <1>0, <1>4, <1>5, <1>6, <1>7 DEF MapStep, Quiet, Effect

LEMMA HaltStep == Base /\ Restart => Authority!Halt
<1> SUFFICES ASSUME Base, Restart, NEW id \in Ids
             PROVE MatchView'[id] = Authority!Gone
                     \/ (MatchView[id] = Authority!NoMatch /\ MatchView'[id] = Authority!NoMatch)
  BY DEF Authority!Halt
<1>1. MatchView'[id] = Lost(id)' /\ minted' = minted
  BY DEF Restart, MatchView
<1>2. CASE id \in minted
  BY <1>1, <1>2 DEF Lost, Authority!Gone, Authority!NoMatch
<1>3. CASE id \notin minted
  <2>1. lobbies[id] = None
    BY <1>3 DEF Base, MintedOnly
  <2> QED BY <1>1, <1>3, <2>1 DEF MatchView, Lost, Authority!NoMatch
<1> QED BY <1>2, <1>3

\* The server implements the authority: its every step is, for each id, a step of the
\* one match played under it, or the loss of all of them with the process.
THEOREM Implements == Spec => ImplementsMatchAuthority
<1>1. Init => Authority!Init
  BY DEF Init, Authority!Init, MatchView, Lost, Authority!NoMatch
<1>2. Base /\ [Next]_vars => [Authority!Next]_MatchView
  <2> SUFFICES ASSUME Base, [Next]_vars PROVE Authority!Next
    OBVIOUS
  <2>1. CASE Restart
    BY <2>1, HaltStep DEF Authority!Next
  <2>2. CASE ~Restart
    BY <2>2, ViewStep DEF Authority!Next, MatchStep
  <2> QED BY <2>1, <2>2
<1> QED BY <1>1, <1>2, BaseAlways, PTL DEF Spec, ImplementsMatchAuthority, Authority!Spec
=============================================================================
