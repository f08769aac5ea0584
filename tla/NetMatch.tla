------------------------------ MODULE NetMatch ------------------------------
(***************************************************************************)
(* One lobby match from Start to its tombstone: the server's record of it, *)
(* the browser tabs of its two seats, the journal each seat keeps in       *)
(* localStorage, and the network between them.  Requests are delayed,      *)
(* reordered, lost before or after the server acted on them, and delivered *)
(* after the tab that sent them is gone; event streams break and           *)
(* reconnect; tabs are opened, closed and reloaded; the server restarts.   *)
(***************************************************************************)
EXTENDS NetTab, Bags

CONSTANTS
  Host, Guest, Level, Content,   \* what Start pinned
  PlayerTabs, EnemyTabs,         \* the tabs each seat may open
  Unreliable,  \* what may fail: subset of {"post", "read", "stream", "wire", "leave", "server"}
  UserActs,    \* what users may choose: subset of {"unmount", "resign", "leave"}
  MaxMoves,    \* bound: moves of the match
  MaxEntries,  \* bound: times a tab is opened
  MaxFaults    \* bound: failures of the network and the server

Tabs == PlayerTabs \cup EnemyTabs
SeatOf(t) == IF t \in PlayerTabs THEN "player" ELSE "enemy"

ASSUME MatchAssumption ==
  /\ {Host, Guest} \subseteq Users /\ Host # Guest
  /\ Level \in Levels /\ Content \in Contents \ TimedContents
ASSUME TabsAssumption == PlayerTabs \cap EnemyTabs = {} /\ None \notin Tabs
ASSUME MatchBoundsAssumption ==
  {MaxMoves, MaxEntries, MaxFaults} \subseteq Nat /\ Intents \subseteq Nat

VARIABLES
  lobby,     \* the server's record, or None once it is gone
  tabs,      \* the tabs
  journal,   \* seat -> the intent journaled in localStorage, or None
  posts,     \* POSTs of moves: on the wire, answered, or being checked
  wire,      \* bag of the reports and resignations on the wire
  leaves,    \* Leave requests
  issued,    \* intent ids handed out
  entries,   \* times a tab was opened
  faults,    \* failures so far
  conceded   \* history: seats whose user gave up an undecided match

server == <<lobby>>
client == <<tabs, journal, issued, entries, conceded>>
network == <<posts, wire, leaves>>
vars == <<lobby, tabs, journal, posts, wire, leaves, issued, entries, faults, conceded>>

\* A tab that is gone waits for no answer: only its requests are left.
Posts ==
  [tab: Tabs, move: Moves, retry: BOOLEAN, gate: BOOLEAN, floor: Nat,
   stage: {"sent", "accepted", "refused", "checking"}]
    \cup [tab: {None}, move: Moves, retry: BOOLEAN, gate: {FALSE}, floor: {0}, stage: {"sent"}]

Wire == [kind: {"report"}, side: Sides, report: Reports] \cup [kind: {"resign"}, side: Sides]

Leaves ==
  [tab: Tabs \cup {None}, side: Sides, completion: Reports \cup {None},
   stage: {"sent", "done", "refused"}]

TypeOK ==
  /\ lobby \in Lobby \cup {None}
  /\ tabs \in [Tabs -> Tab]
  /\ journal \in [Sides -> Moves \cup {None}]
  /\ posts \subseteq Posts
  /\ IsABag(wire) /\ BagToSet(wire) \subseteq Wire
  /\ leaves \subseteq Leaves
  /\ issued \in Nat /\ entries \in Nat /\ faults \in Nat
  /\ conceded \subseteq Sides

StartedMatch ==
  PinMatch([SeatGuest(NewLobby(Host), Guest) EXCEPT !.levelId = Level], Content)

Init ==
  /\ lobby = StartedMatch
  /\ tabs = [t \in Tabs |-> Away]
  /\ journal = [s \in Sides |-> None]
  /\ posts = {} /\ wire = EmptyBag /\ leaves = {}
  /\ issued = 0 /\ entries = 0 /\ faults = 0
  /\ conceded = {}

----------------------------------------------------------------------------
(* Views, faults, frames *)

View(t) == [tab |-> tabs[t], journal |-> journal[SeatOf(t)]]

ReportsOf(t, reports) == [kind: {"report"}, side: {SeatOf(t)}, report: reports]

\* Store what became of a tab and send the reports it owes.
Install(t, v, repeated) ==
  /\ tabs' = [tabs EXCEPT ![t] = v.tab]
  /\ journal' = [journal EXCEPT ![SeatOf(t)] = v.journal]
  /\ wire' = wire (+) SetToBag(ReportsOf(t, repeated))
                   (+) SetToBag(ReportsOf(t, DueReports(tabs[t], v.tab)))

Fault(kind) == kind \in Unreliable /\ faults < MaxFaults /\ faults' = faults + 1

\* An answer to a backfill: the log as of some moment since it held `floor` moves.
Fetched(t, floor, k) ==
  /\ lobby # None
  /\ k \in floor..Len(lobby.moves)
  /\ UNCHANGED faults

MovesUpTo(t, k) == SubSeq(lobby.moves, Count(tabs[t]) + 1, k)

\* The backfill fails: the network does, or the lobby is gone (404).
NotFetched == (lobby = None /\ UNCHANGED faults) \/ Fault("read")

\* broadcastToLobby
Broadcast(frame) ==
  tabs' = [t \in Tabs |-> IF tabs[t].streaming THEN [tabs[t] EXCEPT !.inbox = Append(@, frame)]
                          ELSE tabs[t]]

BroadcastState(l) == Broadcast([kind |-> "lobby", seen |-> Snapshot(l)])

----------------------------------------------------------------------------
(* Opening and closing tabs *)

Enter(t) ==
  /\ tabs[t].mode = "away"
  /\ lobby # None
  /\ entries < MaxEntries
  /\ tabs' = [tabs EXCEPT ![t] = Entering(Snapshot(lobby))]
  /\ entries' = entries + 1
  /\ UNCHANGED <<lobby, journal, posts, wire, leaves, issued, faults, conceded>>

LeaseFree(t) == \A u \in Tabs \ {t} : SeatOf(u) = SeatOf(t) => ~tabs[u].lease

\* Mutant: the lease is granted to every tab.
TakeSeat_Shared(t) ==
  /\ tabs[t].mode = "entering"
  /\ tabs' = [tabs EXCEPT ![t] = NewNetMatch(@, journal[SeatOf(t)], TRUE)]
  /\ UNCHANGED <<server, network, journal, issued, entries, faults, conceded>>

\* acquireNetSeatLease and newNetMatch.
TakeSeat(t) ==
  /\ tabs[t].mode = "entering"
  /\ tabs' = [tabs EXCEPT ![t] = NewNetMatch(@, journal[SeatOf(t)], LeaseFree(t))]
  /\ UNCHANGED <<server, network, journal, issued, entries, faults, conceded>>

CatchUp(t) ==
  /\ tabs[t].mode = "catching"
  /\ LET floor == tabs[t].seen.count
     IN \/ \E k \in 0..MaxMoves :
             /\ Fetched(t, floor, k)
             /\ LET v == ApplyMoves(View(t), SeatOf(t), MovesUpTo(t, k))
                IN Install(t, CaughtUp(v, Count(v.tab) >= floor), {})
        \/ NotFetched /\ Install(t, CaughtUp(View(t), floor = 0), {})
  /\ UNCHANGED <<server, posts, leaves, issued, entries, conceded>>

\* Requests on the wire outlive the tab; answers to it do not.
Orphans(t, requests) ==
  {r \in requests : r.tab # t}
    \cup {[r EXCEPT !.tab = None] : r \in {q \in requests : q.tab = t /\ q.stage = "sent"}}

\* A reload or a closed tab: the effect is cleaned up and no continuation runs any more.
\* The journal stays.
Unmount(t) ==
  /\ "unmount" \in UserActs
  /\ tabs[t].mode # "away"
  /\ tabs' = [tabs EXCEPT ![t] = Away]
  /\ posts' = Orphans(t, posts)
  /\ leaves' = Orphans(t, leaves)
  /\ UNCHANGED <<server, journal, wire, issued, entries, faults, conceded>>

----------------------------------------------------------------------------
(* The event stream *)

Connect(t) ==
  /\ tabs[t].mode = "live" /\ ~tabs[t].streaming
  /\ lobby # None
  /\ tabs' = [tabs EXCEPT ![t].streaming = TRUE,
                          ![t].inbox = Append(@, [kind |-> "lobby", seen |-> Snapshot(lobby)])]
  /\ UNCHANGED <<server, network, journal, issued, entries, faults, conceded>>

\* The connection breaks; EventSource reconnects (Connect).
Interrupt(t) ==
  /\ tabs[t].streaming
  /\ Fault("stream")
  /\ tabs' = [tabs EXCEPT ![t].streaming = FALSE, ![t].inbox = <<>>]
  /\ UNCHANGED <<server, network, journal, issued, entries, conceded>>

Receive(t) ==
  /\ tabs[t].inbox # <<>>
  /\ LET frame == Head(tabs[t].inbox)
         v == [View(t) EXCEPT !.tab.inbox = Tail(@)]
     IN IF frame.kind = "move" THEN Install(t, ApplyRelay(v, SeatOf(t), frame.event), {})
        ELSE LET w == OnLobby(v, frame.seen)
             IN Install(t, w, IF v.tab.halted \/ NeedsRead(v.tab, frame.seen) THEN {}
                              ELSE RepeatedReports(w.tab, frame.seen))
  /\ UNCHANGED <<server, posts, leaves, issued, entries, faults, conceded>>

\* A backfill started by a frame or a gap comes back.
ReadReturns(t) ==
  /\ \E r \in tabs[t].reads :
       LET v == [View(t) EXCEPT !.tab.reads = @ \ {r}]
           After(w, fetched) ==
             IF r.seen = None THEN Install(t, w, {})
             ELSE LET x == Continue(w, r.seen, fetched)
                  IN Install(t, x, RepeatedReports(x.tab, r.seen))
       IN \/ \E k \in 0..MaxMoves :
               Fetched(t, r.floor, k) /\ After(ApplyMoves(v, SeatOf(t), MovesUpTo(t, k)), TRUE)
          \/ NotFetched /\ After(v, FALSE)
  /\ UNCHANGED <<server, posts, leaves, issued, entries, conceded>>

----------------------------------------------------------------------------
(* Moves *)

Post(t, move, retry) ==
  [tab |-> t, move |-> move, retry |-> retry, gate |-> FALSE, floor |-> 0, stage |-> "sent"]

MaySubmit(t) ==
  LET tab == tabs[t]
  IN /\ tab.mode \in {"catching", "live"} /\ HasSink(tab)
     /\ tab.pending = None /\ ~Decided(tab) /\ Turn(tab) = SeatOf(t)
     /\ Count(tab) < MaxMoves

\* localStorage is not atomic across tabs: what another interactive tab of the seat is
\* writing may be missed.
JournalSeen(t) ==
  {journal[SeatOf(t)]} \cup {None : u \in {u \in Tabs \ {t} : SeatOf(u) = SeatOf(t) /\ tabs[u].lease}}

\* submitNetMove: an intent journaled for this slot or a later one is restored and
\* retried instead of the new gesture.
Submit(t, g) ==
  \E durable \in JournalSeen(t) :
    LET s == SeatOf(t)
        n == Count(tabs[t])
        claimed == durable # None /\ durable.i >= n
        intent == IF claimed THEN durable
                  ELSE [i |-> n, side |-> s, intentId |-> issued + 1, gesture |-> g]
    IN /\ MaySubmit(t)
       /\ g \in Playable[s]
       /\ claimed \/ issued + 1 \in Intents
       /\ issued' = IF claimed THEN issued ELSE issued + 1
       /\ journal' = [journal EXCEPT ![s] = intent]
       /\ tabs' = [tabs EXCEPT ![t].pending = intent, ![t].uncertain = claimed]
       /\ posts' = IF intent.i = n THEN posts \cup {Post(t, intent, FALSE)} ELSE posts
       /\ UNCHANGED <<server, wire, leaves, entries, faults, conceded>>

\* Mutant: the answer is kept for a tab that is gone.
Answer_ToNobody(p, stage, gate) == (posts \ {p}) \cup {[p EXCEPT !.stage = stage, !.gate = gate]}

\* What the tab hears of its POST; nobody listens to an orphan's answer.
Answer(p, stage, gate) ==
  (posts \ {p}) \cup {q \in {[p EXCEPT !.stage = stage, !.gate = gate]} : p.tab # None}

Repeats(p) ==
  lobby # None /\ IdenticalIntent(lobby, p.move.side, p.move.i, p.move.intentId, p.move.gesture)

Relays(p) ==
  /\ lobby # None
  /\ ~KnownIntent(lobby, p.move.intentId)
  /\ MayRelay(lobby, p.move.side, p.move.i)

ResultGate ==
  /\ lobby # None /\ lobby.phase = "started" /\ lobby.result = None
  /\ RelayClosed(Snapshot(lobby))

ServePost(p) ==
  /\ p \in posts /\ p.stage = "sent"
  /\ \/ /\ Relays(p)
        /\ lobby' = Relay(lobby, p.move.side, p.move.intentId, p.move.gesture)
        /\ Broadcast([kind |-> "move", event |-> p.move])
        /\ posts' = Answer(p, "accepted", FALSE)
     \/ /\ Repeats(p)
        /\ posts' = Answer(p, "accepted", FALSE)
        /\ UNCHANGED <<lobby, tabs>>
     \/ /\ ~Relays(p) /\ ~Repeats(p)
        /\ posts' = Answer(p, "refused", ResultGate)
        /\ UNCHANGED <<lobby, tabs>>
  /\ UNCHANGED <<journal, wire, leaves, issued, entries, faults, conceded>>

\* A lost request that nobody waits for any more.
LosePost(p) ==
  /\ p \in posts /\ p.tab = None
  /\ posts' = posts \ {p}
  /\ UNCHANGED <<server, client, wire, leaves, faults>>

\* The tab gives up on the answer; the request may still arrive.
PostFails(p) ==
  /\ p \in posts /\ p.tab # None /\ p.stage # "checking"
  /\ Fault("post")
  /\ posts' = (posts \ {p})
                \cup (IF p.stage = "sent" THEN {Post(None, p.move, FALSE)} ELSE {})
                \cup {q \in {[p EXCEPT !.stage = "checking", !.gate = FALSE,
                              !.floor = IF lobby = None THEN 0 ELSE Len(lobby.moves)]} :
                        p.retry \/ BelongsToThisMatch(tabs[p.tab])}
  /\ UNCHANGED <<server, client, wire, leaves>>

\* The answer arrives: the relay event, or a refusal that sends the tab to the log.
PostAnswered(p) ==
  /\ p \in posts /\ p.tab # None
  /\ \/ /\ p.stage = "accepted"
        /\ LET v == ApplyRelay(View(p.tab), SeatOf(p.tab), p.move)
           IN Install(p.tab, IF p.retry THEN [v EXCEPT !.tab = RetryEnded(@, p.move, FALSE)] ELSE v, {})
        /\ posts' = posts \ {p}
     \/ /\ p.stage = "refused"
        /\ posts' = (posts \ {p})
             \cup {q \in {[p EXCEPT !.stage = "checking",
                           !.floor = IF lobby = None THEN 0 ELSE Len(lobby.moves)]} :
                     p.retry \/ BelongsToThisMatch(tabs[p.tab])}
        /\ UNCHANGED <<tabs, journal, wire>>
  /\ UNCHANGED <<server, leaves, issued, entries, faults, conceded>>

\* The backfill after a failed POST comes back.
CheckReturns(p) ==
  /\ p \in posts /\ p.stage = "checking"
  /\ LET After(v, fetched) ==
           Install(p.tab, [v EXCEPT !.tab = IF p.retry THEN RetryEnded(@, p.move, p.gate)
                                            ELSE FirstChecked(@, p.move, fetched, p.gate)], {})
     IN \/ \E k \in 0..MaxMoves :
             Fetched(p.tab, p.floor, k)
               /\ After(ApplyMoves(View(p.tab), SeatOf(p.tab), MovesUpTo(p.tab, k)), TRUE)
        \/ NotFetched /\ After(View(p.tab), FALSE)
  /\ posts' = posts \ {p}
  /\ UNCHANGED <<server, leaves, issued, entries, conceded>>

\* The recovery timer: the same intent again, if it is still the unresolved one.
RetryTimer(t, move) ==
  LET tab == tabs[t]
      current == BelongsToThisMatch(tab) /\ tab.pending = move /\ tab.uncertain
  IN /\ move \in tab.retrying
     /\ ~\E p \in posts : p.tab = t /\ p.retry /\ p.move = move
     /\ posts' = IF current THEN posts \cup {Post(t, move, TRUE)} ELSE posts
     /\ tabs' = IF current THEN tabs ELSE [tabs EXCEPT ![t].retrying = @ \ {move}]
     /\ UNCHANGED <<server, journal, wire, leaves, issued, entries, faults, conceded>>

----------------------------------------------------------------------------
(* Reports and resignations *)

\* Bound: a seat has one resignation on the wire at a time.
Resign(t) ==
  /\ "resign" \in UserActs
  /\ [kind |-> "resign", side |-> SeatOf(t)] \notin BagToSet(wire)
  /\ tabs[t].mode \in {"catching", "live"} /\ tabs[t].lease /\ ~Decided(tabs[t])
  /\ wire' = wire (+) SetToBag({[kind |-> "resign", side |-> SeatOf(t)]})
  /\ conceded' = conceded \cup {SeatOf(t)}
  /\ UNCHANGED <<server, tabs, journal, posts, leaves, issued, entries, faults>>

\* What the server makes of a report or a resignation.
WireEffect(l, m) ==
  CASE m.kind = "resign" /\ l.phase = "started" -> Publish(l, Resignation(m.side))
    [] m.kind = "report" /\ IsStartedLifecycle(l) /\ ExactPrefix(l, m.report) ->
         RecordReport(l, m.side, m.report)
    [] OTHER -> l

ServeWire(m) ==
  /\ m \in BagToSet(wire)
  /\ wire' = wire (-) SetToBag({m})
  /\ IF lobby # None /\ WireEffect(lobby, m) # lobby
     THEN lobby' = WireEffect(lobby, m) /\ BroadcastState(lobby')
     ELSE UNCHANGED <<lobby, tabs>>
  /\ UNCHANGED <<journal, posts, leaves, issued, entries, faults, conceded>>

LoseWire(m) ==
  /\ m \in BagToSet(wire)
  /\ Fault("wire")
  /\ wire' = wire (-) SetToBag({m})
  /\ UNCHANGED <<server, client, posts, leaves>>

----------------------------------------------------------------------------
(* Leaving *)

\* Mutant: leaving never names the finished game.
Completion_Never(tab) == None

\* A finished board is left with its report, not as a concession.
Completion(tab) == IF tab.terminal # None /\ ~tab.disputed THEN TerminalReport(tab) ELSE None

\* The way out is offered with the result; in a dispute it is confirmed as a concession.
Leave(t) ==
  /\ "leave" \in UserActs
  /\ Decided(tabs[t]) /\ tabs[t].lease
  /\ ~\E q \in leaves : q.tab = t
  /\ leaves' = leaves \cup {[tab |-> t, side |-> SeatOf(t), stage |-> "sent",
                             completion |-> Completion(tabs[t])]}
  /\ conceded' = IF tabs[t].disputed THEN conceded \cup {SeatOf(t)} ELSE conceded
  /\ UNCHANGED <<server, tabs, journal, posts, wire, issued, entries, faults>>

\* The lobby after the request, and whether it was granted.
LeaveServed(l, q) ==
  LET done(k) == [granted |-> TRUE, lobby |-> Depart(k, q.side)]
      reported == RecordReport(l, q.side, q.completion)
  IN CASE q.completion = None -> done(Concede(l, q.side))
       [] q.completion # None /\ ExactPrefix(l, q.completion) ->
            IF ReportAccepted(l, q.side, q.completion) THEN done(reported)
            ELSE [granted |-> FALSE, lobby |-> reported]
       [] OTHER -> [granted |-> FALSE, lobby |-> l]

AnswerLeave(q, stage) ==
  (leaves \ {q}) \cup {r \in {[q EXCEPT !.stage = stage]} : q.tab # None}

\* The report or the concession and the departure each send a frame; both carry the same
\* snapshot and one stands for them.  It goes out before deleteLobbyRecord ends the streams.
ServeLeave(q) ==
  /\ q \in leaves /\ q.stage = "sent"
  /\ IF lobby = None THEN leaves' = AnswerLeave(q, "done") /\ UNCHANGED <<lobby, tabs>>
     ELSE LET r == LeaveServed(lobby, q)
              ends == BothSeatsDeparted(r.lobby)
              frame == [kind |-> "lobby", seen |-> Snapshot(r.lobby)]
          IN /\ leaves' = AnswerLeave(q, IF r.granted THEN "done" ELSE "refused")
             /\ lobby' = IF ends THEN None ELSE r.lobby
             /\ tabs' = [t \in Tabs |->
                  IF tabs[t].streaming /\ r.lobby # lobby
                  THEN [tabs[t] EXCEPT !.inbox = Append(@, frame), !.streaming = ~ends]
                  ELSE tabs[t]]
  /\ UNCHANGED <<journal, posts, wire, issued, entries, faults, conceded>>

\* The request or its answer is lost; the tab stays in the match.
LeaveFails(q) ==
  /\ q \in leaves
  /\ IF q.tab = None THEN leaves' = leaves \ {q} /\ UNCHANGED faults
     ELSE /\ Fault("leave")
          /\ leaves' = (leaves \ {q}) \cup
               (IF q.stage = "sent" THEN {[q EXCEPT !.tab = None]} ELSE {})
  /\ UNCHANGED <<server, client, posts, wire>>

\* An acknowledged Leave clears the journal and the session.
LeaveAnswered(q) ==
  /\ q \in leaves /\ q.tab # None /\ q.stage # "sent"
  /\ IF q.stage = "done"
     THEN /\ journal' = [journal EXCEPT ![q.side] = None]
          /\ tabs' = [tabs EXCEPT ![q.tab] = Away]
          /\ posts' = Orphans(q.tab, posts)
     ELSE UNCHANGED <<tabs, journal, posts>>
  /\ leaves' = leaves \ {q}
  /\ UNCHANGED <<server, wire, issued, entries, faults, conceded>>

\* The server is replaced: the lobby and every stream are gone.
Restart ==
  /\ lobby # None
  /\ Fault("server")
  /\ lobby' = None
  /\ tabs' = [t \in Tabs |-> [tabs[t] EXCEPT !.streaming = FALSE]]
  /\ UNCHANGED <<journal, posts, wire, leaves, issued, entries, conceded>>

----------------------------------------------------------------------------
(* The match, and what its scheduling guarantees *)

Served(t) == \E p \in posts : p.tab = t /\ ServePost(p)
Answered(t) == \E p \in posts : p.tab = t /\ PostAnswered(p)
Checked(t) == \E p \in posts : p.tab = t /\ CheckReturns(p)
Retries(t) == \E move \in tabs[t].retrying : RetryTimer(t, move)
WireServed == \E m \in BagToSet(wire) : ServeWire(m)

Next ==
  \/ \E t \in Tabs :
       \/ Enter(t) \/ Unmount(t) \/ Resign(t) \/ Leave(t)
       \/ \E g \in Gestures : Submit(t, g)
       \/ TakeSeat(t) \/ CatchUp(t) \/ Connect(t) \/ Receive(t) \/ ReadReturns(t)
       \/ Retries(t) \/ Interrupt(t)
  \/ \E p \in posts :
       ServePost(p) \/ PostAnswered(p) \/ CheckReturns(p) \/ PostFails(p) \/ LosePost(p)
  \/ \E m \in BagToSet(wire) : ServeWire(m) \/ LoseWire(m)
  \/ \E q \in leaves : ServeLeave(q) \/ LeaveAnswered(q) \/ LeaveFails(q)
  \/ Restart

Spec == Init /\ [][Next]_vars

\* The event loop, the timers, EventSource and the server all make progress; a user
\* need not do anything and a failure need not happen.  Requests that nobody waits
\* for may stay on the wire for ever.
Fairness ==
  /\ \A t \in Tabs :
       /\ WF_vars(TakeSeat(t)) /\ WF_vars(CatchUp(t)) /\ WF_vars(Connect(t))
       /\ WF_vars(Receive(t)) /\ WF_vars(ReadReturns(t)) /\ WF_vars(Retries(t))
       /\ WF_vars(Served(t)) /\ WF_vars(Answered(t)) /\ WF_vars(Checked(t))
  /\ WF_vars(WireServed)

FairSpec == Spec /\ Fairness

----------------------------------------------------------------------------
(* Safety *)

\* Every board a tab shows is a prefix of the server's log, whatever the order in which
\* frames, answers and backfills reach it (applyRelayMove).
BoardsArePrefixes ==
  lobby # None => \A t \in Tabs : IsPrefix(tabs[t].board, lobby.moves)

\* A move request that the server could still accept is the one its seat has in the
\* journal, even after the tab that sent it is gone: no later gesture can race it
\* (submitNetMove, the journal and the seat lease).
InFlightIsJournaled ==
  \A p \in posts : p.stage = "sent" /\ Relays(p) => journal[p.move.side] = p.move

\* A tab shows the published result, and only on the complete log, unless it stopped
\* following a match its build cannot play (onLobby, concludeNet).
ConclusionHasPrefix ==
  lobby # None =>
    \A t \in Tabs : tabs[t].verdict # None =>
      /\ tabs[t].verdict = lobby.result
      /\ tabs[t].halted \/ tabs[t].board = lobby.moves

\* A seat is resigned only by a user who confirmed it, never by the way out of a game
\* that ended on the board (returnToLobbies and the Leave handler).
ConcessionIsDeliberate ==
  lobby # None => \A s \in Sides : lobby.result = Resignation(s) => s \in conceded

----------------------------------------------------------------------------
(* Liveness *)

\* A gesture that is under way in an open match is settled: by its echo, by another
\* outcome of its slot, or by the freeze that ends the relay (scheduleUncertainRecovery).
IntentSettles ==
  \A t \in Tabs :
    (tabs[t].mode = "live" /\ tabs[t].lease /\ tabs[t].pending # None)
      ~> (tabs[t].pending = None \/ tabs[t].mode = "away" \/ tabs[t].frozen \/ lobby = None)

Behind(t) ==
  /\ lobby # None
  /\ tabs[t].mode = "live" /\ ~tabs[t].halted /\ ~Decided(tabs[t])
  /\ Count(tabs[t]) < Len(lobby.moves)

\* "A stream/network interruption is not resignation; reconnect and backfill recover
\* state" (docs/multiplayer-contract.md): a board that fell behind catches up.
BoardCatchesUp == \A t \in Tabs : Behind(t) ~> ~Behind(t)

\* Both seats show the same end of the game on the complete log.
BothFinished ==
  /\ lobby # None
  /\ \A s \in Sides : \E t \in Tabs :
       /\ SeatOf(t) = s /\ tabs[t].mode = "live" /\ tabs[t].lease
       /\ tabs[t].terminal # None /\ Count(tabs[t]) = Len(lobby.moves)

\* When both seats reach the end of the game, the server comes to a result or a dispute
\* and both learn of it, though a report is lost (the report effect and its repetition).
ResultConfirmed ==
  BothFinished ~>
    \/ ~BothFinished
    \/ lobby.resultDisputed
    \/ lobby.result # None /\ \A t \in Tabs : tabs[t].mode = "live" => tabs[t].verdict = lobby.result
=============================================================================
