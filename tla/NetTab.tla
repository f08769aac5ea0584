------------------------------- MODULE NetTab -------------------------------
(***************************************************************************)
(* One browser tab of a lobby match: the `net` part of the game store and  *)
(* the multiplayer effect of the play screen, as operators from a view (a  *)
(* tab and its seat's journal slot) to a view.  NetMatch decides when each *)
(* of them runs.                                                           *)
(*                                                                         *)
(* A gesture stands for piece, destination and promotion.  A move intent,  *)
(* its journal entry, its POST body and its relay event carry the same     *)
(* four values, so all four are members of Moves.  Chess is reduced to     *)
(* what a build makes of a gesture: whether it can play it at all and      *)
(* whether the position it reaches is over.                                *)
(***************************************************************************)
EXTENDS LobbyRecord, SequencesExt



CONSTANTS
  Playable,   \* Playable[s]: the gestures the build of seat s can play
  Verdict     \* Verdict[s][g]: what that build adjudicates after g, or None

ASSUME PlayableAssumption == Playable \in [Sides -> SUBSET Gestures]
ASSUME VerdictAssumption == Verdict \in [Sides -> [Gestures -> Outcomes \cup {None}]]

\* publicLobby, as far as a tab looks at it.
Snapshots ==
  [count: Nat, result: Results \cup {None}, reported: BOOLEAN, disputed: BOOLEAN]

Snapshot(l) ==
  [count |-> Len(l.moves), result |-> l.result,
   reported |-> l.result = None /\ ~l.resultDisputed /\ AnyReport(l),
   disputed |-> l.result = None /\ l.resultDisputed]

RelayClosed(seen) == seen.result # None \/ seen.reported \/ seen.disputed

\* A backfill under way: for a lobby frame, or (None) for a gap before a move.  The
\* log held at least `floor` moves when it was asked for.
Reads == [floor: Nat, seen: Snapshots \cup {None}]

Frames == [kind: {"move"}, event: Moves] \cup [kind: {"lobby"}, seen: Snapshots]

Tab ==
  [mode: {"away", "entering", "catching", "live"}, seen: Snapshots \cup {None},
   lease: BOOLEAN, board: Seq(Moves), pending: Moves \cup {None}, uncertain: BOOLEAN,
   retrying: SUBSET Moves, frozen: BOOLEAN, halted: BOOLEAN, disputed: BOOLEAN,
   terminal: Outcomes \cup {None}, verdict: Results \cup {None},
   reads: SUBSET Reads, inbox: Seq(Frames), streaming: BOOLEAN]

Away ==
  [mode |-> "away", seen |-> None, lease |-> FALSE, board |-> <<>>, pending |-> None,
   uncertain |-> FALSE, retrying |-> {}, frozen |-> FALSE, halted |-> FALSE,
   disputed |-> FALSE, terminal |-> None, verdict |-> None, reads |-> {},
   inbox |-> <<>>, streaming |-> FALSE]

----------------------------------------------------------------------------
(* Reading a tab *)

Count(tab) == Len(tab.board)

Turn(tab) == IF Count(tab) % 2 = 0 THEN "player" ELSE "enemy"

\* game.winner
Decided(tab) == tab.terminal # None \/ tab.verdict # None

\* The session epoch moves on when the game is decided.
BelongsToThisMatch(tab) == tab.mode \in {"catching", "live"} /\ ~Decided(tab)

AwaitsSlot(tab) == tab.pending # None /\ tab.pending.i = Count(tab)

\* The move sink is set by the lease holder and removed by the first freeze.
HasSink(tab) == tab.lease /\ ~tab.frozen

TerminalReport(tab) == [expectedMoveCount |-> Count(tab), outcome |-> tab.terminal]

\* What the report effect sends when terminalResult or the dispute flag changed.
DueReports(before, after) ==
  {TerminalReport(x) : x \in {y \in {after} :
     /\ y.terminal # None /\ y.lease /\ ~y.disputed
     /\ <<y.terminal, y.disputed>> # <<before.terminal, before.disputed>>}}

----------------------------------------------------------------------------
(* The store *)

\* clearPersistedNetIntent(lobbyId, intentId)
Settle(journal, intent) ==
  IF journal # None /\ intent # None /\ journal.intentId = intent.intentId THEN None ELSE journal

\* freezeRelayInput
Freeze(tab) == [tab EXCEPT !.frozen = TRUE, !.retrying = {}]

\* scheduleUncertainRecovery
Schedule(tab, intent) ==
  IF tab.lease /\ ~tab.halted /\ ~tab.frozen
  THEN [tab EXCEPT !.retrying = @ \cup {intent}] ELSE tab

MarkUncertain(tab, intent) ==
  IF tab.pending # None /\ tab.pending.i = intent.i THEN [tab EXCEPT !.uncertain = TRUE] ELSE tab

\* commitNet
Commit(v, s, e) ==
  LET tab == v.tab
      clears == AwaitsSlot(tab)
  IN [tab |-> [tab EXCEPT !.board = Append(@, e),
                          !.pending = IF clears THEN None ELSE @,
                          !.uncertain = @ /\ ~clears,
                          !.terminal = Verdict[s][e.gesture]],
      journal |-> IF clears THEN Settle(v.journal, tab.pending) ELSE v.journal]

\* Mutant: any later move is taken for the next one.
ApplyRelay_Gapless(v, s, e) ==
  LET tab == v.tab
  IN CASE ~BelongsToThisMatch(tab) \/ tab.halted \/ e.i < Count(tab) -> v
       [] OTHER ->
            IF e.gesture \in Playable[s] THEN Commit(v, s, e)
            ELSE [v EXCEPT !.tab = Freeze([tab EXCEPT !.halted = TRUE])]

\* applyRelayMove: only the next move counts; an earlier one is a duplicate, a later
\* one starts a backfill, and one this build cannot play halts the tab.
ApplyRelay(v, s, e) ==
  LET tab == v.tab
  IN CASE ~BelongsToThisMatch(tab) \/ tab.halted \/ e.i < Count(tab) -> v
       [] e.i > Count(tab) ->
            [v EXCEPT !.tab.reads = @ \cup {[floor |-> e.i + 1, seen |-> None]}]
       [] OTHER ->
            IF e.gesture \in Playable[s] /\ e.side = Turn(tab) THEN Commit(v, s, e)
            ELSE [v EXCEPT !.tab = Freeze([tab EXCEPT !.halted = TRUE])]

ApplyMoves(v, s, events) == FoldLeft(LAMBDA w, e : ApplyRelay(w, s, e), v, events)

\* concludeNet: the first published result stands.
Conclude(v, result) ==
  LET tab == v.tab
  IN CASE tab.verdict # None -> v
       [] tab.verdict = None /\ tab.terminal # None
            /\ tab.terminal.winner = result.winner /\ result.reason # "resign" ->
            [v EXCEPT !.tab.verdict = result]
       [] OTHER ->
            [tab |-> [tab EXCEPT !.verdict = result, !.pending = None, !.uncertain = FALSE,
                                 !.terminal = IF result.reason = "resign" THEN None ELSE @],
             journal |-> Settle(v.journal, tab.pending)]

----------------------------------------------------------------------------
(* Entering: fetchLobby, seat lease, newNetMatch, backfill *)

Entering(seen) ==
  [Away EXCEPT !.mode = "entering", !.seen = seen, !.frozen = RelayClosed(seen),
               !.disputed = seen.disputed]

\* newNetMatch, with the lease if no other tab of the seat holds it.
NewNetMatch(tab, journal, leased) ==
  [tab EXCEPT !.mode = "catching", !.lease = leased, !.pending = journal,
              !.uncertain = journal # None]

\* After the initial backfill, synchronized or not with the fetched lobby.
CaughtUp(v, synchronized) ==
  LET seen == v.tab.seen
      live == [v EXCEPT !.tab.mode = "live", !.tab.seen = None]
      concluded == IF seen.result # None /\ synchronized THEN Conclude(live, seen.result) ELSE live
  IN IF ~RelayClosed(seen) /\ synchronized /\ AwaitsSlot(concluded.tab)
     THEN [concluded EXCEPT !.tab = Schedule(@, @.pending)] ELSE concluded

----------------------------------------------------------------------------
(* Lobby frames *)

\* Mutant: a terminal frame is applied before its moves.
Continue_Unsynchronized(v, seen, fetched) ==
  IF seen.result # None THEN Conclude(v, seen.result) ELSE v

\* The part of onLobby after its backfill: retry a restored intent, conclude only
\* with the complete prefix.
Continue(v, seen, fetched) ==
  LET synchronized == fetched /\ Count(v.tab) >= seen.count
      rearm == /\ synchronized /\ ~seen.reported /\ ~seen.disputed
               /\ v.tab.uncertain /\ AwaitsSlot(v.tab)
      armed == IF rearm THEN [v EXCEPT !.tab = Schedule(@, @.pending)] ELSE v
  IN IF seen.result # None /\ synchronized THEN Conclude(armed, seen.result) ELSE armed

\* Mutant: a terminal report is sent once.
RepeatedReports_Once(tab, seen) == {}

\* ... and the report it repeats on every frame that does not reflect it yet.
RepeatedReports(tab, seen) ==
  IF seen.result = None /\ ~seen.disputed /\ tab.terminal # None /\ tab.lease
  THEN {TerminalReport(tab)} ELSE {}

\* Mutant: a board that is one move behind is taken for current.
NeedsRead_OffByOne(tab, seen) == ~tab.halted /\ seen.count > Count(tab) + 1

NeedsRead(tab, seen) == ~tab.halted /\ seen.count > Count(tab)

\* onLobby up to its first await.
Noticed(tab, seen) ==
  LET noted == [tab EXCEPT !.disputed = seen.disputed]
  IN IF RelayClosed(seen) \/ tab.halted THEN Freeze(noted) ELSE noted

\* A halted tab still learns of a resignation.
OnLobby(v, seen) ==
  LET w == [v EXCEPT !.tab = Noticed(@, seen)]
  IN CASE v.tab.halted ->
            IF seen.result # None /\ seen.result.reason = "resign" THEN Conclude(w, seen.result) ELSE w
       [] NeedsRead(v.tab, seen) ->
            [w EXCEPT !.tab.reads = @ \cup {[floor |-> seen.count, seen |-> seen]}]
       [] OTHER -> Continue(w, seen, TRUE)

----------------------------------------------------------------------------
(* After a failed POST and its backfill *)

\* Mutant: an unconfirmed intent is marked, and not retried.
FirstChecked_Silent(tab, intent, fetched, gate) ==
  LET concerned == IF fetched THEN tab.pending = intent ELSE BelongsToThisMatch(tab)
      marked == MarkUncertain(tab, intent)
  IN IF ~concerned THEN tab ELSE IF gate THEN Freeze(marked) ELSE marked

\* The sink's catch: the intent stays pending, and is retried or frozen.
FirstChecked(tab, intent, fetched, gate) ==
  LET concerned == IF fetched THEN tab.pending = intent ELSE BelongsToThisMatch(tab)
      marked == MarkUncertain(tab, intent)
  IN IF ~concerned THEN tab
     ELSE IF gate THEN Freeze(marked) ELSE Schedule(marked, intent)

\* The end of a retry: the same intent is armed again while it is unresolved.
RetryEnded(tab, intent, gate) ==
  LET ended == [IF gate THEN Freeze(tab) ELSE tab EXCEPT !.retrying = @ \ {intent}]
  IN IF BelongsToThisMatch(ended) /\ ended.pending = intent THEN Schedule(ended, intent) ELSE ended
=============================================================================
