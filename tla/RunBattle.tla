----------------------------- MODULE RunBattle -----------------------------
(* One Battle of a Run, played alone: the Run's purse and casualties
   (board-render/src/run/model.ts), the board in the store of the mounted
   scene with one checkpoint per committed move (frontend/src/game/store.ts),
   and the copy of both that a page which reloads resumes
   (frontend/src/game/matchPersistence.ts).

   The Run and the saved board are two entries of the browser's storage that
   are written one after the other; Undo takes both back, and a page that comes
   back must find that they belong together.

   Chess is abstracted to what a move tells the Run: the gold it claims, the
   unit that dies, and whether it ends the Battle.  A board carries, besides
   what the code keeps, the gold its moves have claimed so far. *)
EXTENDS Integers, Sequences, FiniteSets, SequencesExt

CONSTANTS
  Units,        \* the player's units on the board
  NoUnit,
  None,
  Purses,       \* gold, in tenths, a Run may enter the Battle with
  Manubiae,     \* gold, in tenths, that a move may claim
  MaxMoves,     \* player moves ever made
  MaxReloads    \* times the page is reloaded or left

ASSUME NoUnitAssumption == NoUnit \notin Units
ASSUME GoldAssumption == Purses \cup Manubiae \subseteq Nat
ASSUME BoundAssumption == {MaxMoves, MaxReloads} \subseteq Nat

VARIABLES
  run,        \* the Run document, as localStorage holds it
  page,       \* is the battlefield mounted?
  match,      \* the board and the undo stack of the mounted store
  reply,      \* is the opponent's reply staged?
  departing,  \* the units are leaving the board for a new Deployment
  saved,      \* the match that localStorage holds
  timed,      \* does the Level have a clock?
  opening,    \* history: the purse when this attempt began
  undone,     \* history: Undos paid in this attempt
  unpaid,     \* history: did this attempt start over without Retry or reroll?
  moves, reloads

vars == <<run, page, match, reply, departing, saved, timed, opening, undone, unpaid, moves, reloads>>
history == <<opening, undone, unpaid>>

----------------------------------------------------------------------------
UndoCost == 10
RetryCost == 30
RerollCost == 50

Winners == {"none", "player", "enemy", "draw"}
Boards ==
  [turn : {"player", "enemy", "done"}, winner : Winners, rounds : Nat, dead : SUBSET Units, earned : Nat]
Checkpoints == [gold : Nat, dead : SUBSET Units, board : Boards]
Matches == [board : Boards, undo : Seq(Checkpoints)]

ASSUME NoneAssumption == None \notin Matches

OpeningBoard == [turn |-> "player", winner |-> "none", rounds |-> 0, dead |-> {}, earned |-> 0]
FreshMatch == [board |-> OpeningBoard, undo |-> <<>>]

Started == match # None
Fighting == page /\ run.phase = "battle" /\ Started

(* The board after a half-move, decided or with the other side to move. *)
Settled(board, winner, next) ==
  [board EXCEPT !.winner = winner, !.turn = IF winner = "none" THEN next ELSE "done"]

----------------------------------------------------------------------------
(* The saved copy. *)

\* What is left of a history of that length after some halvings.
Halvings(length) == {n \in 0..length : \E k \in 0..length : n = length \div (2^k)}

\* Mutant: the most recent half goes.
Kept_Oldest(stack, n) == SubSeq(stack, 1, n)

\* writeEnvelope: the n most recent checkpoints.
Kept(stack, n) == SubSeq(stack, Len(stack) - n + 1, Len(stack))

\* What a reload may come back to: a live board, a last move that can be bought
\* back, or a victory whose report can be reviewed.
Resumable(m) == m.board.winner \in {"none", "player"} \/ m.undo # <<>>

\* persistMatch: storage may refuse the write until enough of the history is gone.
PersistMatch(m) ==
  \/ /\ Resumable(m)
     /\ \E n \in Halvings(Len(m.undo)) : saved' = [m EXCEPT !.undo = Kept(@, n)]
  \/ ~Resumable(m) /\ saved' = None

\* newSkirmish
NewSkirmish ==
  /\ match' = FreshMatch
  /\ reply' = FALSE
  /\ PersistMatch(FreshMatch)

Begin(gold, paid) ==
  /\ opening' = gold
  /\ undone' = 0
  /\ unpaid' = ~paid

----------------------------------------------------------------------------
(* The Run's part of a commit. *)

\* captureRunBattleUndo, with the board it belongs to.
Checkpoint == [gold |-> run.gold, dead |-> run.dead, board |-> match.board]

\* payRunManubium and observeRunUnitDeath, for the board a move has produced.
TransformCommittedBoard(gold, board) ==
  run' = [run EXCEPT !.gold = @ + gold, !.dead = @ \cup board.dead]

\* Mutant: the older checkpoints restore the purse they recorded.
ChargeEarlier_Verbatim(checkpoint) == checkpoint

\* chargeRunBattleUndoCheckpoint
ChargeEarlier(checkpoint) ==
  [checkpoint EXCEPT !.gold = IF @ < UndoCost THEN 0 ELSE @ - UndoCost]

----------------------------------------------------------------------------
Init ==
  /\ run \in [phase : {"deployment"}, gold : Purses, dead : {{}}]
  /\ timed \in BOOLEAN
  /\ page = TRUE
  /\ match = None
  /\ saved = None
  /\ reply = FALSE
  /\ departing = FALSE
  /\ opening = run.gold
  /\ undone = 0
  /\ unpaid = FALSE
  /\ moves = 0
  /\ reloads = 0

\* beginBattle, and the layout effect that promotes the Deployment board.
BeginBattle ==
  /\ page
  /\ run.phase = "deployment"
  /\ run' = [run EXCEPT !.phase = "battle", !.dead = {}]
  /\ NewSkirmish
  /\ Begin(run.gold, TRUE)
  /\ UNCHANGED <<page, departing, timed, moves, reloads>>

\* commitPlayerMove: a move that claims `gold` and leaves the Battle to `winner`.
PlayerMove(gold, winner) ==
  /\ Fighting
  /\ ~departing
  /\ match.board.turn = "player"
  /\ moves < MaxMoves
  /\ LET board == Settled([match.board EXCEPT !.earned = @ + gold], winner, "enemy")
         next == [board |-> board, undo |-> Append(match.undo, Checkpoint)]
     IN /\ match' = next
        /\ TransformCommittedBoard(gold, board)
        /\ reply' = (winner = "none")
        /\ PersistMatch(next)
  /\ moves' = moves + 1
  /\ UNCHANGED <<page, departing, timed, history, reloads>>

\* The staged reply lands: `unit` falls, or none does.
EnemyReply(unit, winner) ==
  /\ Fighting
  /\ reply
  /\ unit \notin match.board.dead
  /\ LET board == Settled([match.board EXCEPT !.dead = @ \cup ({unit} \ {NoUnit}), !.rounds = @ + 1],
                          winner, "player")
         next == [match EXCEPT !.board = board]
     IN /\ match' = next
        /\ TransformCommittedBoard(0, board)
        /\ PersistMatch(next)
  /\ reply' = FALSE
  /\ UNCHANGED <<page, departing, timed, history, moves, reloads>>

\* expireClock: the player's flag falls.
FlagFalls ==
  /\ Fighting
  /\ timed
  /\ ~departing
  /\ match.board.turn = "player"
  /\ LET next == [match EXCEPT !.board = Settled(@, "enemy", "done")]
     IN match' = next /\ PersistMatch(next)
  /\ UNCHANGED <<run, page, reply, departing, timed, history, moves, reloads>>

\* undoLastPlayerMove, on the button's terms and canUndoRunBattleMove's.
UndoMove ==
  /\ Fighting
  /\ ~departing
  /\ match.board.winner \in {"none", "draw"}
  /\ match.undo # <<>>
  /\ LET checkpoint == Last(match.undo)
         older == Front(match.undo)
         next == [board |-> checkpoint.board, undo |-> [i \in DOMAIN older |-> ChargeEarlier(older[i])]]
     IN /\ checkpoint.gold >= UndoCost
        /\ run' = [run EXCEPT !.gold = checkpoint.gold - UndoCost, !.dead = checkpoint.dead]
        /\ match' = next
        /\ PersistMatch(next)
  /\ reply' = FALSE
  /\ undone' = undone + 1
  /\ UNCHANGED <<page, departing, timed, opening, unpaid, moves, reloads>>

\* restartBattle and replayLevel: Retry, after a round or on a decided board.
Restart ==
  /\ Fighting
  /\ ~departing
  /\ match.board.rounds > 0 \/ match.board.winner # "none"
  /\ run.gold >= RetryCost
  /\ run' = [run EXCEPT !.gold = @ - RetryCost, !.dead = {}]
  /\ NewSkirmish
  /\ Begin(run.gold - RetryCost, TRUE)
  /\ UNCHANGED <<page, departing, timed, moves, reloads>>

\* requestDeploymentReroll, and suspendForBoardDeparture of the mounted board.
RequestReroll ==
  /\ Fighting
  /\ ~departing
  /\ run.gold >= RerollCost
  /\ departing' = TRUE
  /\ match' = [match EXCEPT !.undo = <<>>]
  /\ reply' = FALSE
  /\ UNCHANGED <<run, page, saved, timed, history, moves, reloads>>

\* The units have left: rerollDeployment.
CompleteReroll ==
  /\ page
  /\ departing
  /\ departing' = FALSE
  /\ run' = [run EXCEPT !.phase = "deployment", !.gold = @ - RerollCost, !.dead = {}]
  /\ UNCHANGED <<page, match, reply, saved, timed, history, moves, reloads>>

\* closeBattle: the player leaves a won board for its report.
CloseBattle ==
  /\ Fighting
  /\ match.board.winner = "player"
  /\ run' = [run EXCEPT !.phase = "aftermath"]
  /\ UNCHANGED <<page, match, reply, departing, saved, timed, history, moves, reloads>>

\* The page goes, with or without a last pagehide, and its memory with it.
Reload ==
  /\ page
  /\ reloads < MaxReloads
  /\ reloads' = reloads + 1
  /\ \/ UNCHANGED saved
     \/ Started /\ PersistMatch(match)
  /\ page' = FALSE
  /\ match' = None
  /\ reply' = FALSE
  /\ departing' = FALSE
  /\ UNCHANGED <<run, timed, history, moves>>

\* Mutant: the reply the old page owed is forgotten.
ResumeMatch_Unstaged == match' = saved /\ reply' = FALSE

\* resumeMatch: the board that was saved, with the reply the old page owed.
ResumeMatch == match' = saved /\ reply' = (saved.board.turn = "enemy")

\* The page comes back to the Battle: startOrResume.
EnterBattle ==
  \/ /\ saved # None /\ Resumable(saved)
     /\ ResumeMatch
     /\ UNCHANGED <<saved, history>>
  \/ /\ ~(saved # None /\ Resumable(saved))
     /\ NewSkirmish
     /\ Begin(run.gold, FALSE)

Enter ==
  /\ ~page
  /\ page' = TRUE
  /\ \/ run.phase = "battle" /\ EnterBattle
     \/ run.phase # "battle" /\ UNCHANGED <<match, reply, saved, history>>
  /\ UNCHANGED <<run, departing, timed, moves, reloads>>

Next ==
  \/ BeginBattle
  \/ \E gold \in Manubiae, winner \in {"none", "player", "draw"} : PlayerMove(gold, winner)
  \/ \E unit \in (Units \cup {NoUnit}), winner \in Winners : EnemyReply(unit, winner)
  \/ FlagFalls
  \/ UndoMove
  \/ Restart
  \/ RequestReroll
  \/ CompleteReroll
  \/ CloseBattle
  \/ Reload
  \/ Enter

(* The opponent's search ends, the departing units arrive, and the player comes
   back.  Nothing makes the player move. *)
Fairness ==
  /\ WF_vars(\E unit \in (Units \cup {NoUnit}), winner \in Winners : EnemyReply(unit, winner))
  /\ WF_vars(CompleteReroll)
  /\ WF_vars(Enter)

Spec == Init /\ [][Next]_vars /\ Fairness

----------------------------------------------------------------------------
TypeOK ==
  /\ run \in [phase : {"deployment", "battle", "aftermath"}, gold : Nat, dead : SUBSET Units]
  /\ match \in Matches \cup {None}
  /\ saved \in Matches \cup {None}
  /\ {page, reply, departing, timed, unpaid} \subseteq BOOLEAN
  /\ {opening, undone, moves, reloads} \subseteq Nat

\* What the player should hold once the moves of a board have been played and
\* the Undos of this attempt have been paid.
Owed(board) == opening + board.earned - UndoCost * undone

(* The purse and the casualties of the Run are those of the board in front of
   the player, and each Undo left restores what would have been held there had
   every Undo of the attempt been paid before: however Undo, Retry, reroll and
   reloads are mixed, no move is paid twice, no Undo is refunded and no fallen
   unit stays fallen on a board where it stands (commitPlayerMove,
   undoLastPlayerMove, chargeRunBattleUndoCheckpoint, resumeMatch). *)
PurseFollowsBoard ==
  Fighting =>
    /\ run.gold = Owed(match.board)
    /\ match.board.dead \subseteq run.dead
    /\ unpaid \/ run.dead = match.board.dead
    /\ \A i \in DOMAIN match.undo :
         match.undo[i].gold = IF Owed(match.undo[i].board) < 0 THEN 0 ELSE Owed(match.undo[i].board)

(* One press takes back exactly the last decision of the player: the latest
   checkpoint is the board before the latest move, and each one below it is one
   round older, also after storage has made the page forget the oldest ones
   (commitPlayerMove, writeEnvelope). *)
UndoIsOneDecision ==
  Fighting =>
    LET Follows(later, earlier) ==
          /\ later.rounds - earlier.rounds \in {0, 1}
          /\ later.turn = "player" => later.rounds = earlier.rounds + 1
          /\ later.turn = "enemy" => later.rounds = earlier.rounds
    IN /\ \A i \in 1..(Len(match.undo) - 1) : Follows(match.undo[i + 1].board, match.undo[i].board)
       /\ match.undo # <<>> => Follows(match.board, Last(match.undo).board)

(* A board that waits for the opponent gets its reply, also when the page was
   reloaded while the opponent was thinking, or the player gave the position up
   (resumeMatch re-stages the reply). *)
EnemyAnswers ==
  (Fighting /\ match.board.turn = "enemy") ~> ~(Fighting /\ match.board.turn = "enemy")
=============================================================================
