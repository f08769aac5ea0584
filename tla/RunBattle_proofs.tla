-------------------------- MODULE RunBattle_proofs --------------------------
(* The purse, the board and the saved copy of one Battle, for any purses, gold,
   units and number of moves and reloads.

   PurseFollowsBoard speaks of the board on the page; a reload replaces that
   board by the saved one.  The inductive invariant says of both copies what
   it says of the board (Agrees), and of each checkpoint also which units had
   fallen for the Run when it was taken (Faithful): that is what an Undo gives
   back.  Storage keeps any suffix of a history, so everything said of a
   history is said of every suffix of it (Kept). *)
EXTENDS RunBattle, SequenceTheorems, TLAPS

\* Owed, for an attempt that began with o tenths and has paid u Undos.
Due(o, u, board) == o + board.earned - UndoCost * u

Faithful(c, o, u, p) ==
  /\ c.gold = IF Due(o, u, c.board) < 0 THEN 0 ELSE Due(o, u, c.board)
  /\ c.board.dead \subseteq c.dead
  /\ p \/ c.dead = c.board.dead

Agrees(m, r, o, u, p) ==
  /\ r.gold = Due(o, u, m.board)
  /\ m.board.dead \subseteq r.dead
  /\ p \/ r.dead = m.board.dead
  /\ \A i \in 1..Len(m.undo) : Faithful(m.undo[i], o, u, p)

Follows(later, earlier) ==
  /\ later.rounds - earlier.rounds \in {0, 1}
  /\ later.turn = "player" => later.rounds = earlier.rounds + 1
  /\ later.turn = "enemy" => later.rounds = earlier.rounds

Chained(m) ==
  /\ \A i \in 1..(Len(m.undo) - 1) : Follows(m.undo[i + 1].board, m.undo[i].board)
  /\ m.undo # <<>> => Follows(m.board, m.undo[Len(m.undo)].board)

Runs == [phase : {"deployment", "battle", "aftermath"}, gold : Nat, dead : SUBSET Units]

\* Both copies belong to the Run while its Battle is fought.
CopiesAgree ==
  run.phase = "battle" =>
    /\ match # None => Agrees(match, run, opening, undone, unpaid)
    /\ saved # None => Agrees(saved, run, opening, undone, unpaid)

CopiesChained ==
  /\ match # None => Chained(match)
  /\ saved # None => Chained(saved)

ReplyIsOwed == reply => match # None /\ match.board.turn = "enemy"

RerollIsPaid == departing => run.gold >= RerollCost

Inv == TypeOK /\ CopiesAgree /\ CopiesChained /\ ReplyIsOwed /\ RerollIsPaid

----------------------------------------------------------------------------
(* Histories *)

\* The n most recent checkpoints of a history.
LEMMA KeptProperties ==
  ASSUME NEW S, NEW stack \in Seq(S), NEW n \in 0..Len(stack)
  PROVE  /\ Kept(stack, n) \in Seq(S)
         /\ Len(Kept(stack, n)) = n
         /\ \A i \in 1..n : Kept(stack, n)[i] = stack[Len(stack) - n + i]
<1> DEFINE a == Len(stack) - n + 1
           b == Len(stack)
<1>1. a \in Int /\ b \in Int /\ b \in Nat /\ n \in Nat OBVIOUS
<1>2. \A i \in a..b : stack[i] \in S BY <1>1
<1>3. /\ SubSeq(stack, a, b) \in Seq(S)
      /\ Len(SubSeq(stack, a, b)) = IF a <= b THEN b - a + 1 ELSE 0
      /\ \A i \in 1..(b - a + 1) : SubSeq(stack, a, b)[i] = stack[a + i - 1]
  BY <1>1, <1>2, SubSeqProperties
<1>4. b - a + 1 = n /\ (IF a <= b THEN b - a + 1 ELSE 0) = n BY <1>1
<1>5. \A i \in 1..n : a + i - 1 = Len(stack) - n + i BY <1>1
<1> QED BY <1>3, <1>4, <1>5 DEF Kept

\* Checkpoints that are faithful and in order stay so when the oldest are dropped.
LEMMA KeptAgrees ==
  ASSUME NEW m \in Matches, NEW n \in 0..Len(m.undo), Chained(m)
  PROVE  LET k == [m EXCEPT !.undo = Kept(@, n)]
         IN /\ k \in Matches
            /\ Chained(k)
            /\ \A r, o, u, p : Agrees(m, r, o, u, p) => Agrees(k, r, o, u, p)
<1> DEFINE k == [m EXCEPT !.undo = Kept(@, n)]
           len == Len(m.undo)
           rest == Kept(m.undo, n)
<1>1. m.board \in Boards /\ m.undo \in Seq(Checkpoints) /\ len \in Nat /\ n \in Nat /\ n <= len
  BY DEF Matches
<1>2. /\ rest \in Seq(Checkpoints)
      /\ Len(rest) = n
      /\ \A i \in 1..n : rest[i] = m.undo[len - n + i]
  BY <1>1, KeptProperties
<1>3. k.board = m.board /\ k.undo = rest /\ k \in Matches BY <1>1, <1>2 DEF Matches
<1>4. Chained(k)
  <2>1. ASSUME NEW i \in 1..(n - 1) PROVE Follows(rest[i + 1].board, rest[i].board)
    <3>1. i \in 1..n /\ i + 1 \in 1..n BY <1>1
    <3>2. rest[i] = m.undo[len - n + i] /\ rest[i + 1] = m.undo[len - n + (i + 1)]
      BY <3>1, <1>2
    <3>3. len - n + (i + 1) = (len - n + i) + 1
      <4> HIDE DEF len
      <4> QED BY <1>1
    <3>4. len - n + i \in 1..(len - 1) BY <1>1
    <3> QED BY <3>2, <3>3, <3>4 DEF Chained
  <2>2. ASSUME rest # <<>> PROVE Follows(m.board, rest[Len(rest)].board)
    <3>1. n # 0 /\ n \in 1..n BY <1>1, <1>2, <2>2
    <3>2. rest[n] = m.undo[len - n + n] /\ len - n + n = len BY <3>1, <1>1, <1>2
    <3>3. m.undo # <<>> BY <1>1, <3>1
    <3> QED BY <3>2, <3>3, <1>2 DEF Chained
  <2> QED BY <1>2, <1>3, <2>1, <2>2 DEF Chained
<1>5. ASSUME NEW r, NEW o, NEW u, NEW p, Agrees(m, r, o, u, p) PROVE Agrees(k, r, o, u, p)
  <2>1. ASSUME NEW i \in 1..n PROVE Faithful(rest[i], o, u, p)
    <3>1. len - n + i \in 1..len BY <1>1
    <3> QED BY <3>1, <1>2, <1>5 DEF Agrees
  <2> QED BY <1>2, <1>3, <1>5, <2>1 DEF Agrees
<1> QED BY <1>3, <1>4, <1>5

\* What persistMatch leaves in storage agrees with what was handed to it.
LEMMA SavedAgrees ==
  ASSUME NEW m \in Matches, Chained(m), PersistMatch(m), NEW r, NEW o, NEW u, NEW p,
         Agrees(m, r, o, u, p)
  PROVE  /\ saved' \in Matches \cup {None}
         /\ saved' # None => Agrees(saved', r, o, u, p) /\ Chained(saved')
<1>1. CASE saved' = None BY <1>1
<1>2. CASE saved' # None
  <2>1. PICK n \in Halvings(Len(m.undo)) : saved' = [m EXCEPT !.undo = Kept(@, n)]
    BY <1>2 DEF PersistMatch
  <2>2. n \in 0..Len(m.undo) BY DEF Halvings
  <2> QED BY <2>1, <2>2, KeptAgrees
<1> QED BY <1>1, <1>2

\* An opening board agrees with the purse the attempt begins with.
LEMMA FreshAgrees ==
  ASSUME NEW r, NEW o \in Nat, NEW p, r.gold = o, p \/ r.dead = {}
  PROVE  FreshMatch \in Matches /\ Chained(FreshMatch) /\ Agrees(FreshMatch, r, o, 0, p)
<1>1. OpeningBoard \in Boards BY DEF OpeningBoard, Boards, Winners
<1>2. FreshMatch.board = OpeningBoard /\ FreshMatch.undo = <<>> /\ Len(FreshMatch.undo) = 0
  BY DEF FreshMatch
<1>3. FreshMatch \in Matches BY <1>1 DEF FreshMatch, Matches
<1>4. Chained(FreshMatch) BY <1>2 DEF Chained
<1>5. OpeningBoard.dead = {} /\ OpeningBoard.earned = 0 BY DEF OpeningBoard
<1>6. Due(o, 0, FreshMatch.board) = o BY <1>2, <1>5 DEF Due, UndoCost
<1>7. Agrees(FreshMatch, r, o, 0, p) BY <1>2, <1>5, <1>6 DEF Agrees
<1> QED BY <1>3, <1>4, <1>7

\* An attempt that starts over has agreeing copies.
LEMMA NewAttempt ==
  ASSUME NEW paid \in BOOLEAN, NEW gold \in Nat, NewSkirmish, Begin(gold, paid),
         run'.gold = gold, paid => run'.dead = {}
  PROVE  /\ match' \in Matches /\ saved' \in Matches \cup {None}
         /\ CopiesAgree' /\ CopiesChained' /\ ReplyIsOwed'
         /\ reply' \in BOOLEAN /\ unpaid' \in BOOLEAN /\ opening' \in Nat /\ undone' \in Nat
<1>1. opening' = gold /\ undone' = 0 /\ unpaid' = ~paid BY DEF Begin
<1>2. match' = FreshMatch /\ reply' = FALSE /\ PersistMatch(FreshMatch) BY DEF NewSkirmish
<1>3. /\ FreshMatch \in Matches
      /\ Chained(FreshMatch)
      /\ Agrees(FreshMatch, run', opening', undone', unpaid')
  BY <1>1, FreshAgrees
<1>4. /\ saved' \in Matches \cup {None}
      /\ saved' # None => Agrees(saved', run', opening', undone', unpaid') /\ Chained(saved')
  BY <1>2, <1>3, SavedAgrees
<1> QED BY <1>1, <1>2, <1>3, <1>4 DEF CopiesAgree, CopiesChained, ReplyIsOwed

----------------------------------------------------------------------------
(* The actions *)

\* A board that is decided or passed on keeps what it has claimed and who has fallen.
LEMMA SettledBoard ==
  ASSUME NEW board \in Boards, NEW winner \in Winners, NEW next \in {"player", "enemy", "done"}
  PROVE  /\ Settled(board, winner, next) \in Boards
         /\ Settled(board, winner, next).earned = board.earned
         /\ Settled(board, winner, next).dead = board.dead
         /\ Settled(board, winner, next).rounds = board.rounds
         /\ Settled(board, winner, next).turn = IF winner = "none" THEN next ELSE "done"
BY DEF Settled, Boards, Winners

\* The parts of the invariant, with the types the steps use.
LEMMA Facts ==
  ASSUME Inv
  PROVE  /\ run \in Runs
         /\ match # None => match \in Matches
         /\ saved \in Matches \cup {None}
         /\ page \in BOOLEAN /\ reply \in BOOLEAN /\ departing \in BOOLEAN
         /\ timed \in BOOLEAN /\ unpaid \in BOOLEAN
         /\ opening \in Nat /\ undone \in Nat /\ moves \in Nat /\ reloads \in Nat
         /\ CopiesAgree /\ CopiesChained /\ ReplyIsOwed /\ RerollIsPaid
<1> SUFFICES TypeOK => /\ run \in Runs
                       /\ match # None => match \in Matches
                       /\ saved \in Matches \cup {None}
                       /\ page \in BOOLEAN /\ reply \in BOOLEAN /\ departing \in BOOLEAN
                       /\ timed \in BOOLEAN /\ unpaid \in BOOLEAN
                       /\ opening \in Nat /\ undone \in Nat /\ moves \in Nat /\ reloads \in Nat
  BY DEF Inv
<1> QED BY DEF TypeOK, Runs

\* A commit: the board, the purse and the casualties move together.
LEMMA CommitKeepsInv ==
  ASSUME Inv, NEW next \in Matches, Chained(next), match' = next, PersistMatch(next),
         run' \in Runs, Agrees(next, run', opening', undone', unpaid'),
         opening' \in Nat, undone' \in Nat, unpaid' \in BOOLEAN,
         page' = page, timed' = timed, departing' = departing, departing => run'.gold >= RerollCost,
         moves' \in Nat, reloads' = reloads,
         reply' \in BOOLEAN, reply' => next.board.turn = "enemy"
  PROVE  Inv'
<1>1. /\ saved' \in Matches \cup {None}
      /\ saved' # None => Agrees(saved', run', opening', undone', unpaid') /\ Chained(saved')
  BY SavedAgrees
<1>2. CopiesAgree' /\ CopiesChained' BY <1>1 DEF CopiesAgree, CopiesChained
<1>3. ReplyIsOwed' /\ RerollIsPaid' BY NoneAssumption DEF ReplyIsOwed, RerollIsPaid
<1>4. TypeOK' BY <1>1, Facts DEF TypeOK, Runs
<1> QED BY <1>2, <1>3, <1>4 DEF Inv

\* What a commit does to the Run.
LEMMA TransformedRun ==
  ASSUME run \in Runs, NEW gold \in Nat, NEW board \in Boards, TransformCommittedBoard(gold, board)
  PROVE  /\ run' \in Runs /\ run'.phase = run.phase
         /\ run'.gold = run.gold + gold /\ run'.dead = run.dead \cup board.dead
<1>1. board.dead \subseteq Units BY DEF Boards
<1>2. run.gold + gold \in Nat /\ run.dead \cup board.dead \in SUBSET Units BY <1>1 DEF Runs
<1>3. run' = [run EXCEPT !.gold = run.gold + gold, !.dead = run.dead \cup board.dead]
  BY DEF TransformCommittedBoard
<1> QED BY <1>2, <1>3 DEF Runs

LEMMA PlayerMoveStep ==
  ASSUME Inv, NEW gold \in Manubiae, NEW winner \in {"none", "player", "draw"}, PlayerMove(gold, winner)
  PROVE  Inv'
<1> DEFINE claimed == [match.board EXCEPT !.earned = @ + gold]
           board == Settled(claimed, winner, "enemy")
           next == [board |-> board, undo |-> Append(match.undo, Checkpoint)]
           len == Len(match.undo)
<1>1. /\ match # None /\ run.phase = "battle" /\ ~departing /\ match.board.turn = "player"
      /\ match' = next /\ TransformCommittedBoard(gold, board)
      /\ reply' = (winner = "none") /\ PersistMatch(next)
      /\ moves' = moves + 1
      /\ page' = page /\ departing' = departing /\ timed' = timed /\ reloads' = reloads
      /\ opening' = opening /\ undone' = undone /\ unpaid' = unpaid
  BY DEF PlayerMove, Fighting, Started, history
<1>2. /\ run \in Runs /\ match \in Matches /\ opening \in Nat /\ undone \in Nat
      /\ unpaid \in BOOLEAN /\ moves \in Nat
      /\ Agrees(match, run, opening, undone, unpaid) /\ Chained(match)
  BY <1>1, Facts DEF CopiesAgree, CopiesChained
<1>3. match.board \in Boards /\ match.undo \in Seq(Checkpoints) /\ len \in Nat BY <1>2 DEF Matches
<1>4. gold \in Nat /\ winner \in Winners BY GoldAssumption DEF Winners
<1>5. /\ claimed \in Boards /\ claimed.earned = match.board.earned + gold
      /\ claimed.dead = match.board.dead /\ claimed.rounds = match.board.rounds
  BY <1>3, <1>4 DEF Boards
<1> HIDE DEF claimed
<1>6. /\ board \in Boards /\ board.earned = match.board.earned + gold
      /\ board.dead = match.board.dead /\ board.rounds = match.board.rounds
      /\ board.turn = IF winner = "none" THEN "enemy" ELSE "done"
  BY <1>4, <1>5, SettledBoard
<1> HIDE DEF board
<1>7. /\ Checkpoint \in Checkpoints /\ Checkpoint.gold = run.gold /\ Checkpoint.dead = run.dead
      /\ Checkpoint.board = match.board
  BY <1>2, <1>3 DEF Checkpoint, Checkpoints, Runs
<1>8. /\ next.undo \in Seq(Checkpoints) /\ Len(next.undo) = len + 1
      /\ \A i \in 1..len : next.undo[i] = match.undo[i]
      /\ next.undo[len + 1] = Checkpoint
      /\ next.board = board
  BY <1>3, <1>7, AppendProperties
<1>9. next \in Matches BY <1>6, <1>8 DEF Matches
<1>10. /\ run' \in Runs /\ run'.gold = run.gold + gold /\ run'.dead = run.dead \cup match.board.dead
  BY <1>1, <1>2, <1>4, <1>6, TransformedRun
<1>11. run'.dead = run.dead BY <1>10, <1>2 DEF Agrees
<1>12. Due(opening, undone, board) = Due(opening, undone, match.board) + gold
  BY <1>2, <1>3, <1>4, <1>6 DEF Due, UndoCost, Boards
<1>13. Faithful(Checkpoint, opening, undone, unpaid)
  BY <1>2, <1>7 DEF Agrees, Faithful, Runs
<1>14. Agrees(next, run', opening, undone, unpaid)
  <2>1. ASSUME NEW i \in 1..Len(next.undo) PROVE Faithful(next.undo[i], opening, undone, unpaid)
    <3>1. CASE i \in 1..len BY <3>1, <1>2, <1>8 DEF Agrees
    <3>2. CASE i = len + 1 BY <3>2, <1>8, <1>13
    <3> QED BY <3>1, <3>2, <1>3, <1>8
  <2> QED BY <2>1, <1>2, <1>6, <1>8, <1>10, <1>11, <1>12 DEF Agrees
<1>15. Follows(board, match.board) BY <1>1, <1>3, <1>6 DEF Follows, Boards
<1>16. Chained(next)
  <2>1. ASSUME NEW i \in 1..(Len(next.undo) - 1)
        PROVE  Follows(next.undo[i + 1].board, next.undo[i].board)
    <3>1. i \in 1..len BY <1>3, <1>8
    <3>2. CASE i = len
      <4>1. match.undo # <<>> BY <3>1, <3>2, <1>3
      <4> QED BY <4>1, <3>1, <3>2, <1>2, <1>7, <1>8 DEF Chained
    <3>3. CASE i # len
      <4>1. i \in 1..(len - 1) /\ i + 1 \in 1..len BY <3>1, <3>3, <1>3
      <4> QED BY <4>1, <3>1, <1>2, <1>8 DEF Chained
    <3> QED BY <3>2, <3>3
  <2>2. next.undo[Len(next.undo)].board = match.board BY <1>7, <1>8
  <2> QED BY <2>1, <2>2, <1>8, <1>15 DEF Chained
<1>17. reply' => next.board.turn = "enemy" BY <1>1, <1>6, <1>8
<1>19. moves' \in Nat /\ reply' \in BOOLEAN BY <1>1, <1>2
<1> HIDE DEF next
<1> QED BY <1>1, <1>2, <1>9, <1>10, <1>14, <1>16, <1>17, <1>19, CommitKeepsInv

LEMMA EnemyReplyStep ==
  ASSUME Inv, NEW unit \in Units \cup {NoUnit}, NEW winner \in Winners, EnemyReply(unit, winner)
  PROVE  Inv'
<1> DEFINE fallen == [match.board EXCEPT !.dead = @ \cup ({unit} \ {NoUnit}), !.rounds = @ + 1]
           board == Settled(fallen, winner, "player")
           next == [match EXCEPT !.board = board]
<1>1. /\ match # None /\ run.phase = "battle" /\ reply
      /\ match' = next /\ TransformCommittedBoard(0, board) /\ reply' = FALSE
      /\ PersistMatch(next)
      /\ page' = page /\ departing' = departing /\ timed' = timed
      /\ moves' = moves /\ reloads' = reloads
      /\ opening' = opening /\ undone' = undone /\ unpaid' = unpaid
  BY DEF EnemyReply, Fighting, Started, history
<1>2. /\ run \in Runs /\ match \in Matches /\ opening \in Nat /\ undone \in Nat
      /\ unpaid \in BOOLEAN /\ moves \in Nat
      /\ Agrees(match, run, opening, undone, unpaid) /\ Chained(match)
      /\ match.board.turn = "enemy"
      /\ departing => run.gold >= RerollCost
  BY <1>1, Facts DEF CopiesAgree, CopiesChained, ReplyIsOwed, RerollIsPaid
<1>3. match.board \in Boards /\ match.undo \in Seq(Checkpoints) BY <1>2 DEF Matches
<1>4. /\ match.board.dead \cup ({unit} \ {NoUnit}) \in SUBSET Units
      /\ match.board.rounds + 1 \in Nat
  BY <1>3, NoUnitAssumption DEF Boards
<1>5. /\ fallen \in Boards /\ fallen.earned = match.board.earned
      /\ fallen.dead = match.board.dead \cup ({unit} \ {NoUnit})
      /\ fallen.rounds = match.board.rounds + 1
  BY <1>3, <1>4 DEF Boards
<1> HIDE DEF fallen
<1>6. /\ board \in Boards /\ board.earned = match.board.earned
      /\ board.dead = match.board.dead \cup ({unit} \ {NoUnit})
      /\ board.rounds = match.board.rounds + 1 /\ board.turn \in {"player", "done"}
  BY <1>5, SettledBoard
<1> HIDE DEF board
<1>7. next.board = board /\ next.undo = match.undo /\ next \in Matches
  BY <1>2, <1>6 DEF Matches
<1>8. /\ run' \in Runs /\ run'.gold = run.gold + 0 /\ run'.dead = run.dead \cup board.dead
  BY <1>1, <1>2, <1>6, TransformedRun
<1>9. run'.gold = run.gold BY <1>2, <1>8 DEF Runs
<1>10. Due(opening, undone, board) = Due(opening, undone, match.board) BY <1>6 DEF Due
<1>11. unpaid \/ run'.dead = board.dead
  <2>1. CASE unpaid BY <2>1
  <2>2. CASE run.dead = match.board.dead BY <2>2, <1>6, <1>8
  <2> QED BY <2>1, <2>2, <1>2 DEF Agrees
<1>12. Agrees(next, run', opening, undone, unpaid)
  BY <1>2, <1>7, <1>8, <1>9, <1>10, <1>11 DEF Agrees
<1>13. ASSUME match.undo # <<>> PROVE Follows(board, match.undo[Len(match.undo)].board)
  <2> DEFINE latest == match.undo[Len(match.undo)].board
  <2>1. Len(match.undo) \in DOMAIN match.undo BY <1>3, <1>13
  <2>2. match.undo[Len(match.undo)] \in Checkpoints BY <2>1, <1>3
  <2>3. latest.rounds \in Nat /\ match.board.rounds \in Nat BY <2>2, <1>3 DEF Checkpoints, Boards
  <2>4. match.board.rounds = latest.rounds BY <1>2, <1>13 DEF Chained, Follows
  <2> HIDE DEF latest
  <2>5. Follows(board, latest) BY <2>3, <2>4, <1>6 DEF Follows
  <2> QED BY <2>5 DEF latest
<1>14. Chained(next) BY <1>2, <1>7, <1>13 DEF Chained
<1>15. departing => run'.gold >= RerollCost BY <1>2, <1>9
<1> HIDE DEF next
<1> QED BY <1>1, <1>2, <1>7, <1>8, <1>12, <1>14, <1>15, CommitKeepsInv

LEMMA FlagFallsStep == ASSUME Inv, FlagFalls PROVE Inv'
<1> DEFINE board == Settled(match.board, "enemy", "done")
           next == [match EXCEPT !.board = board]
<1>1. /\ match # None /\ run.phase = "battle" /\ ~departing /\ match.board.turn = "player"
      /\ match' = next /\ PersistMatch(next) /\ run' = run /\ reply' = reply
      /\ page' = page /\ departing' = departing /\ timed' = timed
      /\ moves' = moves /\ reloads' = reloads
      /\ opening' = opening /\ undone' = undone /\ unpaid' = unpaid
  BY DEF FlagFalls, Fighting, Started, history
<1>2. /\ run \in Runs /\ match \in Matches /\ opening \in Nat /\ undone \in Nat
      /\ unpaid \in BOOLEAN /\ moves \in Nat /\ reply \in BOOLEAN /\ ~reply
      /\ Agrees(match, run, opening, undone, unpaid) /\ Chained(match)
  BY <1>1, Facts DEF CopiesAgree, CopiesChained, ReplyIsOwed
<1>3. match.board \in Boards /\ match.undo \in Seq(Checkpoints) BY <1>2 DEF Matches
<1>4. "enemy" \in Winners BY DEF Winners
<1>5. /\ board \in Boards /\ board.earned = match.board.earned /\ board.dead = match.board.dead
      /\ board.rounds = match.board.rounds /\ board.turn = "done"
  BY <1>3, <1>4, SettledBoard
<1> HIDE DEF board
<1>6. next.board = board /\ next.undo = match.undo /\ next \in Matches BY <1>2, <1>5 DEF Matches
<1>7. Due(opening, undone, board) = Due(opening, undone, match.board) BY <1>5 DEF Due
<1>8. Agrees(next, run, opening, undone, unpaid) BY <1>2, <1>5, <1>6, <1>7 DEF Agrees
<1>9. Chained(next)
  <2>1. ASSUME match.undo # <<>> PROVE Follows(board, match.undo[Len(match.undo)].board)
    BY <2>1, <1>2, <1>5 DEF Chained, Follows
  <2> QED BY <2>1, <1>2, <1>6 DEF Chained
<1> HIDE DEF next
<1> QED BY <1>1, <1>2, <1>6, <1>8, <1>9, CommitKeepsInv

\* One more Undo to pay takes its price from what an older checkpoint restores.
LEMMA ChargedEarlier ==
  ASSUME NEW c \in Checkpoints, NEW o \in Nat, NEW u \in Nat, NEW p, Faithful(c, o, u, p)
  PROVE  /\ ChargeEarlier(c) \in Checkpoints
         /\ ChargeEarlier(c).board = c.board
         /\ Faithful(ChargeEarlier(c), o, u + 1, p)
<1> DEFINE gold == IF c.gold < UndoCost THEN 0 ELSE c.gold - UndoCost
           due == Due(o, u, c.board)
<1>1. c.gold \in Nat /\ c.board \in Boards /\ c.board.earned \in Nat BY DEF Checkpoints, Boards
<1>2. gold \in Nat BY <1>1 DEF UndoCost
<1>3. ChargeEarlier(c) = [c EXCEPT !.gold = gold] BY DEF ChargeEarlier
<1>4. /\ ChargeEarlier(c) \in Checkpoints /\ ChargeEarlier(c).gold = gold
      /\ ChargeEarlier(c).dead = c.dead /\ ChargeEarlier(c).board = c.board
  BY <1>2, <1>3 DEF Checkpoints
<1>5. due \in Int /\ Due(o, u + 1, c.board) = due - UndoCost BY <1>1 DEF Due, UndoCost
<1>6. c.gold = IF due < 0 THEN 0 ELSE due BY DEF Faithful
<1>7. gold = IF due - UndoCost < 0 THEN 0 ELSE due - UndoCost
  <2> HIDE DEF due
  <2> QED BY <1>1, <1>5, <1>6 DEF UndoCost
<1>8. gold = IF Due(o, u + 1, c.board) < 0 THEN 0 ELSE Due(o, u + 1, c.board)
  BY <1>5, <1>7
<1> HIDE DEF gold
<1> QED BY <1>4, <1>8 DEF Faithful

LEMMA UndoMoveStep == ASSUME Inv, UndoMove PROVE Inv'
<1> DEFINE len == Len(match.undo)
           checkpoint == Last(match.undo)
           older == Front(match.undo)
           charged == [i \in DOMAIN older |-> ChargeEarlier(older[i])]
           next == [board |-> checkpoint.board, undo |-> charged]
<1>1. /\ match # None /\ run.phase = "battle" /\ ~departing /\ match.undo # <<>>
      /\ checkpoint.gold >= UndoCost
      /\ run' = [run EXCEPT !.gold = checkpoint.gold - UndoCost, !.dead = checkpoint.dead]
      /\ match' = next /\ PersistMatch(next) /\ reply' = FALSE /\ undone' = undone + 1
      /\ page' = page /\ departing' = departing /\ timed' = timed
      /\ moves' = moves /\ reloads' = reloads /\ opening' = opening /\ unpaid' = unpaid
  BY DEF UndoMove, Fighting, Started
<1>2. /\ run \in Runs /\ match \in Matches /\ opening \in Nat /\ undone \in Nat
      /\ unpaid \in BOOLEAN /\ moves \in Nat
      /\ Agrees(match, run, opening, undone, unpaid) /\ Chained(match)
  BY <1>1, Facts DEF CopiesAgree, CopiesChained
<1>3. match.undo \in Seq(Checkpoints) /\ len \in Nat /\ len # 0 /\ len \in 1..len
  BY <1>1, <1>2 DEF Matches
<1>4. /\ older \in Seq(Checkpoints) /\ Len(older) = len - 1
      /\ \A i \in 1..(len - 1) : older[i] = match.undo[i]
  <2>1. \A i \in 1..(len - 1) : match.undo[i] \in Checkpoints BY <1>3
  <2>2. 1 \in Int /\ len - 1 \in Int BY <1>3
  <2>3. /\ SubSeq(match.undo, 1, len - 1) \in Seq(Checkpoints)
        /\ Len(SubSeq(match.undo, 1, len - 1)) = IF 1 <= len - 1 THEN len - 1 - 1 + 1 ELSE 0
        /\ \A i \in 1..(len - 1 - 1 + 1) : SubSeq(match.undo, 1, len - 1)[i] = match.undo[1 + i - 1]
    BY <2>1, <2>2, SubSeqProperties
  <2>4. older = SubSeq(match.undo, 1, len - 1) BY DEF Front
  <2> HIDE DEF len, older
  <2>5. (IF 1 <= len - 1 THEN len - 1 - 1 + 1 ELSE 0) = len - 1 /\ len - 1 - 1 + 1 = len - 1 BY <1>3
  <2>6. \A i \in 1..(len - 1) : 1 + i - 1 = i BY <1>3
  <2> QED BY <2>3, <2>4, <2>5, <2>6
<1>5. checkpoint = match.undo[len] /\ checkpoint \in Checkpoints BY <1>3 DEF Last
<1>6. Faithful(checkpoint, opening, undone, unpaid) BY <1>2, <1>3, <1>5 DEF Agrees
<1>7. /\ checkpoint.gold \in Nat /\ checkpoint.dead \in SUBSET Units
      /\ checkpoint.board \in Boards /\ checkpoint.board.earned \in Nat
  BY <1>5 DEF Checkpoints, Boards
<1>8. ASSUME NEW i \in 1..(len - 1)
      PROVE  /\ charged[i] = ChargeEarlier(match.undo[i])
             /\ charged[i] \in Checkpoints
             /\ charged[i].board = match.undo[i].board
             /\ Faithful(charged[i], opening, undone + 1, unpaid)
  <2>1. i \in 1..len BY <1>3
  <2>2. match.undo[i] \in Checkpoints /\ Faithful(match.undo[i], opening, undone, unpaid)
    BY <2>1, <1>2, <1>3 DEF Agrees
  <2>3. i \in DOMAIN older BY <1>4
  <2>4. charged[i] = ChargeEarlier(match.undo[i]) BY <2>3, <1>4
  <2> HIDE DEF charged
  <2> QED BY <2>2, <2>4, <1>2, ChargedEarlier
<1>9. charged \in Seq(Checkpoints) /\ Len(charged) = len - 1
  <2>1. DOMAIN older = 1..(len - 1) BY <1>4
  <2>2. charged \in [1..(len - 1) -> Checkpoints] BY <2>1, <1>8
  <2>3. len - 1 \in Nat BY <1>3
  <2> HIDE DEF charged, len
  <2> QED BY <2>2, <2>3
<1>10. next.board = checkpoint.board /\ next.undo = charged OBVIOUS
<1> HIDE DEF charged, checkpoint
<1>11. next \in Matches BY <1>7, <1>9 DEF Matches
<1>12. /\ run' \in Runs /\ run'.gold = checkpoint.gold - UndoCost /\ run'.dead = checkpoint.dead
  <2>1. checkpoint.gold - UndoCost \in Nat BY <1>1, <1>7 DEF UndoCost
  <2> QED BY <2>1, <1>1, <1>2, <1>7 DEF Runs
<1>13. run'.gold = Due(opening, undone + 1, checkpoint.board)
  <2>1. Due(opening, undone, checkpoint.board) \in Int BY <1>2, <1>7 DEF Due, UndoCost
  <2>2. checkpoint.gold = Due(opening, undone, checkpoint.board)
    BY <2>1, <1>1, <1>6 DEF Faithful, UndoCost
  <2> QED BY <2>2, <1>2, <1>7, <1>12 DEF Due, UndoCost
<1>14. Agrees(next, run', opening, undone + 1, unpaid)
  <2>1. checkpoint.board.dead \subseteq checkpoint.dead /\ (unpaid \/ checkpoint.dead = checkpoint.board.dead)
    BY <1>6 DEF Faithful
  <2> HIDE DEF next
  <2> QED BY <2>1, <1>8, <1>9, <1>10, <1>12, <1>13 DEF Agrees
<1>15. Chained(next)
  <2>1. ASSUME NEW i \in 1..(len - 1 - 1) PROVE Follows(charged[i + 1].board, charged[i].board)
    <3>1. i \in 1..(len - 1) /\ i + 1 \in 1..(len - 1) BY <1>3
    <3> QED BY <3>1, <1>2, <1>8 DEF Chained
  <2>2. ASSUME charged # <<>> PROVE Follows(checkpoint.board, charged[Len(charged)].board)
    <3>1. len - 1 \in 1..(len - 1)
      <4>1. len - 1 # 0
        <5> HIDE DEF len
        <5> QED BY <2>2, <1>9, EmptySeq
      <4> HIDE DEF len
      <4> QED BY <4>1, <1>3
    <3>2. charged[len - 1].board = match.undo[len - 1].board BY <3>1, <1>8
    <3>3. len - 1 + 1 = len
      <4> HIDE DEF len
      <4> QED BY <1>3
    <3>4. Follows(match.undo[len].board, match.undo[len - 1].board) BY <3>1, <3>3, <1>2 DEF Chained
    <3> QED BY <3>2, <3>4, <1>5, <1>9
  <2> HIDE DEF len, next
  <2> QED BY <2>1, <2>2, <1>9, <1>10 DEF Chained
<1> HIDE DEF next
<1>16. undone' \in Nat BY <1>1, <1>2
<1> QED BY <1>1, <1>2, <1>11, <1>12, <1>14, <1>15, <1>16, CommitKeepsInv

LEMMA InitialInv == Init => Inv
<1> SUFFICES ASSUME Init PROVE Inv OBVIOUS
<1>1. /\ run \in [phase : {"deployment"}, gold : Purses, dead : {{}}]
      /\ timed \in BOOLEAN /\ page = TRUE /\ match = None /\ saved = None
      /\ reply = FALSE /\ departing = FALSE /\ opening = run.gold /\ undone = 0
      /\ unpaid = FALSE /\ moves = 0 /\ reloads = 0
  BY DEF Init
<1>2. run \in Runs /\ run.phase = "deployment" /\ run.gold \in Nat
  BY <1>1, GoldAssumption DEF Runs
<1>3. TypeOK
  <2>1. /\ page \in BOOLEAN /\ reply \in BOOLEAN /\ departing \in BOOLEAN /\ unpaid \in BOOLEAN
        /\ timed \in BOOLEAN
    BY <1>1
  <2>2. /\ opening \in Nat /\ undone \in Nat /\ moves \in Nat /\ reloads \in Nat
        /\ match \in Matches \cup {None} /\ saved \in Matches \cup {None}
    BY <1>1, <1>2
  <2> QED BY <1>2, <2>1, <2>2 DEF TypeOK, Runs
<1>4. CopiesAgree /\ CopiesChained /\ ReplyIsOwed /\ RerollIsPaid
  BY <1>1, <1>2 DEF CopiesAgree, CopiesChained, ReplyIsOwed, RerollIsPaid
<1> QED BY <1>3, <1>4 DEF Inv

LEMMA BeginBattleStep == ASSUME Inv, BeginBattle PROVE Inv'
<1>1. /\ run' = [run EXCEPT !.phase = "battle", !.dead = {}]
      /\ NewSkirmish /\ Begin(run.gold, TRUE)
      /\ page' = page /\ departing' = departing /\ timed' = timed /\ moves' = moves
      /\ reloads' = reloads
  BY DEF BeginBattle
<1>2. run' \in Runs /\ run'.gold = run.gold /\ run'.dead = {} /\ run.gold \in Nat
  BY <1>1, Facts DEF Runs
<1>3. /\ match' \in Matches /\ saved' \in Matches \cup {None}
      /\ CopiesAgree' /\ CopiesChained' /\ ReplyIsOwed'
      /\ reply' \in BOOLEAN /\ unpaid' \in BOOLEAN /\ opening' \in Nat /\ undone' \in Nat
  BY <1>1, <1>2, NewAttempt
<1>4. RerollIsPaid' BY <1>1, <1>2, Facts DEF RerollIsPaid
<1>5. TypeOK' BY <1>1, <1>2, <1>3, Facts DEF TypeOK, Runs
<1> QED BY <1>3, <1>4, <1>5 DEF Inv

LEMMA RestartStep == ASSUME Inv, Restart PROVE Inv'
<1>1. /\ run' = [run EXCEPT !.gold = @ - RetryCost, !.dead = {}] /\ run.gold >= RetryCost
      /\ NewSkirmish /\ Begin(run.gold - RetryCost, TRUE) /\ ~departing
      /\ page' = page /\ departing' = departing /\ timed' = timed /\ moves' = moves
      /\ reloads' = reloads
  BY DEF Restart
<1>2. run.gold - RetryCost \in Nat BY <1>1, Facts DEF Runs, RetryCost
<1>3. run' \in Runs /\ run'.gold = run.gold - RetryCost /\ run'.dead = {}
  BY <1>1, <1>2, Facts DEF Runs
<1>4. /\ match' \in Matches /\ saved' \in Matches \cup {None}
      /\ CopiesAgree' /\ CopiesChained' /\ ReplyIsOwed'
      /\ reply' \in BOOLEAN /\ unpaid' \in BOOLEAN /\ opening' \in Nat /\ undone' \in Nat
  BY <1>1, <1>2, <1>3, NewAttempt
<1>5. RerollIsPaid' BY <1>1 DEF RerollIsPaid
<1>6. TypeOK' BY <1>1, <1>3, <1>4, Facts DEF TypeOK, Runs
<1> QED BY <1>4, <1>5, <1>6 DEF Inv

LEMMA RequestRerollStep == ASSUME Inv, RequestReroll PROVE Inv'
<1> DEFINE next == [match EXCEPT !.undo = <<>>]
<1>1. /\ match # None /\ run.phase = "battle" /\ run.gold >= RerollCost
      /\ match' = next /\ reply' = FALSE /\ departing' = TRUE
      /\ run' = run /\ saved' = saved /\ page' = page /\ timed' = timed
      /\ moves' = moves /\ reloads' = reloads
      /\ opening' = opening /\ undone' = undone /\ unpaid' = unpaid
  BY DEF RequestReroll, Fighting, Started, history
<1>2. /\ match \in Matches /\ Agrees(match, run, opening, undone, unpaid)
      /\ saved # None => Agrees(saved, run, opening, undone, unpaid) /\ Chained(saved)
  BY <1>1, Facts DEF CopiesAgree, CopiesChained
<1>3. next \in Matches /\ next.board = match.board /\ next.undo = <<>>
  BY <1>2, EmptySeq DEF Matches
<1> HIDE DEF next
<1>4. Agrees(next, run, opening, undone, unpaid) BY <1>2, <1>3 DEF Agrees
<1>5. Chained(next) BY <1>3 DEF Chained
<1>6. CopiesAgree' /\ CopiesChained' BY <1>1, <1>2, <1>4, <1>5 DEF CopiesAgree, CopiesChained
<1>7. ReplyIsOwed' /\ RerollIsPaid' BY <1>1 DEF ReplyIsOwed, RerollIsPaid
<1>8. TypeOK' BY <1>1, <1>3, Facts DEF TypeOK, Runs
<1> QED BY <1>6, <1>7, <1>8 DEF Inv

LEMMA CompleteRerollStep == ASSUME Inv, CompleteReroll PROVE Inv'
<1>1. /\ departing /\ departing' = FALSE
      /\ run' = [run EXCEPT !.phase = "deployment", !.gold = @ - RerollCost, !.dead = {}]
      /\ match' = match /\ reply' = reply /\ saved' = saved /\ page' = page /\ timed' = timed
      /\ moves' = moves /\ reloads' = reloads
      /\ opening' = opening /\ undone' = undone /\ unpaid' = unpaid
  BY DEF CompleteReroll, history
<1>2. run.gold - RerollCost \in Nat BY <1>1, Facts DEF RerollIsPaid, Runs, RerollCost
<1>3. run' \in Runs /\ run'.phase = "deployment" BY <1>1, <1>2, Facts DEF Runs
<1>4. CopiesAgree' /\ CopiesChained' BY <1>1, <1>3, Facts DEF CopiesAgree, CopiesChained
<1>5. ReplyIsOwed' /\ RerollIsPaid' BY <1>1, Facts DEF ReplyIsOwed, RerollIsPaid
<1>6. match' \in Matches \cup {None} BY <1>1, Facts
<1>7. TypeOK' BY <1>1, <1>3, <1>6, Facts DEF TypeOK, Runs
<1> QED BY <1>4, <1>5, <1>7 DEF Inv

LEMMA CloseBattleStep == ASSUME Inv, CloseBattle PROVE Inv'
<1>1. /\ run' = [run EXCEPT !.phase = "aftermath"]
      /\ match' = match /\ reply' = reply /\ saved' = saved /\ page' = page /\ timed' = timed
      /\ moves' = moves /\ reloads' = reloads /\ departing' = departing
      /\ opening' = opening /\ undone' = undone /\ unpaid' = unpaid
  BY DEF CloseBattle, history
<1>2. run' \in Runs /\ run'.phase = "aftermath" /\ run'.gold = run.gold BY <1>1, Facts DEF Runs
<1>3. CopiesAgree' /\ CopiesChained' BY <1>1, <1>2, Facts DEF CopiesAgree, CopiesChained
<1>4. ReplyIsOwed' /\ RerollIsPaid' BY <1>1, <1>2, Facts DEF ReplyIsOwed, RerollIsPaid
<1>5. match' \in Matches \cup {None} BY <1>1, Facts
<1>6. TypeOK' BY <1>1, <1>2, <1>5, Facts DEF TypeOK, Runs
<1> QED BY <1>3, <1>4, <1>6 DEF Inv

LEMMA ReloadStep == ASSUME Inv, Reload PROVE Inv'
<1>1. /\ saved' = saved \/ (match # None /\ PersistMatch(match))
      /\ page' = FALSE /\ match' = None /\ reply' = FALSE /\ departing' = FALSE
      /\ reloads' = reloads + 1 /\ run' = run /\ timed' = timed /\ moves' = moves
      /\ opening' = opening /\ undone' = undone /\ unpaid' = unpaid
  BY DEF Reload, Started, history
<1>2. /\ saved' \in Matches \cup {None}
      /\ saved' # None => Chained(saved')
      /\ run.phase = "battle" /\ saved' # None => Agrees(saved', run, opening, undone, unpaid)
  <2>1. CASE saved' = saved BY <2>1, Facts DEF CopiesAgree, CopiesChained
  <2>2. CASE match # None /\ PersistMatch(match)
    <3>1. match \in Matches /\ Chained(match) BY <2>2, Facts DEF CopiesChained
    <3>2. run.phase = "battle" => Agrees(match, run, opening, undone, unpaid)
      BY <2>2, Facts DEF CopiesAgree
    <3>3. CASE saved' = None BY <3>3
    <3>4. CASE saved' # None
      <4>1. PICK n \in Halvings(Len(match.undo)) : saved' = [match EXCEPT !.undo = Kept(@, n)]
        BY <2>2, <3>4 DEF PersistMatch
      <4>2. n \in 0..Len(match.undo) BY DEF Halvings
      <4> QED BY <3>1, <3>2, <4>1, <4>2, KeptAgrees
    <3> QED BY <3>3, <3>4
  <2> QED BY <1>1, <2>1, <2>2
<1>3. CopiesAgree' /\ CopiesChained' BY <1>1, <1>2 DEF CopiesAgree, CopiesChained
<1>4. ReplyIsOwed' /\ RerollIsPaid' BY <1>1 DEF ReplyIsOwed, RerollIsPaid
<1>5. page' \in BOOLEAN /\ reply' \in BOOLEAN /\ departing' \in BOOLEAN BY <1>1
<1>6. reloads' \in Nat /\ match' \in Matches \cup {None} BY <1>1, Facts
<1>7. TypeOK' BY <1>1, <1>2, <1>5, <1>6, Facts DEF TypeOK, Runs
<1> QED BY <1>3, <1>4, <1>7 DEF Inv

LEMMA EnterStep == ASSUME Inv, Enter PROVE Inv'
<1>1. /\ run' = run /\ departing' = departing /\ timed' = timed /\ moves' = moves
      /\ reloads' = reloads /\ page' = TRUE
  BY DEF Enter
<1>2. CASE run.phase # "battle" /\ UNCHANGED <<match, reply, saved, history>>
  <2>1. /\ match' = match /\ reply' = reply /\ saved' = saved
        /\ opening' = opening /\ undone' = undone /\ unpaid' = unpaid
    BY <1>2 DEF history
  <2>2. CopiesAgree' /\ CopiesChained' BY <1>1, <1>2, <2>1, Facts DEF CopiesAgree, CopiesChained
  <2>3. ReplyIsOwed' /\ RerollIsPaid' BY <1>1, <2>1, Facts DEF ReplyIsOwed, RerollIsPaid
  <2>4. match' \in Matches \cup {None} BY <2>1, Facts
  <2>5. TypeOK' BY <1>1, <2>1, <2>4, Facts DEF TypeOK, Runs
  <2> QED BY <2>2, <2>3, <2>5 DEF Inv
<1>3. CASE run.phase = "battle" /\ saved # None /\ ResumeMatch /\ UNCHANGED <<saved, history>>
  <2>1. /\ match' = saved /\ reply' = (saved.board.turn = "enemy") /\ saved' = saved
        /\ opening' = opening /\ undone' = undone /\ unpaid' = unpaid
    BY <1>3 DEF history, ResumeMatch
  <2>2. CopiesAgree' /\ CopiesChained' BY <1>1, <1>3, <2>1, Facts DEF CopiesAgree, CopiesChained
  <2>3. ReplyIsOwed' /\ RerollIsPaid' BY <1>1, <1>3, <2>1, Facts DEF ReplyIsOwed, RerollIsPaid
  <2>4. match' \in Matches \cup {None} /\ reply' \in BOOLEAN BY <2>1, Facts
  <2>5. TypeOK' BY <1>1, <2>1, <2>4, Facts DEF TypeOK, Runs
  <2> QED BY <2>2, <2>3, <2>5 DEF Inv
<1>4. CASE run.phase = "battle" /\ NewSkirmish /\ Begin(run.gold, FALSE)
  <2>1. run \in Runs /\ run.gold \in Nat BY Facts DEF Runs
  <2>2. /\ match' \in Matches /\ saved' \in Matches \cup {None}
        /\ CopiesAgree' /\ CopiesChained' /\ ReplyIsOwed'
        /\ reply' \in BOOLEAN /\ unpaid' \in BOOLEAN /\ opening' \in Nat /\ undone' \in Nat
    BY <1>1, <1>4, <2>1, NewAttempt
  <2>3. RerollIsPaid' BY <1>1, Facts DEF RerollIsPaid
  <2>4. TypeOK' BY <1>1, <2>1, <2>2, Facts DEF TypeOK, Runs
  <2> QED BY <2>2, <2>3, <2>4 DEF Inv
<1> QED BY <1>2, <1>3, <1>4 DEF Enter, EnterBattle

LEMMA StutterStep == ASSUME Inv, UNCHANGED vars PROVE Inv'
BY DEF Inv, TypeOK, CopiesAgree, CopiesChained, ReplyIsOwed, RerollIsPaid, vars

LEMMA InvStep == Inv /\ [Next]_vars => Inv'
<1> SUFFICES ASSUME Inv, [Next]_vars PROVE Inv' OBVIOUS
<1>1. CASE \E gold \in Manubiae, winner \in {"none", "player", "draw"} : PlayerMove(gold, winner)
  BY <1>1, PlayerMoveStep
<1>2. CASE \E unit \in (Units \cup {NoUnit}), winner \in Winners : EnemyReply(unit, winner)
  BY <1>2, EnemyReplyStep
<1> QED
  BY <1>1, <1>2, BeginBattleStep, FlagFallsStep, UndoMoveStep, RestartStep, RequestRerollStep,
     CompleteRerollStep, CloseBattleStep, ReloadStep, EnterStep, StutterStep DEF Next

----------------------------------------------------------------------------
(* The theorems *)

\* The Run, the board, the saved copy and the histories keep their types.
THEOREM TypeCorrect == Spec => []TypeOK
<1>1. Inv => TypeOK BY DEF Inv
<1> QED BY <1>1, InitialInv, InvStep, PTL DEF Spec

(* No move is paid twice, no Undo is refunded and no fallen unit stays fallen on
   a board where it stands, however long the Battle, whatever a move may claim,
   and however often the page is lost (commitPlayerMove, undoLastPlayerMove,
   chargeRunBattleUndoCheckpoint, resumeMatch). *)
THEOREM PurseFollows == Spec => []PurseFollowsBoard
<1>1. Inv => PurseFollowsBoard
  <2> SUFFICES ASSUME Inv, Fighting PROVE PurseFollowsBoard
    BY DEF PurseFollowsBoard
  <2>1. match \in Matches /\ Agrees(match, run, opening, undone, unpaid)
    BY Facts DEF Fighting, Started, CopiesAgree
  <2>2. \A board : Due(opening, undone, board) = Owed(board) BY DEF Due, Owed
  <2>3. DOMAIN match.undo = 1..Len(match.undo) BY <2>1 DEF Matches
  <2> QED BY <2>1, <2>2, <2>3 DEF PurseFollowsBoard, Agrees, Faithful
<1> QED BY <1>1, InitialInv, InvStep, PTL DEF Spec

(* One press takes back exactly one decision of the player, for any history and
   any part of it that storage keeps (commitPlayerMove, writeEnvelope). *)
THEOREM UndoSteps == Spec => []UndoIsOneDecision
<1>1. Inv => UndoIsOneDecision
  <2> SUFFICES ASSUME Inv, Fighting PROVE UndoIsOneDecision
    BY DEF UndoIsOneDecision
  <2>1. Chained(match) BY Facts DEF Fighting, Started, CopiesChained
  <2> QED BY <2>1 DEF UndoIsOneDecision, Chained, Follows, Last
<1> QED BY <1>1, InitialInv, InvStep, PTL DEF Spec
=============================================================================
