----------------------------- MODULE MCNetMatch -----------------------------
(* Small instances of NetMatch.  A "quiet" gesture goes on and a "mate" ends the game    *)
(* for both builds; the enemy's build cannot play an "odd" one; and after a "skewed" one *)
(* the player's build sees a mate and the enemy's a stalemate.                           *)
EXTENDS NetMatch

Mate == [winner |-> "player", reason |-> "checkmate"]
Stalemate == [winner |-> "draw", reason |-> "stalemate"]

AllOutcomes == {Mate, Stalemate}

SkewedPlayable == [player |-> Gestures, enemy |-> Gestures \ {"odd"}]

SkewedVerdict ==
  [s \in Sides |-> [g \in Gestures |->
     CASE g = "mate" -> Mate
       [] g = "skewed" -> IF s = "player" THEN Mate ELSE Stalemate
       [] OTHER -> None]]
=============================================================================
