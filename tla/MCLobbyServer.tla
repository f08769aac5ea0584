--------------------------- MODULE MCLobbyServer ---------------------------
(* Small instances of LobbyServer: matchmaking, which is about two lobbies and who sits, *)
(* looks or listens where, and one match with everything that is decided about it.  They *)
(* are one run with two scenes, since together they would be too large.                  *)
EXTENDS LobbyServer, TLC

PlayerMates == [winner |-> "player", reason |-> "checkmate"]
Stalemate == [winner |-> "draw", reason |-> "stalemate"]

TwoOutcomes == {PlayerMates, Stalemate}

LobbySymmetry == Permutations(Users) \cup Permutations(Ids) \cup Permutations(Levels)

VARIABLE scene

(* Revisions in matchmaking: a Create, a Join, a Leave and a second Join. *)
MatchmakingRevision == 4

Matchmaking ==
  /\ requests = {}
  /\ official = [lv \in Levels |-> None]
  /\ \A id \in Ids : lobbies[id] # None => lobbies[id].stateRevision <= MatchmakingRevision

(* At most one level is published at a time; another is, once the first is withdrawn. *)
Match ==
  /\ Cardinality(minted) <= 1
  /\ \A id \in Ids : streams[id] = {}
  /\ \E lv \in Levels : official[lv] = None

OnStage == IF scene = "matchmaking" THEN Matchmaking ELSE Match

MCInit == Init /\ scene \in {"matchmaking", "match"} /\ OnStage

MCNext == Next /\ UNCHANGED scene /\ OnStage'

MCSpec == MCInit /\ [][MCNext]_<<vars, scene>>
=============================================================================
