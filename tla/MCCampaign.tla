---------------------------- MODULE MCCampaign ----------------------------
(* Small instances of Campaign. *)
EXTENDS Campaign, TLC

Fight(loot, deals, capacity, prize) == [loot |-> loot, deals |-> deals, capacity |-> capacity, prize |-> prize]
MCWar == <<Fight(TRUE, 2, 3, 60), Fight(FALSE, 2, 4, 60), Fight(TRUE, 1, 2, 60), Fight(TRUE, 1, 2, 0), Fight(FALSE, 1, 2, 0)>>
MCKings == {"grace"}
MCCards == {"pair"}
MCPieces == [c \in MCKings \cup MCCards |-> IF c = "pawn" THEN 1 ELSE 2]
MCCost == [c \in MCCards |-> IF c = "pawn" THEN 10 ELSE 40]
MCFee == [c \in MCKings \cup MCCards |-> IF c = "pawn" THEN 20 ELSE 80]
MCKingBonus == [k \in MCKings |-> 0]
MCLipsana == {"key", "ledger", "dagger", "rifle", "tent"}
MCPayout == [l \in MCLipsana |-> IF l = "dagger" THEN 100 ELSE 0]
===========================================================================
