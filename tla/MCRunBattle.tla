---------------------------- MODULE MCRunBattle ----------------------------
(* Small instances of RunBattle. *)
EXTENDS RunBattle

MCPurses == {65}
MCManubiae == {0, 20}
=============================================================================
