-------------------------- MODULE MCRunObservation --------------------------
(* Small instances of RunObservation: players and connections are interchangeable. *)
EXTENDS RunObservation, TLC

Interchangeable == Permutations(Players) \cup Permutations(Connections)
=============================================================================
