-------------------------- MODULE MCServerProcess --------------------------
(* Small protocols of the server and its supervisor that share no variable:       *)
(* the watchers of a Run, the manifest of a document, the budget of media reads,  *)
(* and the processes themselves.  What holds of one alone holds of it beside the  *)
(* others, so a behaviour plays one of them and the rest stand still.             *)
(* The manifest has three scenes: one level is published while the art changes,   *)
(* one is read while both catalogs change, or two are while the art does.         *)
EXTENDS RunObservation, TLC

CONSTANTS
  MediaReads, MaxBytes,
  Pids, MaxHangups,
  Levels, Reads, Writes, Slots, MaxArt, MaxUnits

ASSUME MaxBytesAssumption == MaxBytes \in Nat
ASSUME WorkersAssumption == Reads \cap Writes = {} /\ None \notin Reads \cup Writes

VARIABLES
  scene,
  bytesInFlight, waiters, read,
  proc, child, stopping, restarting, killTimer, loose, respawns, exited, hangups,
  doc, catalog, units, rows, entry, inFlight, baking, reads, batch, bake

Budget == INSTANCE ReadBudget WITH Reads <- MediaReads
Processes == INSTANCE Supervisor
Manifest == INSTANCE ThumbnailManifest

Interchangeable == Permutations(Connections) \cup Permutations(Reads)

OneLevel == doc.body[CHOOSE l \in Levels : TRUE] = 0

MCInit ==
  /\ scene \in {"watchers", "budget", "supervisor", "publish", "catalogs", "gallery"}
  /\ Init
  /\ scene # "watchers" => runs = [p \in Players |-> 0]
  /\ Budget!Init
  /\ Processes!Init
  /\ child = CHOOSE p \in Pids : TRUE
  /\ Manifest!Init
  /\ Cardinality({l \in Levels : doc.body[l] # 0}) = IF scene = "gallery" THEN 2 ELSE 1
  /\ scene # "gallery" => OneLevel

watch == <<runs, acks, conns, runObservers, watched>>
budget == <<bytesInFlight, waiters, read>>
processes == <<proc, child, stopping, restarting, killTimer, loose, respawns, exited, hangups>>
manifest == <<doc, catalog, units, rows, entry, inFlight, baking, reads, batch, bake>>

MCNext ==
  /\ UNCHANGED scene
  /\ \/ scene = "watchers" /\ Next /\ UNCHANGED <<budget, processes, manifest>>
     \/ scene = "budget" /\ Budget!Next /\ UNCHANGED <<watch, processes, manifest>>
     \/ scene = "supervisor" /\ Processes!Next /\ UNCHANGED <<watch, budget, manifest>>
     \/ /\ scene = "publish" /\ Manifest!Next /\ UNCHANGED <<watch, budget, processes>>
        /\ catalog'.units = catalog.units /\ OneLevel'
     \/ /\ scene = "catalogs" /\ Manifest!Next /\ UNCHANGED <<watch, budget, processes>>
        /\ doc' = doc
     \/ /\ scene = "gallery" /\ Manifest!Next /\ UNCHANGED <<watch, budget, processes>>
        /\ doc' = doc /\ catalog'.units = catalog.units

MCSpec == MCInit /\ [][MCNext]_<<scene, watch, budget, processes, manifest>>

(* What is asked of each, in its own module. *)
BudgetIsExact == Budget!BudgetIsExact
NobodyWaitsInVain == Budget!NobodyWaitsInVain
NeverStranded == Processes!NeverStranded
ServedBesideItsDocument == Manifest!ServedBesideItsDocument
FreshAsAsked == Manifest!FreshAsAsked
EveryWaitIsServed == Manifest!EveryWaitIsServed
=============================================================================
