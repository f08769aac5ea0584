---------------------------- MODULE MCActiveRun ----------------------------
(* Small instances of ActiveRun: two browsers of one person, and one browser whose page has
   more than one scene and whose messages may be lost.  They are one run with two kinds of
   scene, since together they would be too large. *)
EXTENDS ActiveRun, TLC

DeviceKeySymmetry == Permutations(Devices) \cup Permutations(GuestKeys)

VARIABLE scene      \* "browsers", or the one browser that is used

OneMount == CHOOSE m \in Mounts : TRUE

\* Versions where a page is reloaded as well.
MaxReloadTime == 2

\* Nothing is lost, and one scene of a page hydrates it.
Browsers ==
  /\ faults' = 0
  /\ \A d \in Devices, m \in Mounts \ {OneMount} : calls'[d][m] = Idle
  /\ reloads' = 0 \/ time' <= MaxReloadTime

\* Jobs the player queues in the one page.
MaxPageChain == 2

\* The other browsers stay closed.
OnePage(d) ==
  /\ \A e \in Devices \ {d} : tabs'[e] = tabs[e] /\ calls'[e] = calls[e] /\ session'[e] = session[e]
  /\ faults' + reloads' <= 1 \/ time' <= MaxReloadTime
  /\ Play(d) \/ Start(d) \/ Abandon(d) \/ StartOver(d) => Len(tabs'[d].chain) <= MaxPageChain

MCInit == Init /\ scene \in {"browsers"} \cup Devices

MCNext == Next /\ UNCHANGED scene /\ IF scene = "browsers" THEN Browsers ELSE OnePage(scene)

MCSpec == MCInit /\ [][MCNext]_<<vars, scene>>
=============================================================================
