------------------------ MODULE ServerProcess_proofs ------------------------
(***************************************************************************)
(* Proofs about the small protocols of the server and its supervisor, each *)
(* about the specification of its own module: the watchers of a Run, the   *)
(* processes, the manifest of a document, and the budget of media reads.   *)
(***************************************************************************)
EXTENDS MCServerProcess, FiniteSetTheorems, SequenceTheorems, TLAPS

----------------------------------------------------------------------------
(* The watchers: the count a player is shown.  The inductive invariant adds to
   TypeOK that a connection past its first step knows the account it watches. *)

Conns ==
  [Connections -> [stage: Stages, owner: Players \cup {None}, open: BOOLEAN, row: Nat, shown: Nat]]

OwnersKnown == \A c \in Connections : conns[c].stage # "new" => conns[c].owner \in Players

Inv == TypeOK /\ OwnersKnown /\ CountIsCurrent

\* The size of a set of connections is a number.
LEMMA ObserversCounted == ASSUME NEW S, S \subseteq Connections PROVE Cardinality(S) \in Nat
BY ConnectionsAssumption, FS_Subset, FS_CardinalityType

\* Changing the set of one player and publishing its count keeps every count current.
LEMMA PublishedCount ==
  ASSUME TypeOK, CountIsCurrent, NEW p \in Players, NEW S \in SUBSET Connections,
         runObservers' = [runObservers EXCEPT ![p] = S], PublishObserverCount(p)
  PROVE /\ runObservers' \in [Keys -> SUBSET Connections]
        /\ watched' \in [Players -> Nat \cup {None}]
        /\ CountIsCurrent'
<1>1. runObservers \in [Keys -> SUBSET Connections] /\ watched \in [Players -> Nat \cup {None}]
  BY DEF TypeOK
<1>2. runObservers'[p] = S /\ \A q \in Players \ {p} : runObservers'[q] = runObservers[q]
  BY <1>1 DEF Keys
<1>3. Cardinality(S) \in Nat BY ObserversCounted
<1>4. watched' = [watched EXCEPT ![p] = IF watched[p] = None THEN None ELSE Cardinality(S)]
  <2>1. Cardinality(runObservers'[p]) = Cardinality(S) BY <1>2
  <2> QED BY <2>1 DEF PublishObserverCount
<1>5. watched' \in [Players -> Nat \cup {None}] BY <1>1, <1>3, <1>4
<1>6. ASSUME NEW q \in Players, watched'[q] # None PROVE watched'[q] = Cardinality(runObservers'[q])
  <2>1. CASE q = p BY <2>1, <1>1, <1>2, <1>4, <1>6
  <2>2. CASE q # p BY <2>2, <1>1, <1>2, <1>4, <1>6 DEF CountIsCurrent, Observers
  <2> QED BY <2>1, <2>2
<1> QED BY <1>1, <1>5, <1>6 DEF CountIsCurrent, Observers

\* A step that touches neither the sets nor the counts on screen keeps them current.
LEMMA CountsUntouched ==
  ASSUME CountIsCurrent, UNCHANGED <<runObservers, watched>> PROVE CountIsCurrent'
BY DEF CountIsCurrent, Observers

LEMMA InitialInv == Init => Inv
BY NoneAssumption DEF Init, Inv, TypeOK, Stages, Keys, OwnersKnown, CountIsCurrent

LEMMA InvStep == Inv /\ [Next]_vars => Inv'
<1> SUFFICES ASSUME Inv, [Next]_vars PROVE Inv' OBVIOUS
<1>t. TypeOK /\ OwnersKnown /\ CountIsCurrent BY DEF Inv
<1>c. conns \in Conns BY <1>t DEF TypeOK, Conns
<1>1. ASSUME NEW p \in Players, Save(p) PROVE Inv'
  BY <1>1, <1>t, CountsUntouched DEF Save, Inv, TypeOK, OwnersKnown
<1>2. ASSUME NEW p \in Players, Abandon(p) PROVE Inv'
  BY <1>2, <1>t, CountsUntouched DEF Abandon, Inv, TypeOK, OwnersKnown
<1>3. ASSUME NEW p \in Players, Subscribe(p) PROVE Inv'
  <2>1. Cardinality(runObservers[p]) \in Nat BY <1>t, ObserversCounted DEF TypeOK, Keys
  <2> QED BY <1>3, <1>t, <2>1 DEF Subscribe, Observers, Inv, TypeOK, OwnersKnown, CountIsCurrent
<1>4. ASSUME NEW p \in Players, Unsubscribe(p) PROVE Inv'
  BY <1>4, <1>t DEF Unsubscribe, Observers, Inv, TypeOK, OwnersKnown, CountIsCurrent
<1>5. ASSUME NEW a \in acks, Acknowledge(a) PROVE Inv'
  <2>1. a.revision \in Nat BY <1>t DEF TypeOK
  <2>2. conns' \in Conns BY <1>5, <1>c, <2>1 DEF Acknowledge, PublishRunToObservers, Conns
  <2>3. OwnersKnown'
    BY <1>5, <1>t, <1>c DEF Acknowledge, PublishRunToObservers, OwnersKnown, Conns
  <2> QED BY <1>5, <1>t, <2>2, <2>3, CountsUntouched DEF Acknowledge, Inv, TypeOK, Conns
<1>6. ASSUME NEW c \in Connections, NEW p \in Players, Observe(c, p) PROVE Inv'
  <2>1. conns' \in Conns /\ OwnersKnown'
    BY <1>6, <1>t, <1>c DEF Observe, Conns, Stages, OwnersKnown
  <2> QED BY <1>6, <1>t, <2>1, CountsUntouched DEF Observe, Inv, TypeOK, Conns
<1>7. ASSUME NEW c \in Connections, Admit(c) PROVE Inv'
  <2>1. conns[c].owner \in Players BY <1>7, <1>t DEF Admit, OwnersKnown
  <2>2. conns' \in Conns /\ OwnersKnown'
    BY <1>7, <1>t, <1>c, <2>1 DEF Admit, Conns, Stages, OwnersKnown
  <2>3. runObservers[conns[c].owner] \cup {c} \in SUBSET Connections
    BY <1>t, <2>1 DEF TypeOK, Keys
  <2>4. /\ runObservers' \in [Keys -> SUBSET Connections]
        /\ watched' \in [Players -> Nat \cup {None}]
        /\ CountIsCurrent'
    BY <1>7, <1>t, <2>1, <2>3, PublishedCount DEF Admit
  <2> QED BY <1>7, <1>t, <2>2, <2>4 DEF Admit, Inv, TypeOK, Conns
<1>8. ASSUME NEW c \in Connections, Lookup(c) PROVE Inv'
  <2>1. conns' \in Conns /\ OwnersKnown'
    BY <1>8, <1>t, <1>c DEF Lookup, Conns, Stages, OwnersKnown
  <2> QED BY <1>8, <1>t, <2>1, CountsUntouched DEF Lookup, Inv, TypeOK, Conns
<1>9. ASSUME NEW c \in Connections, ReadRow(c) PROVE Inv'
  <2>1. runs[conns[c].owner] \in Nat BY <1>9, <1>t DEF ReadRow, OwnersKnown, TypeOK
  <2>2. conns' \in Conns /\ OwnersKnown'
    BY <1>9, <1>t, <1>c, <2>1 DEF ReadRow, Conns, Stages, OwnersKnown
  <2> QED BY <1>9, <1>t, <2>2, CountsUntouched DEF ReadRow, Inv, TypeOK, Conns
<1>10. ASSUME NEW c \in Connections, Open(c) PROVE Inv'
  <2>1. conns' \in Conns /\ OwnersKnown'
    BY <1>10, <1>t, <1>c DEF Open, Conns, Stages, OwnersKnown
  <2> QED BY <1>10, <1>t, <2>1, CountsUntouched DEF Open, Inv, TypeOK, Conns
<1>11. ASSUME NEW c \in Connections, Close(c) PROVE Inv'
  <2>1. conns[c].owner \in Players BY <1>11, <1>t DEF Close, OwnersKnown
  <2>2. conns' \in Conns /\ OwnersKnown' BY <1>11, <1>t, <1>c DEF Close, Conns, OwnersKnown
  <2>3. /\ runObservers' \in [Keys -> SUBSET Connections]
        /\ watched' \in [Players -> Nat \cup {None}]
        /\ CountIsCurrent'
    <3>1. CASE conns[c].stage = "watching"
      <4>1. runObservers[conns[c].owner] \ {c} \in SUBSET Connections
        BY <1>t, <2>1 DEF TypeOK, Keys
      <4> QED BY <3>1, <4>1, <1>11, <1>t, <2>1, PublishedCount DEF Close
    <3>2. CASE conns[c].stage # "watching"
      BY <3>2, <1>11, <1>t, CountsUntouched DEF Close, TypeOK
    <3> QED BY <3>1, <3>2
  <2> QED BY <1>11, <1>t, <2>2, <2>3 DEF Close, Inv, TypeOK, Conns
<1>12. CASE UNCHANGED vars
  BY <1>12, <1>t, CountsUntouched DEF vars, Inv, TypeOK, OwnersKnown
<1> QED BY <1>1, <1>2, <1>3, <1>4, <1>5, <1>6, <1>7, <1>8, <1>9, <1>10, <1>11, <1>12 DEF Next

\* The rows, the connections, the sets and the counts keep their types.
THEOREM TypeCorrect == Spec => []TypeOK
<1>1. Inv => TypeOK BY DEF Inv
<1> QED BY <1>1, InitialInv, InvStep, PTL DEF Spec

\* The count on a player's screen is the size of the set of their observers, whichever
\* watchers come and go, and whether or not the handler of one hears that it is gone.
THEOREM CountsCurrent == Spec => []CountIsCurrent
<1>1. Inv => CountIsCurrent BY DEF Inv
<1> QED BY <1>1, InitialInv, InvStep, PTL DEF Spec

----------------------------------------------------------------------------
(* The supervisor *)

Dead(p) == proc[p] \in {"gone", "code", "signal"}

States == {"gone", "up", "asked", "killed", "code", "signal"}

\* What is left to happen of the processes that died and of a stop.
Pending ==
  /\ proc \in [Pids -> States] /\ child \in Pids
  /\ killTimer \in 0..Processes!KillDelay \cup {None}
  /\ respawns \in [0..Processes!RespawnDelay -> Nat]

\* A child that is gone has a respawn ahead ...
RespawnAhead == Dead(child) => \E s \in 0..Processes!RespawnDelay : respawns[s] > 0

\* ... and after a stop every respawn comes before the kill timer: KillDelay is the longer one.
KillOutlivesRespawns ==
  stopping => \A s \in 0..Processes!RespawnDelay :
                respawns[s] > 0 => killTimer # None /\ s < killTimer

\* A stop is carried out by the kill timer, or by the signal it has sent.
StopUnderWay == stopping => killTimer # None \/ proc[child] = "killed"

Supervised == Pending /\ (~exited => RespawnAhead /\ KillOutlivesRespawns /\ StopUnderWay)

LEMMA Delays == /\ Processes!KillDelay = 5 /\ Processes!RespawnDelay = 1
                /\ 0..Processes!RespawnDelay = {0, 1}
<1>1. Processes!KillDelay = 5 /\ Processes!RespawnDelay = 1
  BY DEF Processes!KillDelay, Processes!RespawnDelay
<1>2. 0..1 = {0, 1}
  OBVIOUS
<1> QED BY <1>1, <1>2

LEMMA SupervisedInit == Processes!Init => Supervised
BY Delays, NoneAssumption
   DEF Processes!Init, Supervised, Pending, RespawnAhead, KillOutlivesRespawns, StopUnderWay, Dead, States

\* A new child is alive.
LEMMA StartedChild ==
  ASSUME NEW procs \in [Pids -> States], Processes!StartChild(procs)
  PROVE  child' \in Pids /\ proc' \in [Pids -> States] /\ proc'[child'] = "up"
BY DEF Processes!StartChild, States

\* A signal kills nobody at once.
LEMMA SignalledChild ==
  ASSUME Pending, NEW how \in {"asked", "killed"}
  PROVE  /\ Processes!Signalled(how) \in [Pids -> States]
         /\ Processes!Signalled(how)[child] =
              IF proc[child] \in {"up", "asked"} THEN how ELSE proc[child]
BY DEF Processes!Signalled, Pending, States

LEMMA SupervisedStep == Supervised /\ [Processes!Next]_(Processes!vars) => Supervised'
<1> SUFFICES ASSUME Supervised, [Processes!Next]_(Processes!vars) PROVE Supervised'
  OBVIOUS
<1> USE Delays, NoneAssumption DEF Supervised
<1>1. ASSUME NEW p \in Pids, NEW how \in {"code", "signal"}, Processes!Exit(p, how) PROVE Supervised'
  <2> DEFINE procs == [proc EXCEPT ![p] = IF p = child THEN how ELSE "gone"]
  <2>1. procs \in [Pids -> States] /\ procs[child] = IF p = child THEN how ELSE proc[child]
    BY DEF Pending, States
  <2> HIDE DEF procs
  <2>2. CASE stopping
    BY <1>1, <2>1, <2>2 DEF Processes!Exit, Pending, procs
  <2>3. CASE ~stopping /\ restarting
    <3>1. /\ Processes!StartChild(procs) /\ UNCHANGED <<respawns, exited, stopping>> /\ killTimer' = None
      BY <1>1, <2>3 DEF Processes!Exit, procs
    <3>2. child' \in Pids /\ proc' \in [Pids -> States] /\ proc'[child'] = "up"
      BY <2>1, <3>1, StartedChild
    <3> QED BY <2>3, <3>1, <3>2
            DEF Pending, RespawnAhead, KillOutlivesRespawns, StopUnderWay, Dead
  <2>4. CASE ~stopping /\ ~restarting
    <3>1. /\ respawns' = [respawns EXCEPT ![1] = @ + 1] /\ proc' = procs
          /\ UNCHANGED <<child, exited, stopping>> /\ killTimer' = None
      BY <1>1, <2>4 DEF Processes!Exit, procs
    <3>2. respawns' \in [{0, 1} -> Nat] /\ respawns'[1] > 0
      BY <3>1 DEF Pending
    <3> QED BY <2>1, <2>4, <3>1, <3>2
            DEF Pending, RespawnAhead, KillOutlivesRespawns, StopUnderWay
  <2> QED BY <2>2, <2>3, <2>4
<1>2. ASSUME Processes!TerminateChild, UNCHANGED <<respawns, exited>> PROVE Supervised'
  <2>1. /\ proc' \in [Pids -> States] /\ child' = child
        /\ proc'[child] = IF proc[child] \in {"up", "asked"} THEN "asked" ELSE proc[child]
        /\ killTimer' = 5
    BY <1>2, SignalledChild DEF Processes!TerminateChild
  <2> QED BY <1>2, <2>1 DEF Pending, RespawnAhead, KillOutlivesRespawns, StopUnderWay, Dead
<1>3. CASE Processes!RestartChild
  <2>1. UNCHANGED <<stopping, respawns, exited>> /\ ~exited
    BY <1>3 DEF Processes!RestartChild
  <2>2. CASE UNCHANGED <<proc, child, killTimer>>
    BY <2>1, <2>2 DEF Pending, RespawnAhead, KillOutlivesRespawns, StopUnderWay, Dead
  <2>3. CASE Processes!Ended /\ Processes!StartChild(proc) /\ UNCHANGED killTimer
    <3>1. child' \in Pids /\ proc' \in [Pids -> States] /\ proc'[child'] = "up"
      BY <2>3, StartedChild DEF Pending
    <3>2. proc[child] = "code"
      BY <2>3 DEF Processes!Ended
    <3> QED BY <2>1, <2>3, <3>1, <3>2
            DEF Pending, RespawnAhead, KillOutlivesRespawns, StopUnderWay, Dead
  <2>4. CASE Processes!TerminateChild
    BY <1>2, <2>1, <2>4
  <2> QED BY <1>3, <2>2, <2>3, <2>4 DEF Processes!RestartChild
<1>4. CASE Processes!Stop
  <2>1. CASE Processes!TerminateChild /\ UNCHANGED exited
    BY <1>2, <1>4, <2>1 DEF Processes!Stop
  <2>2. CASE exited' = TRUE /\ UNCHANGED <<proc, child, killTimer>>
    BY <1>4, <2>2 DEF Processes!Stop, Pending
  <2> QED BY <1>4, <2>1, <2>2 DEF Processes!Stop
<1>5. CASE Processes!KillFires
  <2>1. /\ proc' \in [Pids -> States] /\ UNCHANGED <<child, stopping, respawns, exited>>
        /\ proc'[child] = IF proc[child] \in {"up", "asked"} THEN "killed" ELSE proc[child]
    BY <1>5, SignalledChild DEF Processes!KillFires
  <2>2. CASE UNCHANGED killTimer
    BY <2>1, <2>2 DEF Pending, RespawnAhead, KillOutlivesRespawns, StopUnderWay, Dead
  <2>3. CASE killTimer = 0 /\ killTimer' = None
    <3>1. ~exited /\ stopping => \A s \in {0, 1} : ~(respawns[s] > 0)
      BY <2>3 DEF Pending, KillOutlivesRespawns
    <3>2. ~exited /\ stopping => ~Dead(child)
      BY <3>1 DEF RespawnAhead
    <3>3. ~exited /\ stopping => proc'[child] = "killed"
      BY <2>1, <3>2 DEF Dead, Pending, States
    <3> QED BY <2>1, <2>3, <3>1, <3>3
            DEF Pending, RespawnAhead, KillOutlivesRespawns, StopUnderWay, Dead
  <2> QED BY <1>5, <2>2, <2>3 DEF Processes!KillFires
<1>6. CASE Processes!RespawnFires
  <2>1. child' \in Pids /\ proc' \in [Pids -> States] /\ proc'[child'] = "up"
    BY <1>6, StartedChild DEF Processes!RespawnFires, Pending
  <2>2. /\ ~exited /\ respawns[0] > 0 /\ respawns' = [respawns EXCEPT ![0] = @ - 1]
        /\ UNCHANGED <<stopping, killTimer, exited>>
    BY <1>6 DEF Processes!RespawnFires
  <2>3. respawns' \in [{0, 1} -> Nat] /\ \A s \in {0, 1} : respawns'[s] > 0 => respawns[s] > 0
    BY <2>2 DEF Pending
  <2> QED BY <2>1, <2>2, <2>3 DEF Pending, RespawnAhead, KillOutlivesRespawns, StopUnderWay, Dead
<1>7. CASE Processes!Tick
  <2>1. /\ ~exited /\ killTimer # 0 /\ ~(respawns[0] > 0)
        /\ killTimer' = IF killTimer = None THEN None ELSE killTimer - 1
        /\ respawns' = [s \in {0, 1} |-> IF s = 1 THEN 0 ELSE respawns[s + 1]]
        /\ UNCHANGED <<proc, child, stopping, exited>>
    BY <1>7 DEF Processes!Tick, Processes!Due
  <2>2. respawns' \in [{0, 1} -> Nat] /\ respawns'[0] = respawns[1] /\ respawns'[1] = 0
    BY <2>1 DEF Pending
  <2>3. killTimer' \in 0..5 \cup {None} /\ (killTimer # None => killTimer' = killTimer - 1 /\ killTimer' # None)
    BY <2>1 DEF Pending
  <2>4. RespawnAhead' /\ StopUnderWay'
    BY <2>1, <2>2, <2>3 DEF RespawnAhead, StopUnderWay, Dead, Pending
  <2>5. KillOutlivesRespawns'
    BY <2>1, <2>2, <2>3 DEF KillOutlivesRespawns, Pending
  <2> QED BY <2>1, <2>2, <2>3, <2>4, <2>5 DEF Pending
<1>8. CASE UNCHANGED Processes!vars
  BY <1>8 DEF Processes!vars, Pending, RespawnAhead, KillOutlivesRespawns, StopUnderWay, Dead
<1> QED BY <1>1, <1>3, <1>4, <1>5, <1>6, <1>7, <1>8 DEF Processes!Next

\* Something always lies ahead of the supervisor, whenever processes die, however the signals
\* of the platform meet, and however many processes there are: no stop goes unanswered because
\* the timer that should have enforced it fired on a child already gone (supervisor.js).
THEOREM SupervisorGoesOn == Processes!Spec => []NeverStranded
<1>1. Supervised => NeverStranded
  <2> SUFFICES ASSUME Supervised, ~exited PROVE NeverStranded
    BY DEF NeverStranded, Processes!NeverStranded
  <2>1. CASE stopping
    BY <2>1 DEF Supervised, StopUnderWay, NeverStranded, Processes!NeverStranded
  <2>2. CASE ~stopping /\ Dead(child)
    <3>1. DOMAIN respawns = 0..Processes!RespawnDelay
      BY DEF Supervised, Pending
    <3> QED BY <2>2, <3>1 DEF Supervised, RespawnAhead, NeverStranded, Processes!NeverStranded
  <2>3. CASE ~stopping /\ ~Dead(child)
    <3>1. child \in Processes!Alive
      BY <2>3 DEF Supervised, Pending, Dead, States, Processes!Alive
    <3> QED BY <2>3, <3>1 DEF NeverStranded, Processes!NeverStranded
  <2> QED BY <2>1, <2>2, <2>3
<1> QED BY <1>1, SupervisedInit, SupervisedStep, PTL DEF Processes!Spec

----------------------------------------------------------------------------
(* The manifest: types *)

Bake == [at: {"idle", "load", "project", "ensure", "join", "behind",
              "slot", "create", "render", "done", "failed"},
         on: Manifest!Workers \cup {None}, inputs: Manifest!Catalogs,
         content: Manifest!Contents \cup {None}]

Batch == [at: {"idle", "load", "project", "check", "bake", "over"},
          body: [Levels -> Nat], inputs: Manifest!Catalogs, content: Manifest!Manifests]

Reader == [stage: {"new", "document", "keyed", "waiting", "answered", "failed", "lost"},
           doc: Manifest!Documents, asked: Manifest!Catalogs, on: Reads \cup {None},
           answer: Manifest!Manifests \cup {None}, source: {"memo", "stale", "computed", "none"}]

Entry == [revision: Nat, asked: Manifest!Catalogs, value: Manifest!Manifests, settled: BOOLEAN]

Units == [cache: Nat \cup {None}, fills: SUBSET Nat, committed: BOOLEAN]

CatalogsTyped ==
  /\ catalog \in Manifest!Catalogs
  /\ units \in Units

BakesTyped ==
  /\ rows \in Manifest!Manifests
  /\ baking \in [Levels -> Manifest!Workers \cup {None}]
  /\ bake \in [Manifest!Workers -> [Levels -> Bake]]

MemoTyped ==
  /\ doc \in Manifest!Documents
  /\ entry \in Entry \cup {None}
  /\ inFlight \in Reads \cup {None}
  /\ reads \in [Reads -> Reader]
  /\ batch \in [Manifest!Workers -> Batch]

LEMMA TypedParts == Manifest!TypeOK <=> CatalogsTyped /\ BakesTyped /\ MemoTyped
BY DEF Manifest!TypeOK, CatalogsTyped, BakesTyped, MemoTyped, Bake, Batch, Reader, Entry, Units

LEMMA WorkerSets == Reads \subseteq Manifest!Workers /\ Writes \subseteq Manifest!Workers
                    /\ \A w \in Manifest!Workers : w \in Reads \/ w \in Writes
BY DEF Manifest!Workers

LEMMA StartTyped == Manifest!Start \in Manifest!Catalogs /\ Manifest!Start.art = 1
BY DEF Manifest!Start, Manifest!Catalogs

LEMMA NothingTyped == Manifest!Nothing \in Manifest!Manifests /\ \A l \in Levels : Manifest!Nothing[l] = None
BY DEF Manifest!Nothing, Manifest!Manifests

LEMMA UnusedTyped ==
  ASSUME NEW at \in {"idle", "over"}
  PROVE  Manifest!Unused(at) \in Batch /\ Manifest!Unused(at).at = at
BY StartTyped, NothingTyped DEF Manifest!Unused, Batch

LEMMA SettledTyped ==
  ASSUME NEW at \in {"idle", "load", "done", "failed"}
  PROVE  Manifest!Settled(at) \in Bake /\ Manifest!Settled(at).at = at
BY StartTyped DEF Manifest!Settled, Bake

\* The inputs of a render are of a catalog that is at least as new as the database's art.
LEMMA InputsTyped ==
  ASSUME CatalogsTyped
  PROVE  /\ Manifest!RenderInputs \in Manifest!Catalogs
         /\ Manifest!RenderInputs.art = catalog.art
<1>1. Manifest!PublicUnits \in Nat /\ catalog.art \in Nat
  BY DEF CatalogsTyped, Units, Manifest!PublicUnits, Manifest!Catalogs
<1> QED BY <1>1 DEF Manifest!RenderInputs, Manifest!Catalogs

LEMMA FillingTyped ==
  ASSUME CatalogsTyped, units' = Manifest!Filling, catalog' = catalog
  PROVE  CatalogsTyped'
<1> DEFINE fills == units.fills \cup {catalog.units}
<1>1. units.fills \subseteq Nat /\ catalog.units \in Nat
  BY DEF CatalogsTyped, Units, Manifest!Catalogs
<1>2. fills \subseteq Nat
  BY <1>1
<1>3. units' = units \/ units' = [units EXCEPT !.fills = fills]
  BY DEF Manifest!Filling
<1> HIDE DEF fills
<1> QED BY <1>2, <1>3 DEF CatalogsTyped, Units

LEMMA ContentTyped ==
  ASSUME NEW body \in Nat, NEW inputs \in Manifest!Catalogs
  PROVE  /\ Manifest!ContentVersion(body, inputs) \in Manifest!Contents
         /\ Manifest!ContentVersion(body, inputs).body = body
         /\ Manifest!ContentVersion(body, inputs).art = inputs.art
BY DEF Manifest!ContentVersion, Manifest!Contents, Manifest!Catalogs

LEMMA Committed ==
  ASSUME NEW u \in Units
  PROVE  /\ [u EXCEPT !.committed = TRUE]
              \in Units
         /\ [u EXCEPT !.committed = FALSE, !.cache = None]
              \in Units
<1>1. ASSUME NEW f, f \in BOOLEAN PROVE [u EXCEPT !.committed = f] \in Units
  BY <1>1 DEF Units
<1>2. ASSUME NEW v \in Units PROVE [v EXCEPT !.cache = None] \in Units
  BY DEF Units
<1>3. [u EXCEPT !.committed = TRUE] \in Units /\ [u EXCEPT !.committed = FALSE] \in Units
  BY <1>1, Zenon
<1>4. [[u EXCEPT !.committed = FALSE] EXCEPT !.cache = None] \in Units
  BY <1>2, <1>3, Zenon
<1> QED BY <1>3, <1>4

LEMMA CatalogsStep ==
  ASSUME CatalogsTyped,
         \/ Manifest!CommitArt \/ Manifest!CommitUnits \/ Manifest!InvalidateUnits
         \/ Manifest!FillUnits \/ Manifest!ExpireUnits
  PROVE  /\ CatalogsTyped' /\ catalog'.art >= catalog.art
         /\ UNCHANGED <<doc, rows, entry, inFlight, baking, reads, batch, bake>>
<1>0. /\ catalog \in Manifest!Catalogs /\ catalog.art \in Nat /\ catalog.units \in Nat
      /\ units \in Units
  BY DEF CatalogsTyped, Manifest!Catalogs
<1>1. CASE Manifest!CommitArt
  BY <1>0, <1>1 DEF Manifest!CommitArt, CatalogsTyped, Manifest!Catalogs
<1>2. CASE Manifest!CommitUnits
  <2>1. /\ catalog' = [catalog EXCEPT !.units = @ + 1]
        /\ units' = [units EXCEPT !.committed = TRUE]
        /\ UNCHANGED <<doc, rows, entry, inFlight, baking, reads, batch, bake>>
    BY <1>2 DEF Manifest!CommitUnits
  <2>2. units' \in Units
    BY <1>0, <2>1, Committed
  <2>3. catalog' \in Manifest!Catalogs /\ catalog'.art = catalog.art
    BY <1>0, <2>1 DEF Manifest!Catalogs
  <2> QED BY <1>0, <2>1, <2>2, <2>3 DEF CatalogsTyped
<1>3. CASE Manifest!InvalidateUnits
  <2>1. /\ units' = [units EXCEPT !.committed = FALSE, !.cache = None]
        /\ UNCHANGED <<doc, catalog, rows, entry, inFlight, baking, reads, batch, bake>>
    BY <1>3 DEF Manifest!InvalidateUnits
  <2>2. units' \in Units
    BY <1>0, <2>1, Committed
  <2> QED BY <1>0, <2>1, <2>2 DEF CatalogsTyped
<1>4. CASE Manifest!FillUnits
  <2>1. PICK u \in units.fills :
          /\ units' = [units EXCEPT !.fills = @ \ {u}, !.cache = u]
          /\ UNCHANGED <<doc, catalog, rows, entry, inFlight, baking, reads, batch, bake>>
    BY <1>4 DEF Manifest!FillUnits
  <2>2. u \in Nat /\ units.fills \ {u} \subseteq Nat
    BY <1>0 DEF Units
  <2> DEFINE left == units.fills \ {u}
  <2>3. units' = [units EXCEPT !.fills = left, !.cache = u]
    BY <2>1
  <2>4. left \subseteq Nat
    BY <2>2
  <2> HIDE DEF left
  <2>5. units' \in Units
    BY <1>0, <2>2, <2>3, <2>4 DEF Units
  <2> QED BY <1>0, <2>1, <2>5 DEF CatalogsTyped
<1>5. CASE Manifest!ExpireUnits
  <2>1. /\ units' = [units EXCEPT !.cache = None]
        /\ UNCHANGED <<doc, catalog, rows, entry, inFlight, baking, reads, batch, bake>>
    BY <1>5 DEF Manifest!ExpireUnits
  <2>2. units' \in Units
    BY <1>0, <2>1 DEF Units
  <2> QED BY <1>0, <2>1, <2>2 DEF CatalogsTyped
<1> QED BY <1>1, <1>2, <1>3, <1>4, <1>5

----------------------------------------------------------------------------
(* The manifest: the derivatives *)

\* Busy and Over, in given derivatives.
BusyIn(bakes, w, l) == bakes[w][l].at \in {"slot", "create", "render"}
OverIn(bakes, w, l) == bakes[w][l].at \in {"done", "failed"}

\* Whoever a level names is at work on it; whoever awaits a derivative awaits one that is
\* at work or over; nothing is baked before the batch of its worker has been projected.
NamedAreBusy == \A l \in Levels : baking[l] # None => BusyIn(bake, baking[l], l)

JoinedAreBusy ==
  \A w \in Manifest!Workers, l \in Levels :
    bake[w][l].at \in {"join", "behind"} =>
      /\ bake[w][l].on \in Manifest!Workers
      /\ BusyIn(bake, bake[w][l].on, l) \/ OverIn(bake, bake[w][l].on, l)

UnpreparedAreIdle ==
  \A w \in Manifest!Workers, l \in Levels :
    batch[w].at \in {"idle", "load", "project", "check"} => bake[w][l].at = "idle"

BakesServed == NamedAreBusy /\ JoinedAreBusy /\ UnpreparedAreIdle

LEMMA Phrases ==
  /\ \A w, l : Manifest!Busy(w, l) <=> BusyIn(bake, w, l)
  /\ \A w, l : Manifest!Over(w, l) <=> OverIn(bake, w, l)
  /\ \A w, l : Manifest!At(w, l) = bake[w][l].at
BY DEF Manifest!Busy, Manifest!Over, Manifest!At, BusyIn, OverIn

\* The derivative of level l of worker w becomes c, and baking[l] becomes b.
BakeCell(w, l, c, b) ==
  /\ bake' = [bake EXCEPT ![w] = [@ EXCEPT ![l] = c]]
  /\ baking' = [baking EXCEPT ![l] = b]
  /\ batch' = batch

LEMMA BakeCellStep ==
  ASSUME BakesTyped, BakesServed, rows' \in Manifest!Manifests,
         NEW w \in Manifest!Workers, NEW l \in Levels, NEW c \in Bake,
         NEW b \in Manifest!Workers \cup {None}, BakeCell(w, l, c, b),
         ~(bake[w][l].at \in {"idle", "done", "failed"}),
         BusyIn(bake, w, l) => c.at \in {"slot", "create", "render", "done", "failed"},
         c.at \in {"join", "behind"} =>
           /\ c.on \in Manifest!Workers \ {w}
           /\ BusyIn(bake, c.on, l) \/ OverIn(bake, c.on, l),
         \/ b = w /\ c.at \in {"slot", "create", "render"}
         \/ b = None
         \/ b = baking[l] /\ b # w
  PROVE  BakesTyped' /\ BakesServed'
<1>1. BakesTyped'
  BY DEF BakesTyped, BakeCell
<1>2. bake'[w][l] = c
  BY DEF BakesTyped, BakeCell
<1>3. ASSUME NEW v \in Manifest!Workers, NEW k \in Levels, v # w \/ k # l
      PROVE  bake'[v][k] = bake[v][k]
  BY <1>3 DEF BakesTyped, BakeCell
<1>4. baking'[l] = b /\ \A k \in Levels \ {l} : baking'[k] = baking[k]
  BY DEF BakesTyped, BakeCell
<1>5. ASSUME NEW v \in Manifest!Workers, NEW k \in Levels, BusyIn(bake, v, k) \/ OverIn(bake, v, k)
      PROVE  BusyIn(bake', v, k) \/ OverIn(bake', v, k)
  BY <1>2, <1>3, <1>5 DEF BusyIn, OverIn
<1>6. ASSUME NEW k \in Levels, baking'[k] # None PROVE BusyIn(bake', baking'[k], k)
  <2>1. CASE k = l /\ b = w
    BY <1>2, <1>4, <1>6, <2>1 DEF BusyIn, NamedAreBusy, BakesServed
  <2>2. CASE k # l \/ b # w
    <3>1. baking'[k] = baking[k] /\ baking[k] \in Manifest!Workers /\ (k # l \/ baking[k] # w)
      BY <1>4, <1>6, <2>2 DEF BakesTyped
    <3>2. BusyIn(bake, baking[k], k)
      BY <1>6, <3>1 DEF BakesServed, NamedAreBusy
    <3> QED BY <1>3, <3>1, <3>2 DEF BusyIn
  <2> QED BY <2>1, <2>2
<1>7. ASSUME NEW v \in Manifest!Workers, NEW k \in Levels, bake'[v][k].at \in {"join", "behind"}
      PROVE  /\ bake'[v][k].on \in Manifest!Workers
             /\ BusyIn(bake', bake'[v][k].on, k) \/ OverIn(bake', bake'[v][k].on, k)
  <2>1. CASE v = w /\ k = l
    BY <1>2, <1>5, <1>7, <2>1
  <2>2. CASE v # w \/ k # l
    BY <1>3, <1>5, <1>7, <2>2 DEF BakesServed, JoinedAreBusy
  <2> QED BY <2>1, <2>2
<1>8. ASSUME NEW v \in Manifest!Workers, NEW k \in Levels,
             batch[v].at \in {"idle", "load", "project", "check"}
      PROVE  bake'[v][k].at = "idle"
  BY <1>3, <1>8 DEF BakesServed, UnpreparedAreIdle
<1> QED BY <1>1, <1>6, <1>7, <1>8 DEF BakesServed, NamedAreBusy, JoinedAreBusy, UnpreparedAreIdle, BakeCell

\* What a worker does with one of its derivatives.
OneBake(w, l) ==
  \/ Manifest!Ensure(w, l) \/ Manifest!Resume(w, l) \/ Manifest!LoadAgain(w, l)
  \/ Manifest!ProjectAgain(w, l) \/ Manifest!TakeSlot(w, l) \/ Manifest!Create(w, l)
  \/ Manifest!Render(w, l)

LEMMA OneBakeStep ==
  ASSUME CatalogsTyped, BakesTyped, MemoTyped, BakesServed,
         NEW w \in Manifest!Workers, NEW l \in Levels, OneBake(w, l)
  PROVE  /\ CatalogsTyped' /\ BakesTyped' /\ BakesServed' /\ catalog' = catalog
         /\ UNCHANGED <<doc, entry, inFlight, reads, batch>>
<1> USE Phrases
<1>0. /\ bake[w][l] \in Bake /\ baking[l] \in Manifest!Workers \cup {None}
      /\ bake \in [Manifest!Workers -> [Levels -> Bake]]
      /\ baking \in [Levels -> Manifest!Workers \cup {None}]
  BY DEF BakesTyped
<1>1. CASE Manifest!Ensure(w, l)
  <2>1. /\ Manifest!At(w, l) = "ensure"
        /\ UNCHANGED <<doc, catalog, units, rows, entry, inFlight, reads, batch>>
    BY <1>1 DEF Manifest!Ensure
  <2>2. CASE baking[l] = None
    <3> DEFINE d == [bake[w][l] EXCEPT !.at = "slot"]
    <3>1. d \in Bake /\ d.at = "slot"
      BY <1>0 DEF Bake
    <3>2. BakeCell(w, l, d, w)
      BY <1>1, <2>1, <2>2 DEF Manifest!Ensure, BakeCell
    <3> HIDE DEF d
    <3> QED BY <2>1, <3>1, <3>2, BakeCellStep DEF CatalogsTyped, BakesTyped, BusyIn
  <2>3. CASE baking[l] # None
    <3> DEFINE how == IF bake[baking[l]][l].content = bake[w][l].content THEN "join" ELSE "behind"
               d == [bake[w][l] EXCEPT !.on = baking[l], !.at = how]
    <3>1. how \in {"join", "behind"}
      OBVIOUS
    <3>2. BakeCell(w, l, d, baking[l])
      BY <1>0, <1>1, <2>1, <2>3 DEF Manifest!Ensure, BakeCell
    <3> HIDE DEF how
    <3>3. d \in Bake /\ d.at = how /\ d.on = baking[l]
      BY <1>0, <2>3, <3>1 DEF Bake
    <3>4. BusyIn(bake, baking[l], l) /\ baking[l] \in Manifest!Workers /\ baking[l] # w
      BY <1>0, <2>1, <2>3 DEF BakesServed, NamedAreBusy, BusyIn
    <3> HIDE DEF d
    <3> QED BY <2>1, <3>1, <3>2, <3>3, <3>4, BakeCellStep
            DEF CatalogsTyped, BakesTyped, BusyIn
  <2> QED BY <2>2, <2>3
<1>2. CASE Manifest!Resume(w, l)
  <2>1. /\ Manifest!At(w, l) \in {"join", "behind"} /\ Manifest!Over(bake[w][l].on, l)
        /\ UNCHANGED <<doc, catalog, units, rows, entry, inFlight, baking, reads, batch>>
    BY <1>2 DEF Manifest!Resume
  <2> DEFINE d == IF bake[w][l].at = "join" THEN Manifest!Settled(Manifest!At(bake[w][l].on, l))
                  ELSE Manifest!Settled("load")
  <2>2. d \in Bake /\ d.at \in {"load", "done", "failed"}
    BY <2>1, SettledTyped DEF Manifest!Over
  <2>3. BakeCell(w, l, d, baking[l])
    BY <1>0, <1>2, <2>1 DEF Manifest!Resume, BakeCell
  <2>4. baking[l] # w \/ baking[l] = None
    BY <2>1 DEF BakesServed, NamedAreBusy, BusyIn
  <2> HIDE DEF d
  <2> QED BY <1>0, <2>1, <2>2, <2>3, <2>4, BakeCellStep DEF CatalogsTyped, BakesTyped, BusyIn
<1>3. CASE Manifest!LoadAgain(w, l)
  <2>1. /\ Manifest!At(w, l) = "load" /\ units' = Manifest!Filling
        /\ UNCHANGED <<doc, catalog, rows, entry, inFlight, baking, reads, batch>>
    BY <1>3 DEF Manifest!LoadAgain
  <2> DEFINE d == [bake[w][l] EXCEPT !.at = "project", !.inputs = Manifest!RenderInputs]
  <2>2. d \in Bake /\ d.at = "project"
    BY <1>0, InputsTyped DEF Bake
  <2>3. BakeCell(w, l, d, baking[l])
    BY <1>0, <1>3, <2>1 DEF Manifest!LoadAgain, BakeCell
  <2>4. baking[l] # w \/ baking[l] = None
    BY <2>1 DEF BakesServed, NamedAreBusy, BusyIn
  <2> HIDE DEF d
  <2>5. BakesTyped' /\ BakesServed'
    BY <1>0, <2>1, <2>2, <2>3, <2>4, BakeCellStep DEF BakesTyped, BusyIn
  <2> QED BY <2>1, <2>5, FillingTyped
<1>4. CASE Manifest!ProjectAgain(w, l)
  <2>1. /\ Manifest!At(w, l) = "project"
        /\ UNCHANGED <<doc, catalog, units, rows, entry, inFlight, baking, reads, batch>>
    BY <1>4 DEF Manifest!ProjectAgain
  <2> DEFINE content == Manifest!ContentVersion(batch[w].body[l], bake[w][l].inputs)
             d == [bake[w][l] EXCEPT !.at = "ensure", !.content = content]
  <2>2. content \in Manifest!Contents
    BY <1>0, ContentTyped DEF Bake, Batch, MemoTyped
  <2>3. \/ BakeCell(w, l, d, baking[l])
        \/ BakeCell(w, l, Manifest!Settled("failed"), baking[l])
    BY <1>0, <1>4, <2>1 DEF Manifest!ProjectAgain, BakeCell
  <2> HIDE DEF content
  <2>4. d \in Bake /\ d.at = "ensure"
    BY <1>0, <2>2 DEF Bake
  <2>5. baking[l] # w \/ baking[l] = None
    BY <2>1 DEF BakesServed, NamedAreBusy, BusyIn
  <2> HIDE DEF d
  <2> QED BY <1>0, <2>1, <2>3, <2>4, <2>5, SettledTyped, BakeCellStep
          DEF CatalogsTyped, BakesTyped, BusyIn
<1>5. CASE Manifest!TakeSlot(w, l)
  <2>1. /\ Manifest!At(w, l) = "slot"
        /\ UNCHANGED <<doc, catalog, units, rows, entry, inFlight, baking, reads, batch>>
    BY <1>5 DEF Manifest!TakeSlot
  <2> DEFINE d == [bake[w][l] EXCEPT !.at = "create"]
  <2>2. d \in Bake /\ d.at = "create"
    BY <1>0 DEF Bake
  <2>3. BakeCell(w, l, d, baking[l])
    BY <1>0, <1>5, <2>1 DEF Manifest!TakeSlot, BakeCell
  <2> HIDE DEF d
  <2> QED BY <1>0, <2>1, <2>2, <2>3, BakeCellStep DEF CatalogsTyped, BakesTyped, BusyIn
<1> DEFINE freed == IF baking[l] = w THEN None ELSE baking[l]
<1>6. ASSUME NEW how \in {"done", "failed"}, Manifest!Settle(w, l, how), BusyIn(bake, w, l),
             rows' \in Manifest!Manifests,
             UNCHANGED <<doc, catalog, units, entry, inFlight, reads, batch>>
      PROVE  /\ CatalogsTyped' /\ BakesTyped' /\ BakesServed' /\ catalog' = catalog
             /\ UNCHANGED <<doc, entry, inFlight, reads, batch>>
  <2>1. BakeCell(w, l, Manifest!Settled(how), freed)
    BY <1>0, <1>6 DEF Manifest!Settle, BakeCell
  <2>2. Manifest!Settled(how) \in Bake /\ Manifest!Settled(how).at = how
    BY SettledTyped
  <2>3. freed \in Manifest!Workers \cup {None}
    BY <1>0
  <2>4. freed = None \/ (freed = baking[l] /\ freed # w)
    OBVIOUS
  <2> HIDE DEF freed
  <2> QED BY <1>6, <2>1, <2>2, <2>3, <2>4, BakeCellStep DEF CatalogsTyped, BusyIn
<1>7. CASE Manifest!Create(w, l)
  <2>1. /\ Manifest!At(w, l) = "create"
        /\ UNCHANGED <<doc, catalog, units, rows, entry, inFlight, reads, batch>>
    BY <1>7 DEF Manifest!Create
  <2>2. CASE Manifest!Settle(w, l, "done")
    BY <1>6, <2>1, <2>2 DEF BakesTyped, BusyIn
  <2>3. CASE bake' = [bake EXCEPT ![w][l].at = "render"] /\ UNCHANGED baking
    <3> DEFINE d == [bake[w][l] EXCEPT !.at = "render"]
    <3>1. d \in Bake /\ d.at = "render"
      BY <1>0 DEF Bake
    <3>2. BakeCell(w, l, d, baking[l])
      BY <1>0, <2>1, <2>3 DEF BakeCell
    <3> HIDE DEF d
    <3> QED BY <1>0, <2>1, <3>1, <3>2, BakeCellStep DEF CatalogsTyped, BakesTyped, BusyIn
  <2> QED BY <1>7, <2>2, <2>3 DEF Manifest!Create
<1>8. CASE Manifest!Render(w, l)
  <2>1. /\ Manifest!At(w, l) = "render"
        /\ UNCHANGED <<doc, catalog, units, entry, inFlight, reads, batch>>
    BY <1>8 DEF Manifest!Render
  <2>2. bake[w][l].content \in Manifest!Contents \cup {None}
    BY <1>0 DEF Bake
  <2>3. rows' \in Manifest!Manifests
    BY <1>8, <2>2 DEF Manifest!Render, BakesTyped, Manifest!Manifests
  <2> QED BY <1>6, <1>8, <2>1, <2>3 DEF Manifest!Render, BusyIn
<1> QED BY <1>1, <1>2, <1>3, <1>4, <1>5, <1>7, <1>8 DEF OneBake

----------------------------------------------------------------------------
(* The manifest: the memo *)

Known == {doc} \cup {reads[r].doc : r \in Reads}

\* A revision names one document, and the stored one is the newest.
RevisionsNameDocuments ==
  /\ \A d \in Known : d.revision <= doc.revision
  /\ \A d, e \in Known : d.revision = e.revision => d = e

\* What is retained shows the levels of the document it was computed for, in the art that
\* was asked for or a newer one.
EntryMatches ==
  entry # None =>
    /\ entry.revision <= doc.revision
    /\ \A l \in Levels : entry.value[l] # None =>
         /\ \A d \in Known : d.revision = entry.revision => entry.value[l].body = d.body[l]
         /\ entry.value[l].art >= entry.asked.art

Working(b) == b.at \in {"load", "project", "check", "bake"}

\* A content computed for reader r shows its document, in the art it asked for or a newer one.
Fits(r, content) ==
  \A l \in Levels : content[l] # None =>
    /\ content[l].body = reads[r].doc.body[l]
    /\ content[l].art >= reads[r].asked.art

\* The computation a reader has begun is about the document and the catalogs it has read.
ComputationOf(r) ==
  /\ reads[r].asked.art <= catalog.art
  /\ reads[r].stage \in {"new", "document", "keyed"} => batch[r].at = "idle"
  /\ Working(batch[r]) => batch[r].body = reads[r].doc.body
  /\ batch[r].at = "project" => batch[r].inputs.art >= reads[r].asked.art
  /\ batch[r].at \in {"check", "bake"} => Fits(r, batch[r].content)

\* A waiting reader waits for a computation at work on what it has read itself.
WaitOf(q) ==
  reads[q].stage = "waiting" =>
    /\ reads[q].on \in Reads
    /\ Working(batch[reads[q].on])
    /\ reads[reads[q].on].doc.revision = reads[q].doc.revision
    /\ reads[reads[q].on].asked = reads[q].asked

InFlightWorks == inFlight # None => Working(batch[inFlight])

AnswerOf(r) ==
  reads[r].stage = "answered" =>
    \A l \in Levels : reads[r].answer[l] # None =>
      /\ reads[r].answer[l].body = reads[r].doc.body[l]
      /\ reads[r].source # "stale" => reads[r].answer[l].art >= reads[r].asked.art

MemoSound ==
  /\ RevisionsNameDocuments
  /\ EntryMatches
  /\ InFlightWorks
  /\ \A r \in Reads : ComputationOf(r) /\ WaitOf(r) /\ AnswerOf(r)

ManifestSound == CatalogsTyped /\ BakesTyped /\ MemoTyped /\ BakesServed /\ MemoSound

\* With the documents and the entry as they are, what reads and computations remember stays true.
LEMMA DocumentsStand ==
  ASSUME RevisionsNameDocuments, EntryMatches, doc' = doc, entry' \in {entry, None},
         \A r \in Reads : reads'[r].doc \in Known
  PROVE  RevisionsNameDocuments' /\ EntryMatches'
<1>1. Known' \subseteq Known
  BY DEF Known
<1>2. RevisionsNameDocuments'
  BY <1>1 DEF RevisionsNameDocuments
<1>3. EntryMatches'
  BY <1>1 DEF EntryMatches
<1> QED BY <1>2, <1>3

LEMMA CatalogsSound ==
  ASSUME ManifestSound,
         \/ Manifest!CommitArt \/ Manifest!CommitUnits \/ Manifest!InvalidateUnits
         \/ Manifest!FillUnits \/ Manifest!ExpireUnits
  PROVE  ManifestSound'
<1>1. /\ CatalogsTyped' /\ catalog'.art >= catalog.art
      /\ UNCHANGED <<doc, rows, entry, inFlight, baking, reads, batch, bake>>
  BY CatalogsStep DEF ManifestSound
<1>2. BakesTyped' /\ MemoTyped' /\ BakesServed'
  BY <1>1 DEF ManifestSound, BakesTyped, MemoTyped, BakesServed, NamedAreBusy, JoinedAreBusy,
              UnpreparedAreIdle
<1>3. ASSUME NEW r \in Reads PROVE ComputationOf(r)' /\ WaitOf(r)' /\ AnswerOf(r)'
  <2>1. reads[r].asked.art \in Nat /\ catalog.art \in Nat /\ catalog'.art \in Nat
    BY <1>1 DEF ManifestSound, MemoTyped, Reader, CatalogsTyped, Manifest!Catalogs
  <2>2. ComputationOf(r) /\ WaitOf(r) /\ AnswerOf(r)
    BY DEF ManifestSound, MemoSound
  <2> QED BY <1>1, <2>1, <2>2 DEF ComputationOf, WaitOf, AnswerOf, Working, Fits
<1>4. RevisionsNameDocuments' /\ EntryMatches' /\ InFlightWorks'
  BY <1>1 DEF ManifestSound, MemoSound, RevisionsNameDocuments, EntryMatches, InFlightWorks, Working, Known
<1> QED BY <1>1, <1>2, <1>3, <1>4 DEF ManifestSound, MemoSound

LEMMA OneBakeSound ==
  ASSUME ManifestSound, NEW w \in Manifest!Workers, NEW l \in Levels, OneBake(w, l)
  PROVE  ManifestSound'
<1>1. /\ CatalogsTyped' /\ BakesTyped' /\ BakesServed' /\ catalog' = catalog
      /\ UNCHANGED <<doc, entry, inFlight, reads, batch>>
  BY OneBakeStep DEF ManifestSound
<1>2. MemoTyped'
  BY <1>1 DEF ManifestSound, MemoTyped
<1>3. MemoSound'
  BY <1>1 DEF ManifestSound, MemoSound, RevisionsNameDocuments, EntryMatches, InFlightWorks, Working,
              Known, ComputationOf, WaitOf, AnswerOf, Fits
<1> QED BY <1>1, <1>2, <1>3 DEF ManifestSound

\* A reader takes a step of its own: what it has read so far, and the batches, stay.
LEMMA ReaderStep ==
  ASSUME ManifestSound, NEW r \in Reads, NEW x \in Reader, reads' = [reads EXCEPT ![r] = x],
         UNCHANGED <<doc, catalog, units, rows, entry, baking, bake>>,
         inFlight' \in Reads \cup {None}, batch' \in [Manifest!Workers -> Batch],
         x.doc \in Known, x.asked.art <= catalog.art,
         reads[r].stage \in {"new", "document", "keyed"},
         \/ UNCHANGED <<inFlight, batch>>
         \/ /\ inFlight' = r /\ x.stage \notin {"new", "document", "keyed"}
            /\ batch' = [batch EXCEPT ![r].at = "load", ![r].body = x.doc.body],
         x.stage \notin {"new", "document", "keyed"} => x.doc = reads[r].doc /\ x.asked = reads[r].asked,
         x.stage = "waiting" =>
           /\ x.on \in Reads /\ x.on = inFlight' /\ inFlight' # None
           /\ x.on = r \/ (reads[x.on].doc.revision = x.doc.revision /\ reads[x.on].asked = x.asked),
         x.stage = "answered" =>
           \A l \in Levels : x.answer[l] # None =>
             /\ x.answer[l].body = x.doc.body[l]
             /\ x.source # "stale" => x.answer[l].art >= x.asked.art
  PROVE  ManifestSound'
<1>1. /\ reads \in [Reads -> Reader] /\ batch \in [Manifest!Workers -> Batch]
      /\ r \in Manifest!Workers /\ Reads \subseteq Manifest!Workers
  BY WorkerSets DEF ManifestSound, MemoTyped
<1>2. CatalogsTyped' /\ BakesTyped' /\ MemoTyped'
  BY <1>1 DEF ManifestSound, CatalogsTyped, BakesTyped, MemoTyped
<1>3. reads'[r] = x /\ \A q \in Reads \ {r} : reads'[q] = reads[q]
  BY <1>1
<1>4. batch[r].at = "idle"
  BY DEF ManifestSound, MemoSound, ComputationOf
<1>5. /\ \A w \in Manifest!Workers \ {r} : batch'[w] = batch[w]
      /\ \/ batch'[r] = batch[r] /\ inFlight' = inFlight
         \/ /\ batch'[r].at = "load" /\ batch'[r].body = x.doc.body /\ inFlight' = r
            /\ x.stage \notin {"new", "document", "keyed"}
  BY <1>1 DEF Batch
<1>6. \A w \in Manifest!Workers : batch'[w].at \in {"idle", "load", "project", "check"} =>
        batch[w].at \in {"idle", "load", "project", "check"}
  BY <1>4, <1>5
<1>7. BakesServed'
  BY <1>6 DEF ManifestSound, BakesServed, NamedAreBusy, JoinedAreBusy, UnpreparedAreIdle
<1>8. RevisionsNameDocuments' /\ EntryMatches'
  <2>1. \A q \in Reads : reads'[q].doc \in Known
    BY <1>3 DEF Known
  <2> QED BY <2>1, DocumentsStand DEF ManifestSound, MemoSound
<1>9. \A w \in Manifest!Workers : Working(batch[w]) => w # r /\ Working(batch'[w])
  BY <1>4, <1>5 DEF Working
<1>10. InFlightWorks'
  BY <1>1, <1>5, <1>9 DEF ManifestSound, MemoSound, MemoTyped, InFlightWorks, Working
<1>11. ASSUME NEW q \in Reads PROVE ComputationOf(q)' /\ WaitOf(q)' /\ AnswerOf(q)'
  <2>1. CASE q = r
    <3>1. ComputationOf(r)'
      BY <1>3, <1>4, <1>5 DEF ComputationOf, Working
    <3>2. WaitOf(r)'
      <4>1. SUFFICES ASSUME x.stage = "waiting" PROVE WaitOf(r)'
        BY <1>3 DEF WaitOf
      <4>2. Working(batch'[x.on])
        BY <1>10, <4>1 DEF InFlightWorks
      <4>3. reads'[x.on].doc.revision = x.doc.revision /\ reads'[x.on].asked = x.asked
        BY <1>3, <4>1
      <4> QED BY <1>3, <4>1, <4>2, <4>3 DEF WaitOf
    <3>3. AnswerOf(r)'
      BY <1>3 DEF AnswerOf
    <3> QED BY <2>1, <3>1, <3>2, <3>3
  <2>2. CASE q # r
    <3>1. reads'[q] = reads[q] /\ batch'[q] = batch[q] /\ catalog' = catalog
      BY <1>1, <1>3, <1>5, <2>2
    <3>2. ComputationOf(q)' /\ AnswerOf(q)'
      BY <3>1 DEF ManifestSound, MemoSound, ComputationOf, AnswerOf, Fits
    <3>3. WaitOf(q)'
      <4>1. SUFFICES ASSUME reads[q].stage = "waiting" PROVE WaitOf(q)'
        BY <3>1 DEF WaitOf
      <4>2. WaitOf(q)
        BY DEF ManifestSound, MemoSound
      <4>3. reads[q].on # r /\ reads[q].on \in Reads /\ Working(batch'[reads[q].on])
        BY <1>1, <1>9, <4>1, <4>2 DEF WaitOf
      <4> QED BY <1>3, <3>1, <4>1, <4>2, <4>3 DEF WaitOf
    <3> QED BY <3>2, <3>3
  <2> QED BY <2>1, <2>2
<1> QED BY <1>2, <1>7, <1>8, <1>10, <1>11 DEF ManifestSound, MemoSound

LEMMA ReadDocumentSound ==
  ASSUME ManifestSound, NEW r \in Reads, Manifest!ReadDocument(r) PROVE ManifestSound'
<1> DEFINE x == [reads[r] EXCEPT !.stage = "document", !.doc = doc]
<1>1. reads[r] \in Reader /\ doc \in Manifest!Documents /\ reads \in [Reads -> Reader]
      /\ batch \in [Manifest!Workers -> Batch] /\ inFlight \in Reads \cup {None}
  BY DEF ManifestSound, MemoTyped
<1>2. x \in Reader /\ x.stage = "document" /\ x.doc = doc /\ x.asked = reads[r].asked
  BY <1>1 DEF Reader
<1>3. reads' = [reads EXCEPT ![r] = x] /\ reads[r].stage = "new"
  BY <1>1 DEF Manifest!ReadDocument
<1>4. UNCHANGED <<doc, catalog, units, rows, entry, inFlight, baking, batch, bake>>
  BY DEF Manifest!ReadDocument
<1>5. reads[r].asked.art <= catalog.art
  BY DEF ManifestSound, MemoSound, ComputationOf
<1> HIDE DEF x
<1> QED BY <1>1, <1>2, <1>3, <1>4, <1>5, ReaderStep DEF Known

LEMMA ReadInputsKeySound ==
  ASSUME ManifestSound, NEW r \in Reads, Manifest!ReadInputsKey(r) PROVE ManifestSound'
<1> DEFINE x == [reads[r] EXCEPT !.stage = "keyed", !.asked = catalog]
<1>1. /\ reads[r] \in Reader /\ catalog \in Manifest!Catalogs /\ reads \in [Reads -> Reader]
      /\ batch \in [Manifest!Workers -> Batch] /\ inFlight \in Reads \cup {None}
  BY DEF ManifestSound, MemoTyped, CatalogsTyped
<1>2. x \in Reader /\ x.stage = "keyed" /\ x.doc = reads[r].doc /\ x.asked = catalog
  BY <1>1 DEF Reader
<1>3. reads' = [reads EXCEPT ![r] = x] /\ reads[r].stage = "document"
  BY <1>1 DEF Manifest!ReadInputsKey
<1>4. UNCHANGED <<doc, catalog, units, rows, entry, inFlight, baking, batch, bake>>
  BY DEF Manifest!ReadInputsKey
<1>5. x.asked.art <= catalog.art
  BY <1>1, <1>2 DEF Manifest!Catalogs
<1> HIDE DEF x
<1> QED BY <1>1, <1>2, <1>3, <1>4, <1>5, ReaderStep DEF Known

\* What is retained for a document is sound beside any reader of that document.
LEMMA EntryServes ==
  ASSUME ManifestSound, NEW r \in Reads, Manifest!SameDocument(r)
  PROVE  /\ entry \in Entry
         /\ \A l \in Levels : entry.value[l] # None => entry.value[l].body = reads[r].doc.body[l]
         /\ entry.asked = reads[r].asked =>
              \A l \in Levels : entry.value[l] # None => entry.value[l].art >= reads[r].asked.art
<1>1. entry # None /\ entry.revision = reads[r].doc.revision /\ reads[r].doc \in Known
  BY DEF Manifest!SameDocument, Known
<1> QED BY <1>1 DEF ManifestSound, MemoTyped, MemoSound, EntryMatches

LEMMA ConsultSound ==
  ASSUME ManifestSound, NEW r \in Reads, Manifest!Consult(r) PROVE ManifestSound'
<1>1. /\ reads[r] \in Reader /\ reads \in [Reads -> Reader]
      /\ batch \in [Manifest!Workers -> Batch] /\ inFlight \in Reads \cup {None}
      /\ r \in Manifest!Workers /\ reads[r].doc \in Known /\ reads[r].asked.art <= catalog.art
  BY WorkerSets DEF ManifestSound, MemoTyped, MemoSound, ComputationOf, Known
<1>2. /\ reads[r].stage = "keyed"
      /\ UNCHANGED <<doc, catalog, units, rows, entry, baking, bake>>
  BY DEF Manifest!Consult
<1>3. ASSUME Manifest!BeginCompute(r)
      PROVE  /\ inFlight' \in Reads
             /\ batch' \in [Manifest!Workers -> Batch]
             /\ \/ UNCHANGED <<inFlight, batch>> /\ inFlight # None /\ Manifest!Tuple(inFlight) = Manifest!Tuple(r)
                \/ /\ inFlight' = r
                   /\ batch' = [batch EXCEPT ![r].at = "load", ![r].body = reads[r].doc.body]
  <2> DEFINE b == [batch[r] EXCEPT !.at = "load", !.body = reads[r].doc.body]
  <2>1. b \in Batch
    BY <1>1 DEF Batch, Reader, Manifest!Documents
  <2>2. Manifest!Computing(r) = [batch EXCEPT ![r] = b]
    BY <1>1 DEF Manifest!Computing
  <2> HIDE DEF b
  <2>3. Manifest!Computing(r) \in [Manifest!Workers -> Batch]
    BY <1>1, <2>1, <2>2
  <2> QED BY <1>1, <1>3, <2>3 DEF Manifest!BeginCompute, Manifest!BeginsCompute, Manifest!Computing
<1> DEFINE Answer(source) ==
             [reads[r] EXCEPT !.stage = "answered", !.answer = entry.value, !.source = source]
<1>4. ASSUME Manifest!SameDocument(r), NEW source \in {"memo", "stale"}
      PROVE  /\ Answer(source) \in Reader /\ Answer(source).stage = "answered"
             /\ Answer(source).doc = reads[r].doc /\ Answer(source).asked = reads[r].asked
             /\ Answer(source).answer = entry.value /\ Answer(source).source = source
             /\ Manifest!Answered(r, source) = [reads EXCEPT ![r] = Answer(source)]
  <2>1. entry.value \in Manifest!Manifests
    BY <1>4, EntryServes DEF Entry
  <2> QED BY <1>1, <2>1 DEF Reader, Manifest!Answered
<1>5. CASE Manifest!SameTuple(r)
  <2>1. Manifest!SameDocument(r) /\ entry.asked = reads[r].asked
    BY <1>5 DEF Manifest!SameTuple
  <2>2. reads' = [reads EXCEPT ![r] = Answer("memo")] /\ UNCHANGED <<inFlight, batch>>
    BY <1>4, <1>5, <2>1 DEF Manifest!Consult
  <2> DEFINE x == Answer("memo")
  <2>3. /\ x \in Reader /\ x.stage = "answered" /\ x.doc = reads[r].doc /\ x.asked = reads[r].asked
        /\ x.answer = entry.value /\ x.source = "memo" /\ reads' = [reads EXCEPT ![r] = x]
    BY <1>4, <2>1, <2>2
  <2> HIDE DEF x
  <2>4. \A l \in Levels : x.answer[l] # None =>
          /\ x.answer[l].body = x.doc.body[l]
          /\ x.source # "stale" => x.answer[l].art >= x.asked.art
    <3>1. \A l \in Levels : entry.value[l] # None =>
            entry.value[l].body = reads[r].doc.body[l] /\ entry.value[l].art >= reads[r].asked.art
      BY <2>1, EntryServes
    <3> QED BY <2>3, <3>1
  <2>5. x.doc \in Known /\ x.asked.art <= catalog.art /\ x.doc = reads[r].doc /\ x.asked = reads[r].asked
    BY <1>1, <2>3
  <2>6. /\ x \in Reader /\ x.stage = "answered" /\ reads' = [reads EXCEPT ![r] = x]
        /\ inFlight' \in Reads \cup {None} /\ batch' \in [Manifest!Workers -> Batch]
        /\ UNCHANGED <<inFlight, batch>>
    BY <1>1, <2>2, <2>3
  <2> QED BY <1>2, <2>4, <2>5, <2>6, ReaderStep
<1>6. CASE Manifest!SameDocument(r) /\ ~Manifest!SameTuple(r)
  <2> DEFINE x == Answer("stale")
  <2>1. Manifest!BeginCompute(r) /\ reads' = Manifest!Answered(r, "stale")
    BY <1>6 DEF Manifest!Consult
  <2>2. /\ x \in Reader /\ x.stage = "answered" /\ x.doc = reads[r].doc /\ x.asked = reads[r].asked
        /\ x.answer = entry.value /\ x.source = "stale" /\ reads' = [reads EXCEPT ![r] = x]
    BY <1>4, <1>6, <2>1
  <2> HIDE DEF x
  <2>3. inFlight' \in Reads \cup {None} /\ batch' \in [Manifest!Workers -> Batch]
    BY <1>1, <1>3, <2>1
  <2>4. \/ UNCHANGED <<inFlight, batch>>
        \/ /\ inFlight' = r
           /\ batch' = [batch EXCEPT ![r].at = "load", ![r].body = x.doc.body]
    BY <1>3, <2>1, <2>2
  <2>5. \A l \in Levels : x.answer[l] # None =>
          /\ x.answer[l].body = x.doc.body[l]
          /\ x.source # "stale" => x.answer[l].art >= x.asked.art
    <3>1. \A l \in Levels : entry.value[l] # None => entry.value[l].body = reads[r].doc.body[l]
      BY <1>6, EntryServes
    <3> QED BY <2>2, <3>1
  <2>6. x.doc \in Known /\ x.asked.art <= catalog.art
    BY <1>1, <2>2
  <2>7. x.doc = reads[r].doc /\ x.asked = reads[r].asked
    BY <2>2
  <2>8. x \in Reader /\ x.stage = "answered" /\ reads' = [reads EXCEPT ![r] = x]
    BY <2>2
  <2> QED BY <1>2, <2>3, <2>4, <2>5, <2>6, <2>7, <2>8, ReaderStep
<1>7. CASE ~Manifest!SameDocument(r)
  <2> DEFINE x == [reads[r] EXCEPT !.stage = "waiting", !.on = inFlight']
  <2>1. Manifest!BeginCompute(r) /\ reads' = [reads EXCEPT ![r] = x]
    BY <1>1, <1>7 DEF Manifest!Consult, Manifest!SameTuple
  <2>2. inFlight' \in Reads
    BY <1>1, <1>3, <2>1
  <2>3. /\ x \in Reader /\ x.stage = "waiting" /\ x.doc = reads[r].doc /\ x.asked = reads[r].asked
        /\ x.on = inFlight'
    BY <1>1, <2>2 DEF Reader
  <2> HIDE DEF x
  <2>4. inFlight' = r \/ (/\ reads[inFlight'].doc.revision = x.doc.revision
                          /\ reads[inFlight'].asked = x.asked)
    BY <1>3, <2>1, <2>3 DEF Manifest!Tuple
  <2>5. batch' \in [Manifest!Workers -> Batch] /\ inFlight' # None
    BY <1>3, <2>1, <2>2, WorkersAssumption
  <2>6. \/ UNCHANGED <<inFlight, batch>>
        \/ /\ inFlight' = r
           /\ batch' = [batch EXCEPT ![r].at = "load", ![r].body = x.doc.body]
    BY <1>3, <2>1, <2>3
  <2> QED BY <1>1, <1>2, <2>1, <2>2, <2>3, <2>4, <2>5, <2>6, ReaderStep
<1> QED BY <1>5, <1>6, <1>7 DEF Manifest!Consult

----------------------------------------------------------------------------
(* The manifest: the computations *)

LEMMA BakesStand ==
  ASSUME BakesServed, UNCHANGED <<baking, bake>>,
         \A w \in Manifest!Workers : batch'[w].at \in {"idle", "load", "project", "check"} =>
                                       batch[w].at \in {"idle", "load", "project", "check"}
  PROVE  BakesServed'
BY DEF BakesServed, NamedAreBusy, JoinedAreBusy, UnpreparedAreIdle

\* The batch of a worker goes on, and nobody notices.
LEMMA BatchStep ==
  ASSUME ManifestSound, NEW w \in Manifest!Workers, NEW b \in Batch,
         batch' = [batch EXCEPT ![w] = b],
         UNCHANGED <<doc, catalog, entry, inFlight, reads>>,
         CatalogsTyped', BakesTyped', BakesServed',
         w \in Reads =>
           /\ Working(batch[w]) /\ Working(b) /\ b.body = batch[w].body
           /\ b.at = "project" => b.inputs.art >= reads[w].asked.art
           /\ b.at \in {"check", "bake"} => Fits(w, b.content)
  PROVE  ManifestSound'
<1>1. MemoTyped' /\ Reads \subseteq Manifest!Workers
  BY WorkerSets DEF ManifestSound, MemoTyped
<1>2. batch'[w] = b /\ \A v \in Manifest!Workers \ {w} : batch'[v] = batch[v]
  BY DEF ManifestSound, MemoTyped
<1>3. \A r \in Reads : Working(batch[r]) => Working(batch'[r])
  BY <1>1, <1>2
<1>4. RevisionsNameDocuments' /\ EntryMatches'
  BY DocumentsStand DEF ManifestSound, MemoSound, Known
<1>5. InFlightWorks'
  BY <1>3 DEF ManifestSound, MemoTyped, MemoSound, InFlightWorks
<1>6. ASSUME NEW r \in Reads PROVE ComputationOf(r)' /\ WaitOf(r)' /\ AnswerOf(r)'
  <2>1. ComputationOf(r) /\ WaitOf(r) /\ AnswerOf(r)
    BY DEF ManifestSound, MemoSound
  <2>2. WaitOf(r)' /\ AnswerOf(r)'
    BY <1>3, <2>1 DEF WaitOf, AnswerOf
  <2>3. ComputationOf(r)'
    <3>1. CASE r = w
      BY <1>2, <2>1, <3>1 DEF ComputationOf, Working, Fits
    <3>2. CASE r # w
      BY <1>1, <1>2, <2>1, <3>2 DEF ComputationOf, Fits
    <3> QED BY <3>1, <3>2
  <2> QED BY <2>2, <2>3
<1> QED BY <1>1, <1>4, <1>5, <1>6 DEF ManifestSound, MemoSound

\* The derivatives a worker has to ensure: it had none under way.
LEMMA TowardStep ==
  ASSUME ManifestSound, NEW w \in Manifest!Workers, NEW content \in Manifest!Manifests,
         NEW missing \in SUBSET Levels,
         batch[w].at \in {"project", "check"}, bake' = Manifest!Toward(w, content, missing),
         batch'[w].at = "bake", \A v \in Manifest!Workers \ {w} : batch'[v] = batch[v],
         UNCHANGED <<rows, baking>>
  PROVE  BakesTyped' /\ BakesServed'
<1>0. /\ bake \in [Manifest!Workers -> [Levels -> Bake]]
      /\ baking \in [Levels -> Manifest!Workers \cup {None}]
  BY DEF ManifestSound, BakesTyped, MemoTyped
<1> DEFINE to(l) == [bake[w][l] EXCEPT !.at = "ensure", !.content = content[l]]
           f == [l \in Levels |-> IF l \in missing THEN to(l) ELSE bake[w][l]]
<1>1. ASSUME NEW l \in Levels PROVE to(l) \in Bake /\ to(l).at = "ensure"
  <2>1. bake[w][l] \in Bake /\ content[l] \in Manifest!Contents \cup {None}
    BY <1>0 DEF Manifest!Manifests
  <2> QED BY <2>1 DEF Bake
<1>2. bake' = [bake EXCEPT ![w] = f]
  BY <1>0 DEF Manifest!Toward
<1>3. \A l \in Levels : bake[w][l].at = "idle"
  BY DEF ManifestSound, BakesServed, UnpreparedAreIdle
<1>4. f \in [Levels -> Bake] /\ \A l \in Levels : f[l].at \in {"idle", "ensure"}
  BY <1>0, <1>1, <1>3
<1> HIDE DEF f
<1>5. /\ bake' \in [Manifest!Workers -> [Levels -> Bake]] /\ bake'[w] = f
      /\ \A v \in Manifest!Workers \ {w} : bake'[v] = bake[v]
  BY <1>0, <1>2, <1>4
<1>6. \A v \in Manifest!Workers, l \in Levels :
        BusyIn(bake, v, l) \/ OverIn(bake, v, l) => v # w /\ bake'[v] = bake[v]
  BY <1>3, <1>5 DEF BusyIn, OverIn
<1>7. NamedAreBusy'
  <2>1. \A l \in Levels : baking[l] # None => baking[l] \in Manifest!Workers /\ BusyIn(bake, baking[l], l)
    BY <1>0 DEF ManifestSound, BakesServed, NamedAreBusy
  <2> QED BY <1>6, <2>1 DEF NamedAreBusy, BusyIn
<1>8. JoinedAreBusy'
  <2>1. ASSUME NEW v \in Manifest!Workers, NEW l \in Levels, bake'[v][l].at \in {"join", "behind"}
        PROVE  /\ bake'[v][l].on \in Manifest!Workers
               /\ BusyIn(bake', bake'[v][l].on, l) \/ OverIn(bake', bake'[v][l].on, l)
    <3>1. v # w /\ bake'[v] = bake[v]
      BY <1>4, <1>5, <2>1
    <3>2. /\ bake[v][l].on \in Manifest!Workers
          /\ BusyIn(bake, bake[v][l].on, l) \/ OverIn(bake, bake[v][l].on, l)
      BY <2>1, <3>1 DEF ManifestSound, BakesServed, JoinedAreBusy
    <3> QED BY <1>6, <3>1, <3>2 DEF BusyIn, OverIn
  <2> QED BY <2>1 DEF JoinedAreBusy
<1>9. UnpreparedAreIdle'
  BY <1>5 DEF ManifestSound, BakesServed, UnpreparedAreIdle
<1> QED BY <1>0, <1>5, <1>7, <1>8, <1>9 DEF ManifestSound, BakesTyped, BakesServed

LEMMA LoadSound ==
  ASSUME ManifestSound, NEW w \in Manifest!Workers, Manifest!Load(w) PROVE ManifestSound'
<1> DEFINE b == [batch[w] EXCEPT !.at = "project", !.inputs = Manifest!RenderInputs]
<1>1. batch[w] \in Batch /\ batch \in [Manifest!Workers -> Batch] /\ CatalogsTyped /\ BakesServed
  BY DEF ManifestSound, MemoTyped
<1>2. Manifest!RenderInputs \in Manifest!Catalogs /\ Manifest!RenderInputs.art = catalog.art
  BY <1>1, InputsTyped
<1>3. /\ b \in Batch /\ b.at = "project" /\ b.body = batch[w].body
      /\ b.inputs = Manifest!RenderInputs
  BY <1>1, <1>2 DEF Batch
<1>4. /\ batch[w].at = "load" /\ batch' = [batch EXCEPT ![w] = b] /\ units' = Manifest!Filling
      /\ UNCHANGED <<doc, catalog, rows, entry, inFlight, baking, reads, bake>>
  BY <1>1 DEF Manifest!Load
<1> HIDE DEF b
<1>5. CatalogsTyped'
  BY <1>1, <1>4, FillingTyped
<1>6. \A v \in Manifest!Workers \ {w} : batch'[v] = batch[v]
  BY <1>1, <1>4
<1>7. BakesServed'
  BY <1>1, <1>4, <1>6, BakesStand
<1>8. BakesTyped'
  BY <1>4 DEF ManifestSound, BakesTyped
<1>9. w \in Reads => reads[w].asked.art <= catalog.art
                     /\ reads[w].asked.art \in Nat /\ catalog.art \in Nat
  BY DEF ManifestSound, MemoSound, ComputationOf, MemoTyped, Reader, CatalogsTyped, Manifest!Catalogs
<1>10. b.inputs.art = catalog.art
  BY <1>2, <1>3
<1>11. w \in Reads => b.inputs.art >= reads[w].asked.art
  BY <1>9, <1>10
<1> QED BY <1>3, <1>4, <1>5, <1>7, <1>8, <1>11, BatchStep DEF Working

\* What is projected shows the bodies of the batch, in the art of its inputs.
LEMMA PreparedContent ==
  ASSUME NEW w \in Manifest!Workers, batch[w] \in Batch
  PROVE  /\ Manifest!Prepared(w) \in Manifest!Manifests
         /\ \A l \in Levels : Manifest!Prepared(w)[l] # None =>
              /\ Manifest!Prepared(w)[l].body = batch[w].body[l]
              /\ Manifest!Prepared(w)[l].art = batch[w].inputs.art
<1>1. ASSUME NEW l \in Levels
      PROVE  LET c == Manifest!ContentVersion(batch[w].body[l], batch[w].inputs)
             IN c \in Manifest!Contents /\ c.body = batch[w].body[l] /\ c.art = batch[w].inputs.art
  <2>1. batch[w].body[l] \in Nat /\ batch[w].inputs \in Manifest!Catalogs
    BY DEF Batch
  <2> QED BY <2>1, ContentTyped
<1> QED BY <1>1 DEF Manifest!Prepared, Manifest!Manifests

LEMMA ProjectSound ==
  ASSUME ManifestSound, NEW w \in Manifest!Workers, Manifest!Project(w) PROVE ManifestSound'
<1>1. batch[w] \in Batch /\ batch \in [Manifest!Workers -> Batch] /\ BakesServed
  BY DEF ManifestSound, MemoTyped
<1>2. /\ batch[w].at = "project"
      /\ UNCHANGED <<doc, catalog, units, rows, entry, inFlight, baking, reads>>
  BY DEF Manifest!Project
<1>3. CatalogsTyped'
  BY <1>2 DEF ManifestSound, CatalogsTyped
<1> DEFINE b(at) == [batch[w] EXCEPT !.at = at, !.content = Manifest!Prepared(w)]
<1>4. ASSUME NEW at \in {"check", "bake"}
      PROVE  b(at) \in Batch /\ b(at).at = at /\ b(at).body = batch[w].body
             /\ b(at).content = Manifest!Prepared(w)
  BY <1>1, PreparedContent DEF Batch
<1>5. CASE w \in Reads
  <2> DEFINE c == b("check")
  <2>1. batch' = [batch EXCEPT ![w] = c] /\ bake' = bake
    BY <1>1, <1>5 DEF Manifest!Project
  <2>2. c \in Batch /\ c.at = "check" /\ c.body = batch[w].body /\ c.content = Manifest!Prepared(w)
    BY <1>4
  <2> HIDE DEF c
  <2>3. \A v \in Manifest!Workers \ {w} : batch'[v] = batch[v]
    BY <1>1, <2>1
  <2>4. BakesTyped' /\ BakesServed'
    BY <1>1, <1>2, <2>1, <2>3, BakesStand DEF ManifestSound, BakesTyped
  <2>5. Fits(w, c.content)
    <3>1. ComputationOf(w)
      BY <1>5 DEF ManifestSound, MemoSound
    <3>2. batch[w].body = reads[w].doc.body /\ batch[w].inputs.art >= reads[w].asked.art
      BY <1>2, <3>1 DEF ComputationOf, Working
    <3> QED BY <1>1, <2>2, <3>2, PreparedContent DEF Fits
  <2>6. Working(batch[w]) /\ Working(c)
    BY <1>2, <2>2 DEF Working
  <2> QED BY <1>2, <1>3, <2>1, <2>2, <2>4, <2>5, <2>6, BatchStep
<1>6. CASE w \notin Reads
  <2> DEFINE c == b("bake")
  <2>1. /\ batch' = [batch EXCEPT ![w] = c]
        /\ bake' = Manifest!Toward(w, Manifest!Prepared(w),
                                   {l \in Levels : Manifest!Prepared(w)[l] # None})
    BY <1>1, <1>6 DEF Manifest!Project
  <2>2. c \in Batch /\ c.at = "bake"
    BY <1>4
  <2> HIDE DEF c
  <2>3. BakesTyped' /\ BakesServed'
    <3>1. Manifest!Prepared(w) \in Manifest!Manifests
      BY <1>1, PreparedContent
    <3>2. batch[w].at \in {"project", "check"} /\ UNCHANGED <<rows, baking>>
      BY <1>2
    <3> DEFINE content == Manifest!Prepared(w)
               missing == {l \in Levels : Manifest!Prepared(w)[l] # None}
    <3>3. bake' = Manifest!Toward(w, content, missing)
          /\ content \in Manifest!Manifests /\ missing \in SUBSET Levels
      BY <2>1, <3>1
    <3>4. batch'[w].at = "bake" /\ \A v \in Manifest!Workers \ {w} : batch'[v] = batch[v]
      BY <1>1, <2>1, <2>2
    <3> HIDE DEF content, missing
    <3> QED BY <3>2, <3>3, <3>4, TowardStep
  <2> QED BY <1>2, <1>3, <1>6, <2>1, <2>2, <2>3, BatchStep
<1> QED BY <1>5, <1>6

\* The computation of r ends, and whoever awaits it hears how.
LEMMA HeardStep ==
  ASSUME ManifestSound, NEW r \in Reads, NEW stage \in {"answered", "failed"},
         NEW value \in Manifest!Manifests \cup {None},
         reads' = Manifest!Heard(r, stage, value), inFlight' = Manifest!Released(r),
         batch' = [batch EXCEPT ![r] = Manifest!Unused("over")],
         UNCHANGED <<doc, catalog, units, rows, baking, bake>>,
         Working(batch[r]), batch[r].at # "idle",
         stage = "answered" => value \in Manifest!Manifests /\ Fits(r, value),
         entry' \in Entry \cup {None}, EntryMatches'
  PROVE  ManifestSound'
<1>0. /\ reads \in [Reads -> Reader] /\ batch \in [Manifest!Workers -> Batch]
      /\ inFlight \in Reads \cup {None} /\ Reads \subseteq Manifest!Workers
      /\ doc \in Manifest!Documents
  BY WorkerSets DEF ManifestSound, MemoTyped
<1> DEFINE over == Manifest!Unused("over")
           heard(q) == [reads[q] EXCEPT !.stage = stage, !.answer = value, !.source = "computed"]
<1>1. over \in Batch /\ over.at = "over"
  BY UnusedTyped
<1> HIDE DEF over
<1>2. /\ batch' \in [Manifest!Workers -> Batch] /\ batch'[r] = over
      /\ \A w \in Manifest!Workers \ {r} : batch'[w] = batch[w]
  BY <1>0, <1>1 DEF over
<1>3. ASSUME NEW q \in Reads
      PROVE  /\ heard(q) \in Reader /\ heard(q).stage = stage /\ heard(q).answer = value
             /\ heard(q).doc = reads[q].doc /\ heard(q).asked = reads[q].asked
  BY <1>0 DEF Reader
<1>4. ASSUME NEW q \in Reads
      PROVE  \/ reads[q].stage = "waiting" /\ reads[q].on = r /\ reads'[q] = heard(q)
             \/ ~(reads[q].stage = "waiting" /\ reads[q].on = r) /\ reads'[q] = reads[q]
  BY DEF Manifest!Heard
<1> HIDE DEF heard
<1>5. reads' = [q \in Reads |-> reads'[q]]
  BY DEF Manifest!Heard
<1>6. reads' \in [Reads -> Reader]
  BY <1>0, <1>3, <1>4, <1>5
<1>7. \A q \in Reads : reads'[q].doc = reads[q].doc /\ reads'[q].asked = reads[q].asked
  BY <1>3, <1>4
<1>8. MemoTyped'
  BY <1>0, <1>2, <1>6 DEF MemoTyped, Manifest!Released
<1>9. CatalogsTyped' /\ BakesTyped' /\ BakesServed'
  <2>1. \A w \in Manifest!Workers : batch'[w].at \in {"idle", "load", "project", "check"} =>
          batch[w].at \in {"idle", "load", "project", "check"}
    BY <1>0, <1>1, <1>2
  <2> QED BY <2>1, BakesStand DEF ManifestSound, CatalogsTyped, BakesTyped
<1>10. RevisionsNameDocuments'
  <2>1. Known' = Known
    BY <1>7 DEF Known
  <2> QED BY <2>1 DEF ManifestSound, MemoSound, RevisionsNameDocuments
<1>11. ASSUME NEW w \in Manifest!Workers, Working(batch[w]), w # r PROVE Working(batch'[w])
  BY <1>2, <1>11
<1>12. InFlightWorks'
  BY <1>0, <1>11 DEF Manifest!Released, ManifestSound, MemoSound, InFlightWorks
<1>13. ASSUME NEW q \in Reads PROVE ComputationOf(q)' /\ WaitOf(q)' /\ AnswerOf(q)'
  <2>1. ComputationOf(q) /\ WaitOf(q) /\ AnswerOf(q) /\ ComputationOf(r)
    BY DEF ManifestSound, MemoSound
  <2>2. reads'[q].stage \in {"new", "document", "keyed"} => reads[q].stage = reads'[q].stage
    BY <1>3, <1>4
  <2>3. ComputationOf(q)'
    <3>1. CASE q = r
      BY <1>1, <1>2, <1>7, <2>1, <2>2, <3>1 DEF ComputationOf, Working
    <3>2. CASE q # r
      BY <1>0, <1>2, <1>7, <2>1, <2>2, <3>2 DEF ComputationOf, Working, Fits
    <3> QED BY <3>1, <3>2
  <2>4. WaitOf(q)'
    <3>1. SUFFICES ASSUME reads'[q].stage = "waiting" PROVE WaitOf(q)'
      BY DEF WaitOf
    <3>2. reads'[q] = reads[q] /\ reads[q].stage = "waiting" /\ reads[q].on # r
      BY <1>3, <1>4, <3>1
    <3>3. reads[q].on \in Reads /\ Working(batch'[reads[q].on])
      BY <1>0, <1>11, <2>1, <3>2 DEF WaitOf
    <3> QED BY <1>7, <2>1, <3>2, <3>3 DEF WaitOf
  <2>5. AnswerOf(q)'
    <3>1. CASE reads'[q] = reads[q]
      BY <2>1, <3>1 DEF AnswerOf
    <3>2. CASE reads[q].stage = "waiting" /\ reads[q].on = r /\ reads'[q] = heard(q)
      <4>1. SUFFICES ASSUME stage = "answered" PROVE AnswerOf(q)'
        BY <1>3, <3>2 DEF AnswerOf
      <4>2. reads[r].doc.revision = reads[q].doc.revision /\ reads[r].asked = reads[q].asked
        BY <2>1, <3>2 DEF WaitOf
      <4>3. reads[r].doc = reads[q].doc
        BY <4>2 DEF ManifestSound, MemoSound, RevisionsNameDocuments, Known
      <4> QED BY <1>3, <3>2, <4>1, <4>2, <4>3 DEF AnswerOf, Fits
    <3> QED BY <1>4, <3>1, <3>2
  <2> QED BY <2>3, <2>4, <2>5
<1> QED BY <1>8, <1>9, <1>10, <1>12, <1>13 DEF ManifestSound, MemoSound

LEMMA FinishSound ==
  ASSUME ManifestSound, NEW r \in Reads, batch[r].at \in {"check", "bake"}, Manifest!Finish(r),
         UNCHANGED <<doc, catalog, units, rows, baking, bake>>
  PROVE  ManifestSound'
<1> DEFINE value == Manifest!CurrentStored(r)
           settled == \A l \in Levels : reads[r].doc.body[l] # 0 => value[l] # None
<1>0. /\ reads[r] \in Reader /\ rows \in Manifest!Manifests /\ r \in Manifest!Workers
      /\ ComputationOf(r) /\ Working(batch[r])
  BY WorkerSets DEF ManifestSound, MemoTyped, BakesTyped, MemoSound, Working
<1>1. value \in Manifest!Manifests /\ \A l \in Levels : value[l] \in {None, batch[r].content[l]}
  BY <1>0 DEF Manifest!CurrentStored, Manifest!Manifests
<1>2. Fits(r, value)
  BY <1>0, <1>1 DEF ComputationOf, Fits
<1>3. settled \in BOOLEAN
  OBVIOUS
<1>4. /\ entry' = [revision |-> reads[r].doc.revision, asked |-> reads[r].asked, value |-> value,
                   settled |-> settled]
      /\ reads' = Manifest!Heard(r, "answered", value)
      /\ inFlight' = Manifest!Released(r) /\ batch' = [batch EXCEPT ![r] = Manifest!Unused("over")]
  BY DEF Manifest!Finish, Manifest!Retained
<1> HIDE DEF value, settled
<1>5. entry' \in Entry
  BY <1>0, <1>1, <1>3, <1>4 DEF Entry, Reader, Manifest!Documents
<1>6. EntryMatches'
  <2>1. entry'.revision = reads[r].doc.revision /\ entry'.asked = reads[r].asked /\ entry'.value = value
    BY <1>4
  <2>2. Known' = Known
    <3>1. \A q \in Reads : reads'[q].doc = reads[q].doc
      <4>1. reads \in [Reads -> Reader]
        BY DEF ManifestSound, MemoTyped
      <4> QED BY <1>4, <4>1 DEF Manifest!Heard, Reader
    <3> QED BY <3>1 DEF Known
  <2>3. reads[r].doc \in Known
    BY DEF Known
  <2>4. \A d \in Known : d.revision = reads[r].doc.revision => d = reads[r].doc
    BY <2>3 DEF ManifestSound, MemoSound, RevisionsNameDocuments
  <2>5. reads[r].doc.revision <= doc'.revision
    BY <2>3 DEF ManifestSound, MemoSound, RevisionsNameDocuments
  <2> QED BY <1>2, <2>1, <2>2, <2>4, <2>5 DEF EntryMatches, Fits
<1>7. Working(batch[r]) /\ batch[r].at # "idle"
  BY <1>0 DEF Working
<1> QED BY <1>1, <1>2, <1>4, <1>5, <1>6, <1>7, HeardStep

LEMMA CheckSound ==
  ASSUME ManifestSound, NEW r \in Reads, Manifest!Check(r) PROVE ManifestSound'
<1>1. /\ batch[r].at = "check" /\ UNCHANGED <<doc, catalog, units, rows, baking>>
      /\ batch \in [Manifest!Workers -> Batch] /\ r \in Manifest!Workers
  BY WorkerSets DEF Manifest!Check, ManifestSound, MemoTyped
<1>2. CASE Manifest!Finish(r) /\ UNCHANGED bake
  BY <1>1, <1>2, FinishSound
<1>3. CASE /\ bake' = Manifest!Toward(r, batch[r].content, Manifest!Missing(r))
           /\ batch' = [batch EXCEPT ![r].at = "bake"]
           /\ UNCHANGED <<entry, inFlight, reads>>
  <2> DEFINE b == [batch[r] EXCEPT !.at = "bake"]
  <2>1. /\ b \in Batch /\ b.at = "bake" /\ b.body = batch[r].body /\ b.content = batch[r].content
        /\ batch[r].content \in Manifest!Manifests
    BY <1>1 DEF Batch
  <2>2. batch' = [batch EXCEPT ![r] = b]
    BY <1>1, <1>3
  <2> HIDE DEF b
  <2>3. BakesTyped' /\ BakesServed'
    <3>1. batch[r].at \in {"project", "check"} /\ UNCHANGED <<rows, baking>>
      BY <1>1
    <3> DEFINE content == batch[r].content
               missing == Manifest!Missing(r)
    <3>2. bake' = Manifest!Toward(r, content, missing)
          /\ content \in Manifest!Manifests /\ missing \in SUBSET Levels
      BY <1>3, <2>1 DEF Manifest!Missing
    <3>3. batch'[r].at = "bake" /\ \A v \in Manifest!Workers \ {r} : batch'[v] = batch[v]
      BY <1>1, <2>1, <2>2
    <3> HIDE DEF content, missing
    <3> QED BY <1>1, <3>1, <3>2, <3>3, TowardStep
  <2>4. CatalogsTyped'
    BY <1>1 DEF ManifestSound, CatalogsTyped
  <2>5. Fits(r, b.content)
    BY <1>1, <2>1 DEF ManifestSound, MemoSound, ComputationOf
  <2>6. Working(batch[r]) /\ Working(b)
    BY <1>1, <2>1 DEF Working
  <2> QED BY <1>1, <1>3, <2>1, <2>2, <2>3, <2>4, <2>5, <2>6, BatchStep
<1> QED BY <1>2, <1>3 DEF Manifest!Check

\* The batch of a write ends, and nobody awaits it.
LEMMA WriteEnds ==
  ASSUME ManifestSound, NEW w \in Manifest!Workers \ Reads,
         batch' = [batch EXCEPT ![w] = Manifest!Unused("over")],
         UNCHANGED <<doc, catalog, units, rows, entry, inFlight, baking, reads, bake>>
  PROVE  ManifestSound'
<1> DEFINE over == Manifest!Unused("over")
<1>1. over \in Batch /\ over.at = "over" /\ batch' = [batch EXCEPT ![w] = over]
      /\ batch \in [Manifest!Workers -> Batch]
  BY UnusedTyped DEF ManifestSound, MemoTyped
<1> HIDE DEF over
<1>2. CatalogsTyped' /\ BakesTyped' /\ BakesServed'
  BY <1>1, BakesStand DEF ManifestSound, CatalogsTyped, BakesTyped
<1> QED BY <1>1, <1>2, BatchStep

LEMMA CollectSound ==
  ASSUME ManifestSound, NEW w \in Manifest!Workers, Manifest!Collect(w) PROVE ManifestSound'
<1>1. batch[w].at = "bake" /\ UNCHANGED <<doc, catalog, units, rows, baking, bake>>
  BY DEF Manifest!Collect
<1>2. CASE w \in Reads
  BY <1>1, <1>2, FinishSound DEF Manifest!Collect
<1>3. CASE w \notin Reads
  BY <1>1, <1>3, WriteEnds DEF Manifest!Collect
<1> QED BY <1>2, <1>3

LEMMA RejectSound ==
  ASSUME ManifestSound, NEW w \in Manifest!Workers, Manifest!Reject(w) PROVE ManifestSound'
<1>1. /\ Working(batch[w]) /\ batch' = [batch EXCEPT ![w] = Manifest!Unused("over")]
      /\ UNCHANGED <<doc, catalog, units, rows, entry, baking, bake>>
  BY DEF Manifest!Reject, Working
<1>2. CASE w \in Reads
  <2>1. inFlight' = Manifest!Released(w) /\ reads' = Manifest!Heard(w, "failed", None)
    BY <1>2 DEF Manifest!Reject
  <2>2. \A q \in Reads : reads'[q].doc = reads[q].doc
    <3>1. reads \in [Reads -> Reader]
      BY DEF ManifestSound, MemoTyped
    <3> QED BY <2>1, <3>1 DEF Manifest!Heard, Reader
  <2>3. EntryMatches' /\ entry' \in Entry \cup {None}
    <3>1. \A q \in Reads : reads'[q].doc \in Known
      BY <2>2 DEF Known
    <3> QED BY <1>1, <3>1, DocumentsStand DEF ManifestSound, MemoSound, MemoTyped
  <2>4. batch[w].at # "idle"
    BY <1>1 DEF Working
  <2> QED BY <1>1, <1>2, <2>1, <2>3, <2>4, HeardStep
<1>3. CASE w \notin Reads
  BY <1>1, <1>3, WriteEnds DEF Manifest!Reject
<1> QED BY <1>2, <1>3

----------------------------------------------------------------------------
(* The manifest: writes, restarts and the theorems *)

LEMMA EvictSound == ASSUME ManifestSound, Manifest!Evict PROVE ManifestSound'
<1>1. entry' = None /\ UNCHANGED <<doc, catalog, units, rows, inFlight, baking, reads, batch, bake>>
  BY DEF Manifest!Evict
<1>2. RevisionsNameDocuments' /\ EntryMatches'
  <2>1. \A q \in Reads : reads'[q].doc \in Known
    BY <1>1 DEF Known
  <2> QED BY <1>1, <2>1, DocumentsStand DEF ManifestSound, MemoSound
<1>3. CatalogsTyped' /\ BakesTyped' /\ MemoTyped' /\ BakesServed'
  BY <1>1 DEF ManifestSound, CatalogsTyped, BakesTyped, MemoTyped, BakesServed, NamedAreBusy,
              JoinedAreBusy, UnpreparedAreIdle
<1>4. InFlightWorks' /\ \A r \in Reads : ComputationOf(r)' /\ WaitOf(r)' /\ AnswerOf(r)'
  BY <1>1 DEF ManifestSound, MemoSound, InFlightWorks, ComputationOf, WaitOf, AnswerOf, Working, Fits
<1> QED BY <1>2, <1>3, <1>4 DEF ManifestSound, MemoSound

\* The document moves on: its next revision is nobody's yet.
LEMMA WriteStep ==
  ASSUME ManifestSound, NEW s \in Writes, NEW l \in Levels, NEW n \in Nat, NEW b \in Batch,
         doc' = Manifest!Rewritten(l, n), batch' = [batch EXCEPT ![s] = b],
         batch[s].at = "idle", b.at = "load",
         UNCHANGED <<catalog, units, rows, entry, inFlight, baking, reads, bake>>
  PROVE  ManifestSound'
<1> DEFINE body == [doc.body EXCEPT ![l] = n]
<1>0. /\ doc \in Manifest!Documents /\ doc.revision \in Nat /\ s \in Manifest!Workers
      /\ s \notin Reads /\ Reads \subseteq Manifest!Workers
      /\ batch \in [Manifest!Workers -> Batch] /\ reads \in [Reads -> Reader]
  BY WorkerSets, WorkersAssumption DEF ManifestSound, MemoTyped, Manifest!Documents
<1>1. body \in [Levels -> Nat] /\ doc' = [doc EXCEPT !.revision = @ + 1, !.body = body]
  BY <1>0 DEF Manifest!Rewritten, Manifest!Documents
<1> HIDE DEF body
<1>2. doc' \in Manifest!Documents /\ doc'.revision = doc.revision + 1
  <2> DEFINE next == doc.revision + 1
  <2>1. next \in Nat /\ doc' = [doc EXCEPT !.revision = next, !.body = body]
    BY <1>0, <1>1
  <2> HIDE DEF next
  <2>2. doc' \in Manifest!Documents /\ doc'.revision = next
    BY <1>0, <1>1, <2>1 DEF Manifest!Documents
  <2> QED BY <2>2 DEF next
<1>3. \A d \in Known : d.revision \in Nat /\ d.revision < doc'.revision
  <2>1. \A d \in Known : d \in Manifest!Documents
    BY <1>0 DEF Known, Reader
  <2>2. \A d \in Known : d.revision \in Nat /\ d.revision <= doc.revision
    BY <2>1 DEF ManifestSound, MemoSound, RevisionsNameDocuments, Manifest!Documents
  <2> QED BY <1>0, <1>2, <2>2
<1>4. Known' \subseteq Known \cup {doc'}
  BY DEF Known
<1>5. RevisionsNameDocuments'
  <2>1. \A d \in Known' : d.revision <= doc'.revision
    BY <1>2, <1>3, <1>4 DEF Manifest!Documents
  <2>2. \A d, e \in Known' : d.revision = e.revision => d = e
    BY <1>2, <1>3, <1>4 DEF ManifestSound, MemoSound, RevisionsNameDocuments
  <2> QED BY <2>1, <2>2 DEF RevisionsNameDocuments
<1>6. EntryMatches'
  <2>1. SUFFICES ASSUME entry # None PROVE EntryMatches'
    BY DEF EntryMatches
  <2>2. entry \in Entry /\ entry.revision \in Nat /\ entry.revision <= doc.revision
    BY <2>1 DEF ManifestSound, MemoTyped, MemoSound, EntryMatches, Entry
  <2>3. entry.revision < doc'.revision
    BY <1>0, <1>2, <2>2
  <2>4. \A d \in Known' : d.revision = entry.revision => d \in Known
    BY <1>2, <1>4, <2>2, <2>3
  <2> QED BY <1>0, <1>2, <2>1, <2>2, <2>3, <2>4 DEF ManifestSound, MemoSound, EntryMatches
<1>7. batch' \in [Manifest!Workers -> Batch] /\ \A w \in Manifest!Workers \ {s} : batch'[w] = batch[w]
  BY <1>0
<1>8. MemoTyped' /\ CatalogsTyped' /\ BakesTyped'
  BY <1>2, <1>7 DEF ManifestSound, MemoTyped, CatalogsTyped, BakesTyped
<1>9. BakesServed'
  BY <1>7, BakesStand DEF ManifestSound
<1>10. \A r \in Reads : batch'[r] = batch[r]
  BY <1>0, <1>7
<1>11. InFlightWorks'
  BY <1>10 DEF ManifestSound, MemoTyped, MemoSound, InFlightWorks
<1>12. ASSUME NEW r \in Reads PROVE ComputationOf(r)' /\ WaitOf(r)' /\ AnswerOf(r)'
  <2>1. ComputationOf(r) /\ WaitOf(r) /\ AnswerOf(r)
    BY DEF ManifestSound, MemoSound
  <2> QED BY <1>10, <2>1 DEF ComputationOf, WaitOf, AnswerOf, Fits
<1> QED BY <1>5, <1>6, <1>8, <1>9, <1>11, <1>12 DEF ManifestSound, MemoSound

LEMMA WritesSound ==
  ASSUME ManifestSound, NEW s \in Writes, Manifest!Save(s) \/ Manifest!Put(s) PROVE ManifestSound'
<1>0. /\ batch \in [Manifest!Workers -> Batch] /\ s \in Manifest!Workers /\ batch[s] \in Batch
      /\ doc \in Manifest!Documents /\ doc.revision + 1 \in Nat /\ 0 \in Nat
  BY WorkerSets DEF ManifestSound, MemoTyped, Manifest!Documents
<1>1. ASSUME NEW body, body \in [Levels -> Nat]
      PROVE  LET b == [batch[s] EXCEPT !.at = "load", !.body = body] IN b \in Batch /\ b.at = "load"
  BY <1>0, <1>1 DEF Batch
<1>2. CASE Manifest!Save(s)
  <2>1. PICK l \in Levels :
          /\ batch[s].at = "idle" /\ doc' = Manifest!Rewritten(l, doc.revision + 1)
          /\ batch' = [batch EXCEPT ![s].at = "load", ![s].body[l] = doc.revision + 1]
          /\ UNCHANGED <<catalog, units, rows, entry, inFlight, baking, reads, bake>>
    BY <1>2 DEF Manifest!Save
  <2> DEFINE body == [batch[s].body EXCEPT ![l] = doc.revision + 1]
             b == [batch[s] EXCEPT !.at = "load", !.body = body]
  <2>2. body \in [Levels -> Nat]
    BY <1>0 DEF Batch
  <2>3. batch' = [batch EXCEPT ![s] = b]
    BY <1>0, <2>1
  <2> HIDE DEF body
  <2>4. b \in Batch /\ b.at = "load"
    BY <1>1, <2>2
  <2> HIDE DEF b
  <2> QED BY <1>0, <2>1, <2>3, <2>4, WriteStep
<1>3. CASE Manifest!Put(s)
  <2>1. PICK l \in Levels, n \in {0, doc.revision + 1} :
          /\ batch[s].at = "idle" /\ doc' = Manifest!Rewritten(l, n)
          /\ batch' = [batch EXCEPT ![s].at = "load", ![s].body = doc'.body]
          /\ UNCHANGED <<catalog, units, rows, entry, inFlight, baking, reads, bake>>
    BY <1>3 DEF Manifest!Put
  <2> DEFINE body == doc'.body
             b == [batch[s] EXCEPT !.at = "load", !.body = body]
  <2>2. body \in [Levels -> Nat] /\ n \in Nat
    <3>1. n \in Nat
      BY <1>0
    <3> DEFINE f == [doc.body EXCEPT ![l] = n]
    <3>2. doc' = [doc EXCEPT !.revision = @ + 1, !.body = f]
      BY <2>1 DEF Manifest!Rewritten
    <3>3. f \in [Levels -> Nat]
      BY <1>0, <3>1 DEF Manifest!Documents
    <3> HIDE DEF f
    <3>4. doc'.body = f
      BY <1>0, <3>2 DEF Manifest!Documents
    <3> QED BY <3>1, <3>3, <3>4
  <2>3. batch' = [batch EXCEPT ![s] = b]
    BY <1>0, <2>1
  <2> HIDE DEF body
  <2>4. b \in Batch /\ b.at = "load"
    BY <1>1, <2>2
  <2> HIDE DEF b
  <2> QED BY <1>0, <2>1, <2>2, <2>3, <2>4, WriteStep
<1> QED BY <1>2, <1>3

\* A restart leaves nobody waiting: readers are lost, batches over, derivatives failed.
LEMMA RestartSound == ASSUME ManifestSound, Manifest!Restart PROVE ManifestSound'
<1>0. /\ reads \in [Reads -> Reader] /\ batch \in [Manifest!Workers -> Batch]
      /\ bake \in [Manifest!Workers -> [Levels -> Bake]] /\ Reads \subseteq Manifest!Workers
  BY WorkerSets DEF ManifestSound, MemoTyped, BakesTyped
<1>1. /\ units' = [cache |-> None, fills |-> {}, committed |-> FALSE] /\ entry' = None
      /\ inFlight' = None /\ baking' = Manifest!Nothing /\ UNCHANGED <<doc, catalog, rows>>
  BY DEF Manifest!Restart
<1> DEFINE lost(r) == [reads[r] EXCEPT !.stage = "lost"]
<1>2. ASSUME NEW r \in Reads
      PROVE  /\ reads'[r] \in Reader
             /\ reads'[r].doc = reads[r].doc /\ reads'[r].asked = reads[r].asked
             /\ reads'[r].answer = reads[r].answer /\ reads'[r].source = reads[r].source
             /\ reads'[r].stage = (IF reads[r].stage \in {"document", "keyed", "waiting"}
                                     THEN "lost" ELSE reads[r].stage)
  <2>1. reads'[r] = IF reads[r].stage \in {"document", "keyed", "waiting"} THEN lost(r) ELSE reads[r]
    BY DEF Manifest!Restart
  <2>2. /\ lost(r) \in Reader /\ lost(r).stage = "lost"
        /\ lost(r).doc = reads[r].doc /\ lost(r).asked = reads[r].asked
        /\ lost(r).answer = reads[r].answer /\ lost(r).source = reads[r].source
    BY <1>0 DEF Reader
  <2> HIDE DEF lost
  <2> QED BY <1>0, <2>1, <2>2
<1>3. ASSUME NEW w \in Manifest!Workers
      PROVE  /\ batch'[w] \in Batch
             /\ \/ batch'[w] = batch[w] /\ batch[w].at = "idle"
                \/ batch'[w].at = "over" /\ batch[w].at # "idle"
  <2>1. batch'[w] = IF batch[w].at = "idle" THEN batch[w] ELSE Manifest!Unused("over")
    BY DEF Manifest!Restart
  <2> QED BY <1>0, <2>1, UnusedTyped
<1>4. ASSUME NEW w \in Manifest!Workers, NEW l \in Levels
      PROVE  /\ bake'[w][l] \in Bake
             /\ \/ bake'[w][l] = bake[w][l] /\ bake[w][l].at = "idle"
                \/ bake[w][l].at # "idle" /\ bake'[w][l].at = "failed"
  <2>1. bake'[w][l] = IF bake[w][l].at = "idle" THEN bake[w][l] ELSE Manifest!Settled("failed")
    BY Phrases DEF Manifest!Restart
  <2> QED BY <1>0, <2>1, SettledTyped
<1>5. CatalogsTyped'
  <2> DEFINE no == FALSE
  <2>1. no \in BOOLEAN /\ units' = [cache |-> None, fills |-> {}, committed |-> no]
    BY <1>1
  <2> HIDE DEF no
  <2>2. units' \in Units
    BY <2>1 DEF Units
  <2> QED BY <1>1, <2>2 DEF ManifestSound, CatalogsTyped
<1>6. MemoTyped'
  <2>1. reads' = [r \in Reads |-> reads'[r]] /\ batch' = [w \in Manifest!Workers |-> batch'[w]]
    BY DEF Manifest!Restart
  <2>2. reads' \in [Reads -> Reader]
    BY <1>2, <2>1
  <2>3. batch' \in [Manifest!Workers -> Batch]
    BY <1>3, <2>1
  <2> QED BY <1>1, <2>2, <2>3 DEF ManifestSound, MemoTyped
<1>7. BakesTyped'
  <2>1. bake' = [w \in Manifest!Workers |-> [l \in Levels |-> bake'[w][l]]]
    BY DEF Manifest!Restart
  <2>2. bake' \in [Manifest!Workers -> [Levels -> Bake]]
    BY <1>4, <2>1
  <2>3. baking' \in [Levels -> Manifest!Workers \cup {None}]
    BY <1>1 DEF Manifest!Nothing
  <2> QED BY <1>1, <2>2, <2>3 DEF ManifestSound, BakesTyped
<1>8. BakesServed'
  <2>1. NamedAreBusy'
    BY <1>1, NothingTyped DEF NamedAreBusy
  <2>2. JoinedAreBusy'
    BY <1>4 DEF JoinedAreBusy
  <2>3. UnpreparedAreIdle'
    <3>1. \A w \in Manifest!Workers, l \in Levels : batch[w].at = "idle" => bake[w][l].at = "idle"
      BY DEF ManifestSound, BakesServed, UnpreparedAreIdle
    <3> QED BY <1>3, <1>4, <3>1 DEF UnpreparedAreIdle
  <2> QED BY <2>1, <2>2, <2>3 DEF BakesServed
<1>9. RevisionsNameDocuments' /\ EntryMatches'
  <2>1. \A q \in Reads : reads'[q].doc \in Known
    BY <1>2 DEF Known
  <2> QED BY <1>1, <2>1, DocumentsStand DEF ManifestSound, MemoSound
<1>10. InFlightWorks'
  BY <1>1 DEF InFlightWorks
<1>11. ASSUME NEW r \in Reads PROVE ComputationOf(r)' /\ WaitOf(r)' /\ AnswerOf(r)'
  <2>1. ComputationOf(r) /\ AnswerOf(r) /\ r \in Manifest!Workers
    BY <1>0 DEF ManifestSound, MemoSound
  <2>2. ComputationOf(r)'
    <3>1. reads'[r].stage \in {"new", "document", "keyed"} => reads[r].stage = "new"
      BY <1>2
    <3>2. reads'[r].stage \in {"new", "document", "keyed"} => batch'[r].at = "idle"
      BY <1>3, <2>1, <3>1 DEF ComputationOf
    <3>3. batch'[r].at \in {"idle", "over"}
      BY <1>3, <2>1
    <3>4. reads'[r].asked.art <= catalog'.art
      BY <1>1, <1>2, <2>1 DEF ComputationOf
    <3> QED BY <3>2, <3>3, <3>4 DEF ComputationOf, Working
  <2>3. WaitOf(r)'
    BY <1>2 DEF WaitOf
  <2>4. AnswerOf(r)'
    BY <1>2, <2>1 DEF AnswerOf
  <2> QED BY <2>2, <2>3, <2>4
<1> QED BY <1>5, <1>6, <1>7, <1>8, <1>9, <1>10, <1>11 DEF ManifestSound, MemoSound

LEMMA ManifestInit == Manifest!Init => ManifestSound
<1> SUFFICES ASSUME Manifest!Init PROVE ManifestSound
  OBVIOUS
<1>1. PICK body \in [Levels -> {0, 1}] : doc = [revision |-> 1, body |-> body]
  BY DEF Manifest!Init
<1>2. doc \in Manifest!Documents
  BY <1>1 DEF Manifest!Documents
<1>3. /\ catalog = Manifest!Start /\ units = [cache |-> None, fills |-> {}, committed |-> FALSE]
      /\ rows = Manifest!Nothing /\ entry = None /\ inFlight = None /\ baking = Manifest!Nothing
      /\ batch = [w \in Manifest!Workers |-> Manifest!Unused("idle")]
      /\ bake = [w \in Manifest!Workers |-> [l \in Levels |-> Manifest!Settled("idle")]]
  BY DEF Manifest!Init
<1>4. ASSUME NEW r \in Reads
      PROVE  reads[r] \in Reader /\ reads[r].stage = "new" /\ reads[r].doc = doc
             /\ reads[r].asked = Manifest!Start
  <2>1. reads[r] = [stage |-> "new", doc |-> doc, asked |-> Manifest!Start, on |-> None,
                    answer |-> None, source |-> "none"]
    BY DEF Manifest!Init
  <2> QED BY <1>2, <2>1, StartTyped DEF Reader
<1>5. reads \in [Reads -> Reader]
  <2>1. reads = [r \in Reads |-> reads[r]]
    BY DEF Manifest!Init
  <2> QED BY <1>4, <2>1
<1>6. \A w \in Manifest!Workers : batch[w] \in Batch /\ batch[w].at = "idle"
  BY <1>3, UnusedTyped
<1>7. \A w \in Manifest!Workers, l \in Levels : bake[w][l] \in Bake /\ bake[w][l].at = "idle"
  BY <1>3, SettledTyped
<1>8. CatalogsTyped
  <2> DEFINE no == FALSE
  <2>1. no \in BOOLEAN /\ units = [cache |-> None, fills |-> {}, committed |-> no]
    BY <1>3
  <2> HIDE DEF no
  <2>2. units \in Units
    BY <2>1 DEF Units
  <2> QED BY <1>3, <2>2, StartTyped DEF CatalogsTyped
<1>9. MemoTyped
  BY <1>2, <1>3, <1>5, <1>6 DEF MemoTyped
<1>10. BakesTyped
  <2>1. baking \in [Levels -> Manifest!Workers \cup {None}]
    BY <1>3 DEF Manifest!Nothing
  <2> QED BY <1>3, <1>7, <2>1, NothingTyped DEF BakesTyped
<1>11. BakesServed
  BY <1>3, <1>7, NothingTyped DEF BakesServed, NamedAreBusy, JoinedAreBusy, UnpreparedAreIdle
<1>12. RevisionsNameDocuments
  <2>1. Known = {doc}
    BY <1>4 DEF Known
  <2> QED BY <1>2, <2>1 DEF RevisionsNameDocuments, Manifest!Documents
<1>13. ASSUME NEW r \in Reads PROVE ComputationOf(r) /\ WaitOf(r) /\ AnswerOf(r)
  BY <1>3, <1>4, <1>6, StartTyped, WorkerSets DEF ComputationOf, WaitOf, AnswerOf, Working
<1> QED BY <1>3, <1>8, <1>9, <1>10, <1>11, <1>12, <1>13
        DEF ManifestSound, MemoSound, EntryMatches, InFlightWorks

LEMMA ManifestStep == ManifestSound /\ [Manifest!Next]_(Manifest!vars) => ManifestSound'
<1> SUFFICES ASSUME ManifestSound, [Manifest!Next]_(Manifest!vars) PROVE ManifestSound'
  OBVIOUS
<1>1. ASSUME NEW w \in Manifest!Workers, Manifest!Work(w) PROVE ManifestSound'
  BY <1>1, LoadSound, ProjectSound, CollectSound, OneBakeSound DEF Manifest!Work, OneBake
<1>2. ASSUME NEW r \in Reads, Manifest!ReadDocument(r) \/ Manifest!Read(r) PROVE ManifestSound'
  BY <1>2, ReadDocumentSound, ReadInputsKeySound, ConsultSound, CheckSound DEF Manifest!Read
<1>3. CASE UNCHANGED Manifest!vars
  <2>1. UNCHANGED <<doc, catalog, units, rows, entry, inFlight, baking, reads, batch, bake>>
    BY <1>3 DEF Manifest!vars
  <2>2. CatalogsTyped' /\ BakesTyped' /\ MemoTyped' /\ BakesServed'
    BY <2>1 DEF ManifestSound, CatalogsTyped, BakesTyped, MemoTyped, BakesServed, NamedAreBusy,
                JoinedAreBusy, UnpreparedAreIdle
  <2>3. MemoSound'
    BY <2>1 DEF ManifestSound, MemoSound, RevisionsNameDocuments, EntryMatches, InFlightWorks, Working,
                Known, ComputationOf, WaitOf, AnswerOf, Fits
  <2> QED BY <2>2, <2>3 DEF ManifestSound
<1> QED BY <1>1, <1>2, <1>3, CatalogsSound, EvictSound, RestartSound, WritesSound, RejectSound
        DEF Manifest!Next

\* The memo, the pipeline and the caches keep their types.
THEOREM ManifestTypeCorrect == Manifest!Spec => []Manifest!TypeOK
<1>1. ManifestSound => Manifest!TypeOK
  BY TypedParts DEF ManifestSound
<1> QED BY <1>1, ManifestInit, ManifestStep, PTL DEF Manifest!Spec

\* Every picture of an answer is of the level as the document beside it has it, for any number
\* of readers, writes and levels, and in whatever order overlapping computations are retained.
THEOREM PicturesMatch == Manifest!Spec => []ServedBesideItsDocument
<1>1. ManifestSound => ServedBesideItsDocument
  BY DEF ManifestSound, MemoSound, AnswerOf, ServedBesideItsDocument,
         Manifest!ServedBesideItsDocument, Manifest!Shown
<1> QED BY <1>1, ManifestInit, ManifestStep, PTL DEF Manifest!Spec

\* An answer that does not say it is stale shows no older art than its reader asked about.
THEOREM AnswersFresh == Manifest!Spec => []FreshAsAsked
<1>1. ManifestSound => FreshAsAsked
  BY DEF ManifestSound, MemoSound, AnswerOf, FreshAsAsked, Manifest!FreshAsAsked, Manifest!Shown
<1> QED BY <1>1, ManifestInit, ManifestStep, PTL DEF Manifest!Spec

\* Nobody waits for a computation or a derivative that is not under way, whatever was refused,
\* evicted, replaced or lost with the process.
THEOREM WaitsServed == Manifest!Spec => []EveryWaitIsServed
<1>1. ManifestSound => EveryWaitIsServed
  <2> SUFFICES ASSUME ManifestSound PROVE EveryWaitIsServed
    OBVIOUS
  <2>1. \A w : Working(batch[w]) => Manifest!AtWork(w)
    BY DEF Working, Manifest!AtWork
  <2>2. \A r \in Reads : reads[r].stage = "waiting" => Manifest!AtWork(reads[r].on)
    BY <2>1 DEF ManifestSound, MemoSound, WaitOf
  <2>3. inFlight # None => Manifest!AtWork(inFlight)
    BY <2>1 DEF ManifestSound, MemoSound, InFlightWorks
  <2>4. \A l \in Levels : baking[l] # None => Manifest!Busy(baking[l], l)
    BY Phrases DEF ManifestSound, BakesServed, NamedAreBusy
  <2>5. \A w \in Manifest!Workers, l \in Levels :
          Manifest!At(w, l) \in {"join", "behind"} =>
            Manifest!Busy(bake[w][l].on, l) \/ Manifest!Over(bake[w][l].on, l)
    BY Phrases DEF ManifestSound, BakesServed, JoinedAreBusy
  <2> QED BY <2>2, <2>3, <2>4, <2>5 DEF EveryWaitIsServed, Manifest!EveryWaitIsServed
<1> QED BY <1>1, ManifestInit, ManifestStep, PTL DEF Manifest!Spec

----------------------------------------------------------------------------
(* The budget: what a set of reads holds *)

\* Among the subsets of a finite set that have a property, one has none below it.
LEMMA Smallest ==
  ASSUME NEW S, IsFiniteSet(S), NEW C \in SUBSET (SUBSET S), C # {}
  PROVE  \E T \in C : \A U \in C : U \subseteq T => U = T
<1>1. IsWellFoundedOn(StrictSubsetOrdering(S), SUBSET S)
  BY FS_StrictSubsetOrderingWellFounded, FS_FiniteSubsetsOfFinite
<1>2. PICK T \in C : \A U \in C : ~(<<U, T>> \in StrictSubsetOrdering(S))
  BY <1>1, WFMin
<1>3. \A U \in C : U \subseteq T => U = T
  BY <1>2 DEF StrictSubsetOrdering
<1> QED BY <1>3

\* The bytes of a set of reads.
Held(calls, S) == Budget!MapThenSumSet(LAMBDA r : calls[r].bytes, S)

\* g is a fold over the subsets of S that takes a read of each as it comes ...
Sums(g, calls, S) ==
  g = [x \in SUBSET S |->
         IF x = {} THEN 0
         ELSE calls[CHOOSE r \in x : TRUE].bytes + g[x \ {CHOOSE r \in x : TRUE}]]

\* ... and here whichever read is taken adds its bytes.
Adds(g, calls, S) ==
  /\ g \in [SUBSET S -> Nat]
  /\ g[{}] = 0
  /\ \A x \in SUBSET S : \A r \in x : g[x] = calls[r].bytes + g[x \ {r}]

Counted(calls, S) == \A r \in S : calls[r].bytes \in Nat

LEMMA HeldFold ==
  ASSUME NEW calls, NEW S PROVE Held(calls, S) = (CHOOSE g : Sums(g, calls, S))[S]
<1>1. Held(calls, S) =
        (CHOOSE g : g = [x \in SUBSET S |->
           IF x = {} THEN 0
           ELSE calls[CHOOSE r \in x : TRUE].bytes + g[x \ {CHOOSE r \in x : TRUE}]])[S]
  BY DEF Held, Budget!MapThenSumSet, Budget!MapThenFoldSet
<1> QED BY <1>1 DEF Sums

LEMMA AddsOne ==
  ASSUME NEW calls, NEW S, NEW a \in S, Counted(calls, S), NEW g, Adds(g, calls, S \ {a})
  PROVE  \E h : Adds(h, calls, S)
<1> DEFINE h == [x \in SUBSET S |-> IF a \in x THEN calls[a].bytes + g[x \ {a}] ELSE g[x]]
<1>1. calls[a].bytes \in Nat /\ g \in [SUBSET (S \ {a}) -> Nat]
  BY DEF Counted, Adds
<1>2. ASSUME NEW x \in SUBSET S
      PROVE  /\ a \in x => h[x] = calls[a].bytes + g[x \ {a}] /\ x \ {a} \in SUBSET (S \ {a})
             /\ a \notin x => h[x] = g[x] /\ x \in SUBSET (S \ {a})
  OBVIOUS
<1>3. h \in [SUBSET S -> Nat]
  <2>1. \A x \in SUBSET S : h[x] \in Nat
    <3> TAKE x \in SUBSET S
    <3> HIDE DEF h
    <3>1. CASE a \in x
      <4>1. g[x \ {a}] \in Nat
        BY <1>1, <1>2, <3>1
      <4> QED BY <1>1, <1>2, <3>1, <4>1
    <3>2. CASE a \notin x
      <4>1. g[x] \in Nat
        BY <1>1, <1>2, <3>2
      <4> QED BY <1>2, <3>2, <4>1
    <3> QED BY <3>1, <3>2
  <2>2. h = [x \in SUBSET S |-> h[x]]
    OBVIOUS
  <2> HIDE DEF h
  <2> QED BY <2>1, <2>2
<1>4. h[{}] = 0
  BY DEF Adds
<1> HIDE DEF h
<1>5. ASSUME NEW x \in SUBSET S, NEW r \in x PROVE h[x] = calls[r].bytes + h[x \ {r}]
  <2>1. x \ {r} \in SUBSET S /\ calls[r].bytes \in Nat
    BY DEF Counted
  <2>2. CASE r = a
    <3>1. h[x \ {r}] = g[x \ {a}]
      BY <1>2, <2>1, <2>2
    <3> QED BY <1>2, <1>5, <2>2, <3>1
  <2>3. CASE r # a /\ a \notin x
    <3>1. h[x] = g[x] /\ h[x \ {r}] = g[x \ {r}] /\ x \in SUBSET (S \ {a})
      BY <1>2, <2>1, <2>3
    <3> QED BY <1>5, <3>1 DEF Adds
  <2>4. CASE r # a /\ a \in x
    <3>1. /\ h[x] = calls[a].bytes + g[x \ {a}] /\ x \ {a} \in SUBSET (S \ {a})
          /\ h[x \ {r}] = calls[a].bytes + g[(x \ {r}) \ {a}] /\ (x \ {r}) \ {a} \in SUBSET (S \ {a})
      BY <1>2, <2>1, <2>4
    <3>2. (x \ {r}) \ {a} = (x \ {a}) \ {r} /\ r \in x \ {a}
      BY <1>5, <2>4
    <3>3. g[x \ {a}] = calls[r].bytes + g[(x \ {a}) \ {r}]
      BY <3>1, <3>2 DEF Adds
    <3>4. g[x \ {a}] \in Nat /\ g[(x \ {a}) \ {r}] \in Nat
      BY <1>1, <3>1, <3>2
    <3> DEFINE more == g[x \ {a}]
               rest == g[(x \ {a}) \ {r}]
               one == calls[a].bytes
               other == calls[r].bytes
    <3>5. more \in Nat /\ rest \in Nat /\ one \in Nat /\ other \in Nat
      BY <1>1, <2>1, <3>4
    <3>6. h[x] = one + more /\ h[x \ {r}] = one + rest /\ more = other + rest
      BY <3>1, <3>2, <3>3
    <3> HIDE DEF more, rest, one, other
    <3>7. h[x] = other + h[x \ {r}]
      BY <3>5, <3>6
    <3> QED BY <3>7 DEF other
  <2> QED BY <2>2, <2>3, <2>4
<1> QED BY <1>3, <1>4, <1>5 DEF Adds

\* Every finite set of reads has such a sum.
LEMMA AddsExist ==
  ASSUME NEW calls, NEW S, IsFiniteSet(S), Counted(calls, S)
  PROVE  \E g : Adds(g, calls, S)
<1> DEFINE Lacking == {T \in SUBSET S : ~\E g : Adds(g, calls, T)}
<1>1. SUFFICES ASSUME Lacking # {} PROVE FALSE
  OBVIOUS
<1>2. PICK T \in Lacking : \A U \in Lacking : U \subseteq T => U = T
  <2>1. Lacking \in SUBSET (SUBSET S)
    OBVIOUS
  <2> HIDE DEF Lacking
  <2> QED BY <1>1, <2>1, Smallest
<1>3. T # {}
  <2> DEFINE g == [x \in SUBSET {} |-> 0]
  <2>1. Adds(g, calls, {})
    <3>1. \A x \in SUBSET {} : x = {}
      OBVIOUS
    <3> QED BY <3>1 DEF Adds
  <2> QED BY <1>2, <2>1
<1>4. PICK a \in T : TRUE
  BY <1>3
<1>5. \E g : Adds(g, calls, T \ {a})
  BY <1>2, <1>4
<1>6. Counted(calls, T)
  BY <1>2 DEF Counted
<1> QED BY <1>2, <1>4, <1>5, <1>6, AddsOne

\* The fold is that sum, whichever read it takes first.
LEMMA HeldIsSum ==
  ASSUME NEW calls, NEW S, IsFiniteSet(S), Counted(calls, S), NEW g, Adds(g, calls, S)
  PROVE  Held(calls, S) = g[S]
<1> DEFINE first(x) == CHOOSE r \in x : TRUE
<1>1. ASSUME NEW x \in SUBSET S, x # {}
      PROVE  first(x) \in x /\ x \ {first(x)} \in SUBSET S
  BY <1>1
<1> HIDE DEF first
<1>2. Sums(g, calls, S)
  <2>1. \A x \in SUBSET S : g[x] = IF x = {} THEN 0 ELSE calls[first(x)].bytes + g[x \ {first(x)}]
    BY <1>1 DEF Adds
  <2>2. g = [x \in SUBSET S |-> g[x]]
    BY DEF Adds
  <2> QED BY <2>1, <2>2 DEF Sums, first
<1> DEFINE h == CHOOSE h : Sums(h, calls, S)
<1>3. Sums(h, calls, S)
  BY <1>2
<1>4. Held(calls, S) = h[S]
  BY HeldFold
<1> HIDE DEF h
<1>5. \A x \in SUBSET S : h[x] = IF x = {} THEN 0 ELSE calls[first(x)].bytes + h[x \ {first(x)}]
  BY <1>3 DEF Sums, first
<1> DEFINE Differ == {x \in SUBSET S : h[x] # g[x]}
<1>6. Differ = {}
  <2> SUFFICES ASSUME Differ # {} PROVE FALSE
    OBVIOUS
  <2>1. PICK x \in Differ : \A y \in Differ : y \subseteq x => y = x
    <3>1. Differ \in SUBSET (SUBSET S)
      OBVIOUS
    <3> HIDE DEF Differ
    <3> QED BY <3>1, Smallest
  <2>2. x # {}
    BY <1>5, <2>1 DEF Adds
  <2>3. first(x) \in x /\ x \ {first(x)} \in SUBSET S
    BY <1>1, <2>1, <2>2
  <2>4. h[x \ {first(x)}] = g[x \ {first(x)}]
    BY <2>1, <2>3
  <2>5. h[x] = calls[first(x)].bytes + h[x \ {first(x)}]
    BY <1>5, <2>1, <2>2
  <2>6. g[x] = calls[first(x)].bytes + g[x \ {first(x)}]
    BY <2>1, <2>3 DEF Adds
  <2> QED BY <2>1, <2>4, <2>5, <2>6
<1> QED BY <1>4, <1>6

\* No reads hold nothing; one more read holds its bytes.
LEMMA HeldNothing == ASSUME NEW calls PROVE Held(calls, {}) = 0
<1>1. IsFiniteSet({}) /\ Counted(calls, {})
  BY FS_EmptySet DEF Counted
<1>2. PICK g : Adds(g, calls, {})
  BY <1>1, AddsExist
<1> QED BY <1>1, <1>2, HeldIsSum DEF Adds

LEMMA HeldOneMore ==
  ASSUME NEW calls, NEW S, NEW a, a \notin S, IsFiniteSet(S), Counted(calls, S \cup {a})
  PROVE  /\ IsFiniteSet(S \cup {a})
         /\ Held(calls, S) \in Nat
         /\ Held(calls, S \cup {a}) = Held(calls, S) + calls[a].bytes
<1>1. IsFiniteSet(S \cup {a})
  BY FS_AddElement
<1>2. PICK g : Adds(g, calls, S \cup {a})
  BY <1>1, AddsExist
<1>3. Held(calls, S \cup {a}) = g[S \cup {a}]
  BY <1>1, <1>2, HeldIsSum
<1> DEFINE h == [x \in SUBSET S |-> g[x]]
<1>4. Adds(h, calls, S)
  <2>1. \A x \in SUBSET S : x \in SUBSET (S \cup {a}) /\ h[x] = g[x]
    OBVIOUS
  <2>2. h \in [SUBSET S -> Nat]
    BY <1>2, <2>1 DEF Adds
  <2>3. \A x \in SUBSET S : \A r \in x : h[x] = calls[r].bytes + h[x \ {r}]
    <3>1. \A x \in SUBSET S : \A r \in x : x \ {r} \in SUBSET S
      OBVIOUS
    <3> HIDE DEF h
    <3> QED BY <1>2, <2>1, <3>1 DEF Adds
  <2>4. h[{}] = 0
    BY <1>2 DEF Adds
  <2> HIDE DEF h
  <2> QED BY <2>2, <2>3, <2>4 DEF Adds
<1>5. Counted(calls, S) /\ h[S] = g[S]
  BY DEF Counted
<1> HIDE DEF h
<1>6. Held(calls, S) = g[S]
  BY <1>4, <1>5, HeldIsSum
<1>7. g[S \cup {a}] = calls[a].bytes + g[S] /\ g[S] \in Nat
  <2>1. a \in S \cup {a} /\ (S \cup {a}) \ {a} = S /\ S \in SUBSET (S \cup {a})
        /\ S \cup {a} \in SUBSET (S \cup {a})
    OBVIOUS
  <2> QED BY <1>2, <2>1 DEF Adds
<1>8. calls[a].bytes \in Nat
  BY DEF Counted
<1> QED BY <1>1, <1>3, <1>6, <1>7, <1>8

\* Only the bytes matter.
LEMMA HeldSame ==
  ASSUME NEW calls, NEW later, NEW S, IsFiniteSet(S), Counted(calls, S),
         \A r \in S : later[r].bytes = calls[r].bytes
  PROVE  Held(later, S) = Held(calls, S)
<1>1. PICK g : Adds(g, calls, S)
  BY AddsExist
<1>2. Adds(g, later, S) /\ Counted(later, S)
  BY <1>1 DEF Adds, Counted
<1> QED BY <1>1, <1>2, HeldIsSum

----------------------------------------------------------------------------
(* The budget: the queue that release serves *)

\* A set of natural numbers has a least element.
LEMMA Least ==
  ASSUME NEW S \in SUBSET Nat, S # {}
  PROVE  \E n \in S : \A m \in S : n <= m
<1>1. IsWellFoundedOn({ss \in Nat \X Nat : ss[1] < ss[2]}, Nat)
  BY NatLessThanWellFounded DEF OpToRel
<1>2. PICK n \in S : \A m \in S : ~(<<m, n>> \in {ss \in Nat \X Nat : ss[1] < ss[2]})
  BY <1>1, WFMin
<1>3. \A m \in S : ~(m < n)
  BY <1>2
<1> QED BY <1>3

\* A set of numbers up to a bound that has 0 and every successor has all of them.
LEMMA Upward ==
  ASSUME NEW n \in Nat, NEW S, 0 \in S, \A k \in 0..(n - 1) : k \in S => k + 1 \in S
  PROVE  \A k \in 0..n : k \in S
<1> DEFINE Missing == {k \in 0..n : k \notin S}
<1>1. SUFFICES ASSUME Missing # {} PROVE FALSE
  OBVIOUS
<1>2. PICK m \in Missing : \A k \in Missing : m <= k
  <2>1. Missing \in SUBSET Nat
    OBVIOUS
  <2> HIDE DEF Missing
  <2> QED BY <1>1, <2>1, Least
<1>3. m # 0 /\ m \in Nat /\ m - 1 \in 0..(n - 1)
  BY <1>2
<1>4. m - 1 \in S
  BY <1>2, <1>3
<1> QED BY <1>2, <1>3, <1>4

\* The queue with which release begins, and after it went over the waiters.
Begun(r) == [used |-> bytesInFlight - read[r].bytes, granted |-> {}, left |-> <<>>]

Ended(r) == Budget!FoldLeft(Budget!Admit, Begun(r), waiters)

\* g is the fold of Admit over the waiters of every set of places up to k.
Unrolls(g, k, r) ==
  g = [x \in SUBSET (1..k) |->
         IF x = {} THEN Begun(r)
         ELSE Budget!Admit(g[x \ {Budget!Max(x)}], waiters[Budget!Max(x)])]

LEMMA EndedFold ==
  ASSUME NEW r, NEW n \in Nat, DOMAIN waiters = 1..n
  PROVE  Ended(r) = (CHOOSE g : Unrolls(g, n, r))[1..n]
<1>1. Ended(r) =
        (CHOOSE g : g = [x \in SUBSET (DOMAIN waiters) |->
           IF x = {} THEN Begun(r)
           ELSE Budget!Admit(g[x \ {Budget!Max(x)}], waiters[Budget!Max(x)])])[DOMAIN waiters]
  BY DEF Ended, Budget!FoldLeft, Budget!MapThenFoldSet
<1> QED BY <1>1 DEF Unrolls

LEMMA MaxLast ==
  ASSUME NEW k \in Nat, NEW x \in SUBSET (1..k), k \in x
  PROVE  Budget!Max(x) = k
<1>1. \A y \in x : k >= y
  OBVIOUS
<1>2. \A m \in x : (\A y \in x : m >= y) => m = k
  OBVIOUS
<1> QED BY <1>1, <1>2 DEF Budget!Max

LEMMA UnrollsOne ==
  ASSUME NEW r, NEW k \in Nat, NEW g, Unrolls(g, k, r)
  PROVE  \E h : Unrolls(h, k + 1, r)
<1> DEFINE last(x) == Budget!Max(x)
           h == [x \in SUBSET (1..(k + 1)) |->
                   IF k + 1 \in x THEN Budget!Admit(g[x \ {k + 1}], waiters[k + 1]) ELSE g[x]]
           e(x) == IF x = {} THEN Begun(r) ELSE Budget!Admit(h[x \ {last(x)}], waiters[last(x)])
<1>1. ASSUME NEW x \in SUBSET (1..(k + 1)) PROVE h[x] = e(x)
  <2>1. CASE k + 1 \in x
    <3>1. last(x) = k + 1
      BY <2>1, MaxLast
    <3>2. x \ {k + 1} \in SUBSET (1..k)
      <4>1. \A i \in 1..(k + 1) : i # k + 1 => i \in 1..k
        OBVIOUS
      <4> QED BY <4>1
    <3>3. h[x \ {k + 1}] = g[x \ {k + 1}]
      BY <3>2
    <3>4. h[x] = Budget!Admit(g[x \ {k + 1}], waiters[k + 1])
      BY <2>1
    <3> HIDE DEF h, last
    <3> QED BY <2>1, <3>1, <3>3, <3>4
  <2>2. CASE k + 1 \notin x
    <3>1. x \in SUBSET (1..k) /\ x \ {last(x)} \in SUBSET (1..k)
      <4>1. \A i \in x : i \in 1..k
        BY <2>2
      <4> QED BY <4>1
    <3>2. h[x] = g[x]
      BY <2>2
    <3>3. h[x \ {last(x)}] = g[x \ {last(x)}]
      BY <3>1
    <3>4. g[x] = IF x = {} THEN Begun(r) ELSE Budget!Admit(g[x \ {last(x)}], waiters[last(x)])
      BY <3>1 DEF Unrolls
    <3> HIDE DEF h, last
    <3> QED BY <3>1, <3>2, <3>3, <3>4
  <2> QED BY <2>1, <2>2
<1>2. h = [x \in SUBSET (1..(k + 1)) |-> h[x]]
  OBVIOUS
<1>3. Unrolls(h, k + 1, r)
  <2> HIDE DEF h
  <2> QED BY <1>1, <1>2 DEF Unrolls
<1> QED BY <1>3

\* release goes over the waiters in their order.
LEMMA EndedChain ==
  ASSUME NEW r, NEW n \in Nat, DOMAIN waiters = 1..n
  PROVE  \E h : /\ h[0] = Begun(r)
                /\ \A k \in 0..(n - 1) : h[k + 1] = Budget!Admit(h[k], waiters[k + 1])
                /\ h[n] = Ended(r)
<1> DEFINE Folded == {k \in Nat : \E g : Unrolls(g, k, r)}
<1>1. 0 \in Folded
  <2> DEFINE g == [x \in SUBSET (1..0) |-> Begun(r)]
  <2>1. Unrolls(g, 0, r)
    <3>1. \A x \in SUBSET (1..0) : x = {}
      OBVIOUS
    <3> QED BY <3>1 DEF Unrolls
  <2> QED BY <2>1
<1>2. \A k \in 0..(n - 1) : k \in Folded => k + 1 \in Folded
  BY UnrollsOne
<1>3. n \in Folded
  <2>1. n \in 0..n
    OBVIOUS
  <2> HIDE DEF Folded
  <2> QED BY <1>1, <1>2, <2>1, Upward
<1> DEFINE g == CHOOSE g : Unrolls(g, n, r)
<1>4. Unrolls(g, n, r)
  BY <1>3
<1>5. g[1..n] = Ended(r)
  BY EndedFold
<1> HIDE DEF g
<1> DEFINE h == [k \in 0..n |-> g[1..k]]
<1>6. h[0] = Begun(r)
  <2>1. 1..0 = {} /\ {} \in SUBSET (1..n)
    OBVIOUS
  <2>2. g[{}] = Begun(r)
    BY <1>4, <2>1 DEF Unrolls
  <2> QED BY <2>1, <2>2
<1>7. ASSUME NEW k \in 0..(n - 1) PROVE h[k + 1] = Budget!Admit(h[k], waiters[k + 1])
  <2>1. 1..(k + 1) \in SUBSET (1..n) /\ 1..(k + 1) # {} /\ k + 1 \in 1..(k + 1) /\ k + 1 \in Nat
    <3>1. \A i \in 1..(k + 1) : i \in 1..n
      OBVIOUS
    <3>2. k + 1 \in 1..(k + 1) /\ k + 1 \in Nat
      OBVIOUS
    <3> QED BY <3>1, <3>2
  <2>2. Budget!Max(1..(k + 1)) = k + 1
    BY <2>1, MaxLast
  <2>3. (1..(k + 1)) \ {k + 1} = 1..k
    OBVIOUS
  <2>4. g[1..(k + 1)] = Budget!Admit(g[1..k], waiters[k + 1])
    BY <1>4, <2>1, <2>2, <2>3 DEF Unrolls
  <2> QED BY <2>4
<1>8. h[n] = Ended(r)
  BY <1>5
<1> QED BY <1>6, <1>7, <1>8

----------------------------------------------------------------------------
(* The budget: its invariant *)

\* The reads that hold bytes.
Holders == {r \in MediaReads : read[r].stage \in {"granted", "reading"}}

(* The counter is what the holders hold; a read waits once, asks for more than
   is left, and holds nothing. *)
BudgetSound ==
  /\ Budget!TypeOK
  /\ IsFiniteSet(Holders)
  /\ bytesInFlight = Held(read, Holders)
  /\ \A i \in DOMAIN waiters :
       /\ read[waiters[i]].stage = "queued"
       /\ bytesInFlight + read[waiters[i]].bytes > MaxBytes
  /\ \A i, j \in DOMAIN waiters : waiters[i] = waiters[j] => i = j

Calls == [stage: {"new", "queued", "granted", "reading", "over"}, bytes: 0..MaxBytes, aborted: BOOLEAN]

LEMMA CallsTyped ==
  ASSUME read \in [MediaReads -> Calls]
  PROVE  \A S \in SUBSET MediaReads : Counted(read, S)
<1>1. \A r \in MediaReads : read[r].bytes \in Nat
  BY MaxBytesAssumption DEF Calls
<1> QED BY <1>1 DEF Counted

(* The queue after some of the waiters were seen: it has admitted some of them,
   on top of the reads in base, and the others it passed do not fit. *)
Served(q, base, seen) ==
  /\ q \in [used: 0..MaxBytes, granted: SUBSET MediaReads, left: Seq(MediaReads)]
  /\ IsFiniteSet(q.granted) /\ q.granted \subseteq seen
  /\ q.used = Held(read, base \cup q.granted)
  /\ \A i \in 1..Len(q.left) :
       /\ q.left[i] \in seen /\ q.left[i] \notin q.granted
       /\ q.used + read[q.left[i]].bytes > MaxBytes
  /\ \A i, j \in 1..Len(q.left) : q.left[i] = q.left[j] => i = j

LEMMA Appended ==
  ASSUME NEW S, NEW s \in Seq(S), NEW e \in S
  PROVE  /\ Append(s, e) \in Seq(S)
         /\ Len(Append(s, e)) = Len(s) + 1 /\ Len(s) \in Nat
         /\ \A i \in 1..Len(s) : Append(s, e)[i] = s[i]
         /\ Append(s, e)[Len(s) + 1] = e
OBVIOUS

LEMMA AdmitServes ==
  ASSUME read \in [MediaReads -> Calls],
         NEW base \in SUBSET MediaReads, IsFiniteSet(base),
         NEW seen \in SUBSET MediaReads, NEW w \in MediaReads, w \notin seen, w \notin base,
         NEW q, Served(q, base, seen)
  PROVE  Served(Budget!Admit(q, w), base, seen \cup {w})
<1> DEFINE Queues == [used: 0..MaxBytes, granted: SUBSET MediaReads, left: Seq(MediaReads)]
           used == q.used
           left == q.left
           ask == read[w].bytes
           more == [q EXCEPT !.used = @ + read[w].bytes, !.granted = @ \cup {w}]
           passed == [q EXCEPT !.left = Append(@, w)]
<1>1. /\ used \in 0..MaxBytes /\ q.granted \in SUBSET MediaReads /\ left \in Seq(MediaReads)
      /\ ask \in Nat /\ MaxBytes \in Nat
  <2>1. used \in 0..MaxBytes /\ q.granted \in SUBSET MediaReads /\ left \in Seq(MediaReads)
    BY DEF Served
  <2>2. ask \in Nat
    <3>1. Counted(read, {w})
      BY CallsTyped
    <3> QED BY <3>1 DEF Counted
  <2> QED BY <2>1, <2>2, MaxBytesAssumption
<1>2. CASE used + ask <= MaxBytes
  <2>1. Budget!Admit(q, w) = more
    BY <1>2 DEF Budget!Admit, Budget!Fits
  <2>2. /\ more.used = used + ask /\ more.granted = q.granted \cup {w} /\ more.left = left
        /\ more \in Queues
    <3>1. used + ask \in 0..MaxBytes /\ q.granted \cup {w} \in SUBSET MediaReads
      <4> HIDE DEF used, ask
      <4> QED BY <1>1, <1>2
    <3>2. q \in Queues
      BY DEF Served
    <3> QED BY <3>1, <3>2
  <2> DEFINE S == base \cup q.granted
  <2>3. w \notin S /\ IsFiniteSet(S) /\ S \cup {w} \in SUBSET MediaReads /\ used = Held(read, S)
    BY FS_Union DEF Served
  <2>4. Held(read, S \cup {w}) = used + ask
    <3>1. Counted(read, S \cup {w})
      BY <2>3, CallsTyped
    <3>2. Held(read, S \cup {w}) = Held(read, S) + read[w].bytes
      <4> HIDE DEF S
      <4> QED BY <2>3, <3>1, HeldOneMore
    <3> QED BY <2>3, <3>2
  <2>5. S \cup {w} = base \cup more.granted
    BY <2>2
  <2>6. more.used = Held(read, base \cup more.granted)
    BY <2>2, <2>4, <2>5
  <2>7. IsFiniteSet(more.granted) /\ more.granted \subseteq seen \cup {w}
    <3>1. IsFiniteSet(q.granted \cup {w})
      BY FS_AddElement DEF Served
    <3> QED BY <2>2, <3>1 DEF Served
  <2>8. ASSUME NEW i \in 1..Len(left)
        PROVE  /\ left[i] \in seen \cup {w} /\ left[i] \notin q.granted \cup {w}
               /\ used + ask + read[left[i]].bytes > MaxBytes
    <3>1. left[i] \in seen /\ left[i] \notin q.granted /\ used + read[left[i]].bytes > MaxBytes
      BY DEF Served
    <3>2. read[left[i]].bytes \in Nat
      BY <3>1, CallsTyped DEF Counted
    <3> HIDE DEF used, ask, left
    <3> QED BY <1>1, <3>1, <3>2
  <2>9. \A i, j \in 1..Len(left) : left[i] = left[j] => i = j
    BY DEF Served
  <2> HIDE DEF more, left, used, ask, S
  <2> QED BY <2>1, <2>2, <2>6, <2>7, <2>8, <2>9 DEF Served
<1>3. CASE ~(used + ask <= MaxBytes)
  <2>1. Budget!Admit(q, w) = passed
    BY <1>3 DEF Budget!Admit, Budget!Fits
  <2>2. /\ passed.used = used /\ passed.granted = q.granted /\ passed.left = Append(left, w)
        /\ passed \in Queues
    BY <1>1, Appended DEF Served
  <2>3. /\ Len(Append(left, w)) = Len(left) + 1 /\ Len(left) \in Nat
        /\ \A i \in 1..Len(left) : Append(left, w)[i] = left[i]
        /\ Append(left, w)[Len(left) + 1] = w
    BY <1>1, Appended
  <2>4. w \notin q.granted /\ used + ask > MaxBytes
    <3>1. used + ask > MaxBytes
      <4> HIDE DEF used, ask
      <4> QED BY <1>1, <1>3
    <3> QED BY <3>1 DEF Served
  <2>5. /\ IsFiniteSet(q.granted) /\ q.granted \subseteq seen
        /\ used = Held(read, base \cup q.granted)
        /\ \A i \in 1..Len(left) :
             left[i] \in seen /\ left[i] \notin q.granted /\ used + read[left[i]].bytes > MaxBytes
        /\ \A i, j \in 1..Len(left) : left[i] = left[j] => i = j
    BY DEF Served
  <2> DEFINE longer == Append(left, w)
  <2>6. ASSUME NEW i \in 1..Len(longer)
        PROVE  /\ longer[i] \in seen \cup {w} /\ longer[i] \notin q.granted
               /\ used + read[longer[i]].bytes > MaxBytes
    <3>1. CASE i \in 1..Len(left)
      BY <2>3, <2>5, <3>1
    <3>2. CASE i = Len(left) + 1
      BY <2>3, <2>4, <3>2
    <3> QED BY <2>3, <3>1, <3>2
  <2>7. \A i, j \in 1..Len(longer) : longer[i] = longer[j] => i = j
    <3> HIDE DEF left, longer
    <3> TAKE i, j \in 1..Len(longer)
    <3>1. (i \in 1..Len(left) \/ i = Len(left) + 1) /\ (j \in 1..Len(left) \/ j = Len(left) + 1)
      BY <2>3 DEF longer
    <3>2. \A k \in 1..Len(left) : longer[k] # w
      BY <2>3, <2>5 DEF longer
    <3> QED BY <2>3, <2>5, <3>1, <3>2 DEF longer
  <2> HIDE DEF passed, left, used, longer
  <2> QED BY <2>1, <2>2, <2>5, <2>6, <2>7 DEF Served, longer
<1> QED BY <1>2, <1>3

LEMMA BudgetTyped ==
  ASSUME BudgetSound
  PROVE  /\ read \in [MediaReads -> Calls] /\ waiters \in Seq(MediaReads) /\ bytesInFlight \in 0..MaxBytes
         /\ Holders \in SUBSET MediaReads /\ IsFiniteSet(Holders) /\ bytesInFlight = Held(read, Holders)
         /\ DOMAIN waiters = 1..Len(waiters) /\ Len(waiters) \in Nat
         /\ \A i \in 1..Len(waiters) :
              /\ waiters[i] \in MediaReads /\ read[waiters[i]].stage = "queued"
              /\ bytesInFlight + read[waiters[i]].bytes > MaxBytes
         /\ \A i, j \in 1..Len(waiters) : waiters[i] = waiters[j] => i = j
<1>1. read \in [MediaReads -> Calls] /\ waiters \in Seq(MediaReads) /\ bytesInFlight \in 0..MaxBytes
  BY DEF BudgetSound, Budget!TypeOK, Calls
<1>2. DOMAIN waiters = 1..Len(waiters) /\ Len(waiters) \in Nat /\ \A i \in 1..Len(waiters) : waiters[i] \in MediaReads
  BY <1>1
<1> QED BY <1>1, <1>2 DEF BudgetSound, Holders

\* A read and the bytes it holds are taken from what is held.
LEMMA Without ==
  ASSUME BudgetSound, NEW r \in Holders
  PROVE  /\ IsFiniteSet(Holders \ {r}) /\ Holders \ {r} \in SUBSET MediaReads
         /\ bytesInFlight - read[r].bytes = Held(read, Holders \ {r})
         /\ bytesInFlight - read[r].bytes \in 0..MaxBytes
<1> DEFINE S == Holders \ {r}
           ask == read[r].bytes
<1>1. IsFiniteSet(S) /\ S \in SUBSET MediaReads /\ r \notin S /\ S \cup {r} = Holders
  BY BudgetTyped, FS_RemoveElement
<1>2. Counted(read, S \cup {r})
  BY <1>1, BudgetTyped, CallsTyped
<1>3. Held(read, S) \in Nat /\ Held(read, S \cup {r}) = Held(read, S) + read[r].bytes
  <2> HIDE DEF S
  <2> QED BY <1>1, <1>2, HeldOneMore
<1>4. bytesInFlight = Held(read, S) + ask /\ bytesInFlight \in 0..MaxBytes
  BY <1>1, <1>3, BudgetTyped
<1>5. ask \in Nat /\ MaxBytes \in Nat
  BY <1>2, MaxBytesAssumption DEF Counted
<1> DEFINE rest == Held(read, S)
<1>6. bytesInFlight - ask = rest /\ rest \in 0..MaxBytes
  <2>1. rest \in Nat /\ bytesInFlight = rest + ask
    BY <1>3, <1>4
  <2> HIDE DEF rest, ask
  <2> QED BY <1>4, <1>5, <2>1
<1> QED BY <1>1, <1>6

\* release serves the whole queue, from what is left without r.
LEMMA ReleaseServes ==
  ASSUME BudgetSound, NEW r \in Holders
  PROVE  Served(Ended(r), Holders \ {r}, {waiters[i] : i \in 1..Len(waiters)})
<1> DEFINE n == Len(waiters)
           base == Holders \ {r}
           seen(k) == {waiters[i] : i \in 1..k}
<1>1. n \in Nat /\ DOMAIN waiters = 1..n
  BY BudgetTyped
<1>2. PICK h : /\ h[0] = Begun(r)
               /\ \A k \in 0..(n - 1) : h[k + 1] = Budget!Admit(h[k], waiters[k + 1])
               /\ h[n] = Ended(r)
  <2> HIDE DEF n
  <2> QED BY <1>1, EndedChain
<1> DEFINE Passed == {k \in 0..n : Served(h[k], base, seen(k))}
<1>3. 0 \in Passed
  <2> DEFINE b == Begun(r)
             left == b.left
  <2>1. b.used = Held(read, base) /\ b.used \in 0..MaxBytes /\ b.granted = {} /\ b.left = <<>>
        /\ b \in [used: 0..MaxBytes, granted: SUBSET MediaReads, left: Seq(MediaReads)]
    BY Without DEF Begun
  <2>2. Len(left) = 0 /\ 1..Len(left) = {}
    BY <2>1
  <2>3. base \cup b.granted = base /\ IsFiniteSet(b.granted)
    BY <2>1, FS_EmptySet
  <2>4. Served(b, base, seen(0))
    <3> HIDE DEF b, base
    <3> QED BY <2>1, <2>2, <2>3 DEF Served
  <2> QED BY <1>1, <1>2, <2>4
<1>4. ASSUME NEW k \in 0..(n - 1), k \in Passed PROVE k + 1 \in Passed
  <2> DEFINE w == waiters[k + 1]
  <2>1. k + 1 \in 1..n /\ k \in Nat /\ \A i \in 1..k : i \in 1..n /\ i # k + 1
    BY <1>1
  <2>2. w \in MediaReads /\ w \notin seen(k) /\ w \notin base /\ seen(k) \in SUBSET MediaReads
    <3>1. w \in MediaReads /\ read[w].stage = "queued"
      BY <2>1, BudgetTyped
    <3>2. \A i \in 1..k : waiters[i] # w /\ waiters[i] \in MediaReads
      BY <2>1, BudgetTyped
    <3> QED BY <3>1, <3>2 DEF Holders
  <2>3. seen(k + 1) = seen(k) \cup {w}
    <3>1. \A i \in 1..(k + 1) : i \in 1..k \/ i = k + 1
      BY <2>1
    <3>2. \A i \in 1..k : i \in 1..(k + 1)
      BY <2>1
    <3>3. k + 1 \in 1..(k + 1)
      BY <2>1
    <3> QED BY <3>1, <3>2, <3>3
  <2>4. Served(h[k], base, seen(k)) /\ h[k + 1] = Budget!Admit(h[k], w)
    BY <1>2, <1>4
  <2>5. Served(Budget!Admit(h[k], w), base, seen(k) \cup {w})
    <3>1. read \in [MediaReads -> Calls] /\ IsFiniteSet(base) /\ base \in SUBSET MediaReads
      BY BudgetTyped, Without
    <3> HIDE DEF base, seen, w
    <3> QED BY <2>2, <2>4, <3>1, AdmitServes
  <2>6. k + 1 \in 0..n
    BY <2>1
  <2>7. Served(h[k + 1], base, seen(k + 1))
    BY <2>3, <2>4, <2>5
  <2> QED BY <2>6, <2>7
<1>5. n \in Passed
  <2>1. n \in 0..n
    BY <1>1
  <2> HIDE DEF Passed, n
  <2> QED BY <1>1, <1>3, <1>4, <2>1, Upward
<1> QED BY <1>2, <1>5

LEMMA SoundAgain ==
  ASSUME /\ read' \in [MediaReads -> Calls] /\ waiters' \in Seq(MediaReads) /\ bytesInFlight' \in 0..MaxBytes
         /\ IsFiniteSet(Holders') /\ bytesInFlight' = Held(read', Holders')
         /\ \A i \in 1..Len(waiters') :
              /\ read'[waiters'[i]].stage = "queued"
              /\ bytesInFlight' + read'[waiters'[i]].bytes > MaxBytes
         /\ \A i, j \in 1..Len(waiters') : waiters'[i] = waiters'[j] => i = j
  PROVE  BudgetSound'
<1>1. Budget!TypeOK'
  BY DEF Budget!TypeOK, Calls
<1>2. DOMAIN waiters' = 1..Len(waiters')
  OBVIOUS
<1> QED BY <1>1, <1>2 DEF BudgetSound

LEMMA SoundFirst == ASSUME Budget!Init PROVE BudgetSound
<1>1. read \in [MediaReads -> Calls] /\ bytesInFlight \in 0..MaxBytes
  BY MaxBytesAssumption DEF Budget!Init, Calls
<1>2. Holders = {} /\ waiters = <<>> /\ bytesInFlight = 0
  BY DEF Budget!Init, Holders
<1>3. Held(read, {}) = 0 /\ IsFiniteSet({})
  BY HeldNothing, FS_EmptySet
<1>4. Budget!TypeOK
  BY <1>1, <1>2 DEF Budget!TypeOK, Calls
<1>5. DOMAIN waiters = {}
  BY <1>2
<1> QED BY <1>2, <1>3, <1>4, <1>5 DEF BudgetSound

\* Whatever ends a read that held bytes, the queue is served.
LEMMA ReleaseSound ==
  ASSUME BudgetSound, NEW r \in Holders, Budget!Release(r)
  PROVE  BudgetSound'
<1> DEFINE queue == Ended(r)
           base == Holders \ {r}
           seen == {waiters[i] : i \in 1..Len(waiters)}
           left == queue.left
           used == queue.used
           granted == queue.granted
<1>1. /\ bytesInFlight' = used /\ waiters' = left
      /\ read' = [q \in MediaReads |-> IF q = r THEN [read[q] EXCEPT !.stage = "over"]
                                       ELSE IF q \in granted THEN [read[q] EXCEPT !.stage = "granted"]
                                       ELSE read[q]]
  BY DEF Budget!Release, Ended, Begun
<1>2. Served(queue, base, seen)
  BY ReleaseServes
<1>3. /\ left \in Seq(MediaReads) /\ used \in 0..MaxBytes /\ granted \in SUBSET MediaReads
      /\ IsFiniteSet(granted) /\ granted \subseteq seen
      /\ used = Held(read, base \cup granted)
      /\ \A i \in 1..Len(left) :
           left[i] \in seen /\ left[i] \notin granted /\ used + read[left[i]].bytes > MaxBytes
      /\ \A i, j \in 1..Len(left) : left[i] = left[j] => i = j
  BY <1>2 DEF Served
<1>4. /\ read \in [MediaReads -> Calls] /\ r \in MediaReads
      /\ read[r].stage \in {"granted", "reading"}
      /\ \A q \in seen : q \in MediaReads /\ read[q].stage = "queued"
  BY BudgetTyped DEF Holders
<1> HIDE DEF queue, left, used, granted, seen
<1>5. ASSUME NEW q \in MediaReads
      PROVE  /\ read'[q] \in Calls /\ read'[q].bytes = read[q].bytes
             /\ read'[q].stage = IF q = r THEN "over" ELSE IF q \in granted THEN "granted" ELSE read[q].stage
  <2>1. read[q] \in Calls
    BY <1>4
  <2>2. CASE q = r
    <3>1. read'[q] = [read[q] EXCEPT !.stage = "over"]
      BY <1>1, <2>2
    <3> QED BY <2>1, <2>2, <3>1 DEF Calls
  <2>3. CASE q # r /\ q \in granted
    <3>1. read'[q] = [read[q] EXCEPT !.stage = "granted"]
      BY <1>1, <2>3
    <3> QED BY <2>1, <2>3, <3>1 DEF Calls
  <2>4. CASE q # r /\ q \notin granted
    <3>1. read'[q] = read[q]
      BY <1>1, <2>4
    <3> QED BY <2>1, <2>4, <3>1
  <2> QED BY <2>2, <2>3, <2>4
<1>6. read' \in [MediaReads -> Calls]
  <2>1. read' = [q \in MediaReads |-> read'[q]]
    BY <1>1
  <2> QED BY <1>5, <2>1
<1>7. Holders' = base \cup granted
  <2>1. Holders' = {q \in MediaReads : read'[q].stage \in {"granted", "reading"}}
    BY DEF Holders
  <2>2. \A q \in granted : q \in MediaReads /\ q # r
    BY <1>3, <1>4
  <2> QED BY <1>5, <2>1, <2>2 DEF Holders
<1>8. IsFiniteSet(Holders') /\ Holders' \in SUBSET MediaReads
  <2>1. IsFiniteSet(base) /\ base \in SUBSET MediaReads
    BY Without
  <2> HIDE DEF base
  <2> QED BY <1>3, <1>7, <2>1, FS_Union
<1>9. Held(read', Holders') = used
  <2>1. Counted(read, Holders')
    BY <1>4, <1>8, CallsTyped
  <2>2. \A q \in Holders' : read'[q].bytes = read[q].bytes
    BY <1>5, <1>8
  <2>3. Held(read', Holders') = Held(read, Holders')
    BY <1>8, <2>1, <2>2, HeldSame
  <2> QED BY <1>3, <1>7, <2>3
<1>10. ASSUME NEW i \in 1..Len(left)
       PROVE  /\ read'[left[i]].stage = "queued"
              /\ used + read'[left[i]].bytes > MaxBytes
  <2>1. /\ left[i] \in MediaReads /\ read[left[i]].stage = "queued"
        /\ left[i] \notin granted /\ used + read[left[i]].bytes > MaxBytes
    BY <1>3, <1>4
  <2>2. left[i] # r
    BY <1>4, <2>1
  <2> QED BY <1>5, <2>1, <2>2
<1> QED BY <1>1, <1>3, <1>6, <1>8, <1>9, <1>10, SoundAgain

\* A step that leaves the holders and the bytes of the calls as they are.
LEMMA HoldersAsWere ==
  ASSUME BudgetSound, read' \in [MediaReads -> Calls],
         \A q \in MediaReads : (q \in Holders => read'[q].bytes = read[q].bytes) /\ (q \in Holders' <=> q \in Holders)
  PROVE  IsFiniteSet(Holders') /\ Held(read', Holders') = bytesInFlight
<1>1. Holders' = Holders
  BY DEF Holders
<1>2. IsFiniteSet(Holders) /\ Holders \in SUBSET MediaReads /\ bytesInFlight = Held(read, Holders)
  BY BudgetTyped
<1>3. Counted(read, Holders)
  BY <1>2, BudgetTyped, CallsTyped
<1>4. Held(read', Holders) = Held(read, Holders)
  BY <1>2, <1>3, HeldSame
<1> QED BY <1>1, <1>2, <1>4

LEMMA RunSound ==
  ASSUME BudgetSound, NEW r \in MediaReads, NEW bytes \in 1..MaxBytes, Budget!Run(r, bytes)
  PROVE  BudgetSound'
<1>1. /\ read \in [MediaReads -> Calls] /\ waiters \in Seq(MediaReads) /\ bytesInFlight \in 0..MaxBytes
      /\ Len(waiters) \in Nat /\ read[r].stage = "new"
      /\ \A i \in 1..Len(waiters) :
           /\ waiters[i] \in MediaReads /\ waiters[i] # r /\ read[waiters[i]].stage = "queued"
           /\ bytesInFlight + read[waiters[i]].bytes > MaxBytes
      /\ \A i, j \in 1..Len(waiters) : waiters[i] = waiters[j] => i = j
  BY BudgetTyped DEF Budget!Run
<1>2. bytes \in Nat /\ bytes \in 0..MaxBytes /\ MaxBytes \in Nat
  BY MaxBytesAssumption
<1>3. ASSUME NEW s \in {"granted", "queued"}, read' = [read EXCEPT ![r].bytes = bytes, ![r].stage = s]
      PROVE  /\ read' \in [MediaReads -> Calls]
             /\ read'[r].bytes = bytes /\ read'[r].stage = s
             /\ \A q \in MediaReads : q # r => read'[q] = read[q]
  <2>1. read[r] \in Calls
    BY <1>1
  <2>2. read' = [read EXCEPT ![r] = [read[r] EXCEPT !.bytes = bytes, !.stage = s]]
    BY <1>1, <1>3
  <2>3. [read[r] EXCEPT !.bytes = bytes, !.stage = s] \in Calls
    BY <1>2, <2>1 DEF Calls
  <2>4. [read[r] EXCEPT !.bytes = bytes, !.stage = s].bytes = bytes
        /\ [read[r] EXCEPT !.bytes = bytes, !.stage = s].stage = s
    BY <2>1 DEF Calls
  <2> DEFINE call == [read[r] EXCEPT !.bytes = bytes, !.stage = s]
  <2> HIDE DEF call
  <2>5. read' = [read EXCEPT ![r] = call] /\ call \in Calls /\ call.bytes = bytes /\ call.stage = s
    BY <2>2, <2>3, <2>4 DEF call
  <2> QED BY <1>1, <2>5
<1>4. CASE bytesInFlight + bytes <= MaxBytes
  <2>1. /\ read' = [read EXCEPT ![r].bytes = bytes, ![r].stage = "granted"]
        /\ bytesInFlight' = bytesInFlight + bytes /\ waiters' = waiters
    BY <1>4 DEF Budget!Run
  <2>2. /\ read' \in [MediaReads -> Calls]
        /\ read'[r].bytes = bytes /\ read'[r].stage = "granted"
        /\ \A q \in MediaReads : q # r => read'[q] = read[q]
    BY <1>3, <2>1
  <2>3. Holders' = Holders \cup {r} /\ r \notin Holders
    <3>1. Holders' = {q \in MediaReads : read'[q].stage \in {"granted", "reading"}}
      BY DEF Holders
    <3> QED BY <1>1, <2>2, <3>1 DEF Holders
  <2>4. IsFiniteSet(Holders) /\ Holders \cup {r} \in SUBSET MediaReads /\ bytesInFlight = Held(read, Holders)
    BY BudgetTyped
  <2>5. Held(read', Holders) = Held(read, Holders)
    <3>1. Counted(read, Holders)
      BY <1>1, <2>4, CallsTyped
    <3>2. \A q \in Holders : read'[q].bytes = read[q].bytes
      BY <2>2, <2>3, <2>4
    <3> QED BY <2>4, <3>1, <3>2, HeldSame
  <2>6. Counted(read', Holders \cup {r})
    <3>1. \A q \in MediaReads : read'[q].bytes \in Nat
      BY <1>2, <2>2 DEF Calls
    <3> QED BY <2>4, <3>1 DEF Counted
  <2>7. IsFiniteSet(Holders \cup {r}) /\ Held(read', Holders \cup {r}) = Held(read', Holders) + read'[r].bytes
    BY <2>3, <2>4, <2>6, HeldOneMore
  <2>8. IsFiniteSet(Holders') /\ Held(read', Holders') = bytesInFlight'
    BY <2>1, <2>2, <2>3, <2>4, <2>5, <2>7
  <2>9. bytesInFlight' \in 0..MaxBytes
    BY <1>1, <1>2, <1>4, <2>1
  <2>10. ASSUME NEW i \in 1..Len(waiters)
         PROVE  /\ read'[waiters[i]].stage = "queued"
                /\ bytesInFlight' + read'[waiters[i]].bytes > MaxBytes
    <3> DEFINE ask == read[waiters[i]].bytes
    <3>1. read'[waiters[i]] = read[waiters[i]] /\ read[waiters[i]].stage = "queued"
          /\ bytesInFlight + ask > MaxBytes
      BY <1>1, <2>2
    <3>2. ask \in Nat
      <4>1. read[waiters[i]] \in Calls
        BY <1>1
      <4> QED BY <1>2, <4>1 DEF Calls
    <3>3. bytesInFlight' + ask > MaxBytes
      <4> HIDE DEF ask
      <4> QED BY <1>1, <1>2, <2>1, <3>1, <3>2
    <3> QED BY <3>1, <3>3
  <2> QED BY <1>1, <2>1, <2>2, <2>8, <2>9, <2>10, SoundAgain
<1>5. CASE ~(bytesInFlight + bytes <= MaxBytes)
  <2>1. /\ read' = [read EXCEPT ![r].bytes = bytes, ![r].stage = "queued"]
        /\ bytesInFlight' = bytesInFlight /\ waiters' = Append(waiters, r)
    BY <1>5 DEF Budget!Run
  <2>2. /\ read' \in [MediaReads -> Calls]
        /\ read'[r].bytes = bytes /\ read'[r].stage = "queued"
        /\ \A q \in MediaReads : q # r => read'[q] = read[q]
    BY <1>3, <2>1
  <2>3. \A q \in MediaReads : (q \in Holders => read'[q].bytes = read[q].bytes) /\ (q \in Holders' <=> q \in Holders)
    <3>1. Holders' = {q \in MediaReads : read'[q].stage \in {"granted", "reading"}}
      BY DEF Holders
    <3> QED BY <1>1, <2>2, <3>1 DEF Holders
  <2>4. IsFiniteSet(Holders') /\ Held(read', Holders') = bytesInFlight
    BY <2>2, <2>3, HoldersAsWere
  <2> DEFINE longer == Append(waiters, r)
  <2>5. /\ longer \in Seq(MediaReads) /\ Len(longer) = Len(waiters) + 1
        /\ \A i \in 1..Len(waiters) : longer[i] = waiters[i]
        /\ longer[Len(waiters) + 1] = r
    BY <1>1, Appended
  <2> HIDE DEF longer
  <2>6. ASSUME NEW i \in 1..Len(longer)
        PROVE  /\ read'[longer[i]].stage = "queued"
               /\ bytesInFlight + read'[longer[i]].bytes > MaxBytes
    <3>1. CASE i \in 1..Len(waiters)
      BY <1>1, <2>2, <2>5, <3>1
    <3>2. CASE i = Len(waiters) + 1
      <4>1. longer[i] = r
        BY <2>5, <3>2
      <4> QED BY <1>1, <1>2, <1>5, <2>2, <4>1
    <3> QED BY <1>1, <2>5, <3>1, <3>2
  <2>7. \A i, j \in 1..Len(longer) : longer[i] = longer[j] => i = j
    <3> TAKE i, j \in 1..Len(longer)
    <3>1. (i \in 1..Len(waiters) \/ i = Len(waiters) + 1) /\ (j \in 1..Len(waiters) \/ j = Len(waiters) + 1)
      BY <1>1, <2>5
    <3> QED BY <1>1, <2>5, <3>1
  <2>8. waiters' = longer
    BY <2>1 DEF longer
  <2> QED BY <1>1, <2>1, <2>2, <2>4, <2>5, <2>6, <2>7, <2>8, SoundAgain
<1> QED BY <1>4, <1>5

LEMMA HolderOf ==
  ASSUME NEW r \in MediaReads, read[r].stage \in {"granted", "reading"}
  PROVE  r \in Holders
BY DEF Holders

\* What waits goes on waiting while only calls that do not wait change.
LEMMA WaitsOn ==
  ASSUME BudgetSound, bytesInFlight' = bytesInFlight, waiters' = waiters,
         read' \in [MediaReads -> Calls],
         \A q \in MediaReads :
           /\ q \in Holders => read'[q].bytes = read[q].bytes
           /\ q \in Holders' <=> q \in Holders
           /\ read[q].stage = "queued" => read'[q] = read[q]
  PROVE  BudgetSound'
<1>1. IsFiniteSet(Holders') /\ Held(read', Holders') = bytesInFlight
  BY HoldersAsWere
<1>2. \A i \in 1..Len(waiters) : read'[waiters[i]] = read[waiters[i]]
  BY BudgetTyped
<1> QED BY <1>1, <1>2, BudgetTyped, SoundAgain

LEMMA ResumeSound ==
  ASSUME BudgetSound, NEW r \in MediaReads, Budget!Resume(r)
  PROVE  BudgetSound'
<1>1. CASE Budget!Release(r)
  <2>1. r \in Holders
    BY HolderOf DEF Budget!Resume
  <2> QED BY <1>1, <2>1, ReleaseSound
<1>2. CASE /\ read[r].stage = "granted"
           /\ read' = [read EXCEPT ![r].stage = "reading"]
           /\ bytesInFlight' = bytesInFlight /\ waiters' = waiters
  <2>1. read \in [MediaReads -> Calls] /\ read[r] \in Calls
    BY BudgetTyped
  <2> DEFINE call == [read[r] EXCEPT !.stage = "reading"]
  <2>2. call \in Calls /\ call.stage = "reading" /\ call.bytes = read[r].bytes
    BY <2>1 DEF Calls
  <2>3. read' = [read EXCEPT ![r] = call]
    BY <1>2
  <2> HIDE DEF call
  <2>4. read' \in [MediaReads -> Calls] /\ read'[r] = call /\ \A q \in MediaReads : q # r => read'[q] = read[q]
    BY <2>1, <2>2, <2>3
  <2>5. \A q \in MediaReads :
           /\ q \in Holders => read'[q].bytes = read[q].bytes
           /\ q \in Holders' <=> q \in Holders
           /\ read[q].stage = "queued" => read'[q] = read[q]
    <3>1. Holders' = {q \in MediaReads : read'[q].stage \in {"granted", "reading"}}
      BY DEF Holders
    <3> QED BY <1>2, <2>2, <2>4, <3>1 DEF Holders
  <2> QED BY <1>2, <2>4, <2>5, WaitsOn
<1> QED BY <1>1, <1>2 DEF Budget!Resume

\* One element is taken out of a sequence.
LEMMA Spliced ==
  ASSUME NEW S, NEW s \in Seq(S), NEW k \in 1..Len(s)
  PROVE  /\ Budget!RemoveAt(s, k) \in Seq(S)
         /\ Len(Budget!RemoveAt(s, k)) = Len(s) - 1 /\ Len(s) \in Nat
         /\ \A i \in 1..(Len(s) - 1) : Budget!RemoveAt(s, k)[i] = IF i < k THEN s[i] ELSE s[i + 1]
<1> DEFINE a == SubSeq(s, 1, k - 1)
           b == SubSeq(s, k + 1, Len(s))
<1>1. Len(s) \in Nat /\ k \in Nat /\ \A i \in 1..Len(s) : s[i] \in S
  OBVIOUS
<1>2. /\ a \in Seq(S) /\ Len(a) = k - 1
      /\ \A i \in 1..(k - 1) : a[i] = s[i]
  <2>1. \A i \in 1..(k - 1) : s[i] \in S
    BY <1>1
  <2>2. 1 \in Int /\ k - 1 \in Int
    BY <1>1
  <2>3. /\ a \in Seq(S) /\ Len(a) = (IF 1 <= k - 1 THEN (k - 1) - 1 + 1 ELSE 0)
        /\ \A i \in 1..((k - 1) - 1 + 1) : a[i] = s[1 + i - 1]
    BY <2>1, <2>2, SubSeqProperties
  <2>4. (k - 1) - 1 + 1 = k - 1 /\ \A i \in 1..(k - 1) : 1 + i - 1 = i
    BY <1>1
  <2>5. Len(a) = k - 1
    <3> HIDE DEF a
    <3> QED BY <1>1, <2>3
  <2> HIDE DEF a
  <2> QED BY <2>3, <2>4, <2>5
<1>3. /\ b \in Seq(S) /\ Len(b) = Len(s) - k
      /\ \A i \in 1..(Len(s) - k) : b[i] = s[k + i]
  <2>1. \A i \in (k + 1)..Len(s) : s[i] \in S
    BY <1>1
  <2>2. k + 1 \in Int /\ Len(s) \in Int
    BY <1>1
  <2>3. /\ b \in Seq(S) /\ Len(b) = (IF k + 1 <= Len(s) THEN Len(s) - (k + 1) + 1 ELSE 0)
        /\ \A i \in 1..(Len(s) - (k + 1) + 1) : b[i] = s[(k + 1) + i - 1]
    BY <2>1, <2>2, SubSeqProperties
  <2>4. Len(s) - (k + 1) + 1 = Len(s) - k /\ \A i \in 1..(Len(s) - k) : (k + 1) + i - 1 = k + i
    BY <1>1
  <2>5. Len(b) = Len(s) - k
    <3> HIDE DEF b
    <3> QED BY <1>1, <2>3
  <2> HIDE DEF b
  <2> QED BY <2>3, <2>4, <2>5
<1>4. Budget!RemoveAt(s, k) = a \o b
  BY DEF Budget!RemoveAt
<1> HIDE DEF a, b
<1>5. /\ a \o b \in Seq(S) /\ Len(a \o b) = Len(a) + Len(b)
      /\ \A i \in 1..(Len(a) + Len(b)) : (a \o b)[i] = IF i <= Len(a) THEN a[i] ELSE b[i - Len(a)]
  BY <1>2, <1>3, ConcatProperties
<1>6. Len(a) + Len(b) = Len(s) - 1
  BY <1>1, <1>2, <1>3
<1>7. ASSUME NEW i \in 1..(Len(s) - 1)
      PROVE  (a \o b)[i] = IF i < k THEN s[i] ELSE s[i + 1]
  <2>1. i \in Nat /\ (i <= k - 1 <=> i < k) /\ (a \o b)[i] = IF i <= k - 1 THEN a[i] ELSE b[i - (k - 1)]
    BY <1>1, <1>2, <1>5, <1>6
  <2>2. CASE i < k
    <3>1. i \in 1..(k - 1)
      BY <1>1, <2>1, <2>2
    <3> QED BY <1>2, <2>1, <2>2, <3>1
  <2>3. CASE ~(i < k)
    <3>1. i - (k - 1) \in 1..(Len(s) - k) /\ k + (i - (k - 1)) = i + 1
      BY <1>1, <2>1, <2>3
    <3> QED BY <1>3, <2>1, <2>3, <3>1
  <2> QED BY <2>2, <2>3
<1> QED BY <1>1, <1>4, <1>5, <1>6, <1>7

LEMMA AbortSound ==
  ASSUME BudgetSound, NEW r \in MediaReads, Budget!Abort(r)
  PROVE  BudgetSound'
<1>1. CASE read[r].stage = "reading" /\ Budget!Release(r)
  BY <1>1, HolderOf, ReleaseSound
<1>2. CASE /\ read[r].stage = "granted"
           /\ read' = [read EXCEPT ![r].aborted = TRUE]
           /\ bytesInFlight' = bytesInFlight /\ waiters' = waiters
  <2>1. read \in [MediaReads -> Calls] /\ read[r] \in Calls
    BY BudgetTyped
  <2> DEFINE call == [read[r] EXCEPT !.aborted = TRUE]
  <2>2. call \in Calls /\ call.stage = read[r].stage /\ call.bytes = read[r].bytes
    BY <2>1 DEF Calls
  <2>3. read' = [read EXCEPT ![r] = call]
    BY <1>2
  <2> HIDE DEF call
  <2>4. read' \in [MediaReads -> Calls] /\ read'[r] = call /\ \A q \in MediaReads : q # r => read'[q] = read[q]
    BY <2>1, <2>2, <2>3
  <2>5. \A q \in MediaReads :
           /\ q \in Holders => read'[q].bytes = read[q].bytes
           /\ q \in Holders' <=> q \in Holders
           /\ read[q].stage = "queued" => read'[q] = read[q]
    <3>1. Holders' = {q \in MediaReads : read'[q].stage \in {"granted", "reading"}}
      BY DEF Holders
    <3> QED BY <1>2, <2>2, <2>4, <3>1 DEF Holders
  <2> QED BY <1>2, <2>4, <2>5, WaitsOn
<1>3. CASE /\ read[r].stage = "queued"
           /\ \E k \in DOMAIN waiters : waiters[k] = r /\ waiters' = Budget!RemoveAt(waiters, k)
           /\ read' = [read EXCEPT ![r].stage = "over"]
           /\ bytesInFlight' = bytesInFlight
  <2>1. /\ read \in [MediaReads -> Calls] /\ read[r] \in Calls /\ waiters \in Seq(MediaReads)
        /\ bytesInFlight \in 0..MaxBytes /\ DOMAIN waiters = 1..Len(waiters) /\ Len(waiters) \in Nat
        /\ \A i \in 1..Len(waiters) :
             /\ waiters[i] \in MediaReads /\ read[waiters[i]].stage = "queued"
             /\ bytesInFlight + read[waiters[i]].bytes > MaxBytes
        /\ \A i, j \in 1..Len(waiters) : waiters[i] = waiters[j] => i = j
    BY BudgetTyped
  <2>2. PICK k \in 1..Len(waiters) : waiters[k] = r /\ waiters' = Budget!RemoveAt(waiters, k)
    BY <1>3, <2>1
  <2> DEFINE call == [read[r] EXCEPT !.stage = "over"]
  <2>3. call \in Calls /\ call.stage = "over"
    BY <2>1 DEF Calls
  <2>4. read' = [read EXCEPT ![r] = call]
    BY <1>3
  <2> HIDE DEF call
  <2>5. read' \in [MediaReads -> Calls] /\ read'[r] = call /\ \A q \in MediaReads : q # r => read'[q] = read[q]
    BY <2>1, <2>3, <2>4
  <2>6. \A q \in MediaReads : (q \in Holders => read'[q].bytes = read[q].bytes) /\ (q \in Holders' <=> q \in Holders)
    <3>1. Holders' = {q \in MediaReads : read'[q].stage \in {"granted", "reading"}}
      BY DEF Holders
    <3> QED BY <1>3, <2>3, <2>5, <3>1 DEF Holders
  <2>7. IsFiniteSet(Holders') /\ Held(read', Holders') = bytesInFlight
    BY <2>5, <2>6, HoldersAsWere
  <2> DEFINE from(i) == IF i < k THEN i ELSE i + 1
             shorter == Budget!RemoveAt(waiters, k)
  <2>8. /\ shorter \in Seq(MediaReads) /\ Len(shorter) = Len(waiters) - 1
        /\ \A i \in 1..(Len(waiters) - 1) : shorter[i] = IF i < k THEN waiters[i] ELSE waiters[i + 1]
    BY <2>1, Spliced
  <2> HIDE DEF shorter
  <2>9. \A i \in 1..Len(shorter) :
          from(i) \in 1..Len(waiters) /\ from(i) # k /\ shorter[i] = waiters[from(i)]
    BY <2>1, <2>8
  <2>10. \A i, j \in 1..Len(shorter) : from(i) = from(j) => i = j
    BY <2>1, <2>8
  <2> HIDE DEF from
  <2>11. ASSUME NEW i \in 1..Len(shorter)
         PROVE  /\ read'[shorter[i]].stage = "queued"
                /\ bytesInFlight + read'[shorter[i]].bytes > MaxBytes
    <3>1. shorter[i] = waiters[from(i)] /\ from(i) \in 1..Len(waiters) /\ shorter[i] # r
      BY <2>1, <2>2, <2>9
    <3>2. read'[shorter[i]] = read[shorter[i]]
      BY <2>1, <2>5, <3>1
    <3> QED BY <2>1, <3>1, <3>2
  <2>12. \A i, j \in 1..Len(shorter) : shorter[i] = shorter[j] => i = j
    BY <2>1, <2>9, <2>10
  <2>13. waiters' = shorter
    BY <2>2 DEF shorter
  <2> QED BY <1>3, <2>1, <2>5, <2>7, <2>8, <2>11, <2>12, <2>13, SoundAgain
<1> QED BY <1>1, <1>2, <1>3 DEF Budget!Abort

LEMMA BudgetStays == Budget!Spec => []BudgetSound
<1>1. Budget!Init => BudgetSound
  BY SoundFirst
<1>2. BudgetSound /\ [Budget!Next]_(Budget!vars) => BudgetSound'
  <2> SUFFICES ASSUME BudgetSound, [Budget!Next]_(Budget!vars) PROVE BudgetSound'
    OBVIOUS
  <2>1. ASSUME NEW r \in MediaReads, NEW bytes \in 1..MaxBytes, Budget!Run(r, bytes) PROVE BudgetSound'
    BY <2>1, RunSound
  <2>2. ASSUME NEW r \in MediaReads, Budget!Resume(r) PROVE BudgetSound'
    BY <2>2, ResumeSound
  <2>3. ASSUME NEW r \in MediaReads, Budget!Settle(r) PROVE BudgetSound'
    BY <2>3, HolderOf, ReleaseSound DEF Budget!Settle
  <2>4. ASSUME NEW r \in MediaReads, Budget!Abort(r) PROVE BudgetSound'
    BY <2>4, AbortSound
  <2>5. CASE UNCHANGED Budget!vars
    <3>1. bytesInFlight' = bytesInFlight /\ waiters' = waiters /\ read' = read
      BY <2>5 DEF Budget!vars
    <3>2. read' \in [MediaReads -> Calls]
      BY <3>1, BudgetTyped
    <3>3. Holders' = Holders
      BY <3>1 DEF Holders
    <3> QED BY <3>1, <3>2, <3>3, WaitsOn
  <2> QED BY <2>1, <2>2, <2>3, <2>4, <2>5 DEF Budget!Next
<1> QED BY <1>1, <1>2, PTL DEF Budget!Spec

\* The counter is what the reads that were granted bytes hold, and is never over
\* the limit (BudgetIsExact; liveMediaReadBudget.js:35, 98-105).
THEOREM CounterExact == Budget!Spec => []BudgetIsExact
<1>1. BudgetSound => BudgetIsExact
  <2> SUFFICES ASSUME BudgetSound PROVE BudgetIsExact
    OBVIOUS
  <2>1. bytesInFlight = Held(read, {r \in MediaReads : read[r].stage \in {"granted", "reading"}})
    BY BudgetTyped DEF Holders
  <2>2. bytesInFlight <= MaxBytes
    BY BudgetTyped, MaxBytesAssumption
  <2> QED BY <2>1, <2>2 DEF BudgetIsExact, Budget!BudgetIsExact, Held,
                            Budget!MapThenSumSet, Budget!MapThenFoldSet
<1> QED BY <1>1, BudgetStays, PTL

\* No read waits for bytes that are there (NobodyWaitsInVain;
\* liveMediaReadBudget.js:36-52).
THEOREM NobodyWaits == Budget!Spec => []NobodyWaitsInVain
<1>1. BudgetSound => NobodyWaitsInVain
  <2> SUFFICES ASSUME BudgetSound, NEW i \in DOMAIN waiters
               PROVE  ~(bytesInFlight + read[waiters[i]].bytes <= MaxBytes)
    BY DEF NobodyWaitsInVain, Budget!NobodyWaitsInVain, Budget!Fits
  <2>1. /\ bytesInFlight \in Nat /\ MaxBytes \in Nat
        /\ waiters[i] \in MediaReads
        /\ bytesInFlight + read[waiters[i]].bytes > MaxBytes
    BY BudgetTyped, MaxBytesAssumption
  <2>2. read[waiters[i]].bytes \in Nat
    BY <2>1, BudgetTyped, CallsTyped DEF Counted
  <2> QED BY <2>1, <2>2
<1> QED BY <1>1, BudgetStays, PTL

----------------------------------------------------------------------------
\* The four beside each other: a behaviour of them all is one of each, so what is
\* proved of each alone holds here.
THEOREM EachAlone == MCSpec => Spec /\ Budget!Spec /\ Processes!Spec /\ Manifest!Spec
<1>1. MCInit => Init /\ Budget!Init /\ Processes!Init /\ Manifest!Init
  BY DEF MCInit
<1>2. [MCNext]_<<scene, watch, budget, processes, manifest>>
        => /\ [Next]_vars /\ [Budget!Next]_(Budget!vars)
           /\ [Processes!Next]_(Processes!vars) /\ [Manifest!Next]_(Manifest!vars)
  <2>1. /\ watch = vars /\ budget = Budget!vars
        /\ processes = Processes!vars /\ manifest = Manifest!vars
        /\ watch' = vars' /\ budget' = Budget!vars'
        /\ processes' = Processes!vars' /\ manifest' = Manifest!vars'
    BY DEF watch, budget, processes, manifest, vars, Budget!vars, Processes!vars, Manifest!vars
  <2> HIDE DEF watch, budget, processes, manifest
  <2> SUFFICES ASSUME [MCNext]_<<scene, watch, budget, processes, manifest>>
               PROVE  /\ [Next]_vars /\ [Budget!Next]_(Budget!vars)
                      /\ [Processes!Next]_(Processes!vars) /\ [Manifest!Next]_(Manifest!vars)
    OBVIOUS
  <2>2. CASE Next /\ UNCHANGED <<budget, processes, manifest>>
    BY <2>1, <2>2
  <2>3. CASE Budget!Next /\ UNCHANGED <<watch, processes, manifest>>
    BY <2>1, <2>3
  <2>4. CASE Processes!Next /\ UNCHANGED <<watch, budget, manifest>>
    BY <2>1, <2>4
  <2>5. CASE Manifest!Next /\ UNCHANGED <<watch, budget, processes>>
    BY <2>1, <2>5
  <2>6. CASE UNCHANGED <<scene, watch, budget, processes, manifest>>
    BY <2>1, <2>6
  <2> QED BY <2>2, <2>3, <2>4, <2>5, <2>6 DEF MCNext
<1> QED BY <1>1, <1>2, PTL DEF MCSpec, Spec, Budget!Spec, Processes!Spec, Manifest!Spec

=============================================================================
