--------------------------- MODULE RunObservation ---------------------------
(***************************************************************************)
(* Watching a Run live: the two in-process sets of event streams kept      *)
(* beside the active_runs table in backend/server.js, one of the admins    *)
(* who watch a player and one of the players who are told how many do.     *)
(* Every await is a step of its own; sockets close at any time, and only a *)
(* connection whose handler has got to the end hears of it.                *)
(*                                                                         *)
(* Abstracted: the body of a Run (its revision stands for it), guests (who *)
(* cannot be watched), and database failures.  A player's e-mail is in     *)
(* lower case, so that both sets use one key for it.                       *)
(***************************************************************************)
EXTENDS Naturals, FiniteSets

CONSTANTS
  Players,       \* account e-mails
  Connections,   \* requests of watchers; a page that reconnects uses another one
  OwnerHandle,   \* runWatchHandle of an owner record: the same for every owner
  None,
  MaxRevision    \* bound: writes of one Run

ASSUME ConnectionsAssumption == IsFiniteSet(Connections)
ASSUME OwnerHandleAssumption == OwnerHandle \notin Players
ASSUME NoneAssumption == None \notin Players /\ None \notin Nat
ASSUME RevisionAssumption == MaxRevision \in Nat

VARIABLES
  runs,          \* active_runs: player -> revision, 0 without a row
  acks,          \* writes that committed and are about to be answered
  conns,         \* the watchers' connections
  runObservers,  \* key -> connections
  watched        \* runWatchedSubscribers: player -> the count on screen, or None

vars == <<runs, acks, conns, runObservers, watched>>

Keys == Players \cup {OwnerHandle}

Stages == {"new", "lookup", "found", "reading", "read", "watching", "refused"}

TypeOK ==
  /\ runs \in [Players -> Nat]
  /\ acks \subseteq [player: Players, revision: Nat]
  /\ conns \in [Connections -> [stage: Stages, owner: Players \cup {None}, open: BOOLEAN,
                                row: Nat, shown: Nat]]
  /\ runObservers \in [Keys -> SUBSET Connections]
  /\ watched \in [Players -> Nat \cup {None}]

Init ==
  /\ runs \in [Players -> 0..1]
  /\ acks = {}
  /\ conns = [c \in Connections |->
                [stage |-> "new", owner |-> None, open |-> TRUE, row |-> 0, shown |-> 0]]
  /\ runObservers = [k \in Keys |-> {}]
  /\ watched = [p \in Players |-> None]

----------------------------------------------------------------------------
(* Frames *)

Observers(p) == Cardinality(runObservers[p])

\* publishObserverCount, after the set of p has changed.
PublishObserverCount(p) ==
  watched' = [watched EXCEPT ![p] = IF @ = None THEN None ELSE Cardinality(runObservers'[p])]

\* An owner record {kind, value, lock} is digested as "[object Object]", whoever it names.
runWatchHandle(p) == OwnerHandle

\* publishRunToObservers: the observers are looked up under the handle, and were filed
\* under the e-mail.
PublishRunToObservers(p, revision) ==
  conns' = [c \in Connections |->
              IF c \in runObservers[runWatchHandle(p)] /\ conns[c].open
              THEN [conns[c] EXCEPT !.shown = revision] ELSE conns[c]]

----------------------------------------------------------------------------
(* The Run *)

\* PUT /api/active-run: the transaction commits ...
Save(p) ==
  /\ runs[p] < MaxRevision
  /\ runs' = [runs EXCEPT ![p] = @ + 1]
  /\ acks' = acks \cup {[player |-> p, revision |-> runs[p] + 1]}
  /\ UNCHANGED <<conns, runObservers, watched>>

\* ... and its continuation publishes the row and answers.
Acknowledge(a) ==
  /\ acks' = acks \ {a}
  /\ PublishRunToObservers(a.player, a.revision)
  /\ UNCHANGED <<runs, runObservers, watched>>

\* DELETE /api/active-run: nobody is told.
Abandon(p) ==
  /\ runs[p] > 0
  /\ runs' = [runs EXCEPT ![p] = 0]
  /\ UNCHANGED <<acks, conns, runObservers, watched>>

----------------------------------------------------------------------------
(* A watcher: GET /api/admin/runs/:owner/observe *)

\* The request arrives; authentication is awaited, and then the handle lookup.
Observe(c, p) ==
  /\ conns[c].stage = "new"
  /\ conns' = [conns EXCEPT ![c].stage = "lookup", ![c].owner = p]
  /\ UNCHANGED <<runs, acks, runObservers, watched>>

\* ownerForRunWatchHandle: a handle names an account that holds a Run.
Lookup(c) ==
  /\ conns[c].stage = "lookup"
  /\ conns' = [conns EXCEPT ![c].stage = IF runs[conns[c].owner] > 0 THEN "found" ELSE "refused"]
  /\ UNCHANGED <<runs, acks, runObservers, watched>>

\* The account is observed from here on, and told so.
Admit(c) ==
  LET p == conns[c].owner
  IN /\ conns[c].stage = "found"
     /\ conns' = [conns EXCEPT ![c].stage = "reading"]
     /\ runObservers' = [runObservers EXCEPT ![p] = @ \cup {c}]
     /\ PublishObserverCount(p)
     /\ UNCHANGED <<runs, acks>>

\* The row as the database sees it ...
ReadRow(c) ==
  /\ conns[c].stage = "reading"
  /\ conns' = [conns EXCEPT ![c].stage = "read", ![c].row = runs[conns[c].owner]]
  /\ UNCHANGED <<runs, acks, runObservers, watched>>

\* ... is the opening frame; only then is the end of the connection listened for.
Open(c) ==
  /\ conns[c].stage = "read"
  /\ conns' = [conns EXCEPT ![c].stage = "watching",
                            ![c].shown = IF conns[c].open THEN conns[c].row ELSE @]
  /\ UNCHANGED <<runs, acks, runObservers, watched>>

\* Mutant: a watcher goes and the player is not told.
Close_Untold(c) ==
  /\ conns[c].stage # "new" /\ conns[c].open
  /\ conns' = [conns EXCEPT ![c].open = FALSE]
  /\ IF conns[c].stage = "watching"
     THEN runObservers' = [runObservers EXCEPT ![conns[c].owner] = @ \ {c}]
     ELSE UNCHANGED runObservers
  /\ UNCHANGED <<runs, acks, watched>>

\* The watcher goes: a handler that is still awaiting does not hear of it.
Close(c) ==
  /\ conns[c].stage # "new" /\ conns[c].open
  /\ conns' = [conns EXCEPT ![c].open = FALSE]
  /\ IF conns[c].stage = "watching"
     THEN /\ runObservers' = [runObservers EXCEPT ![conns[c].owner] = @ \ {c}]
          /\ PublishObserverCount(conns[c].owner)
     ELSE UNCHANGED <<runObservers, watched>>
  /\ UNCHANGED <<runs, acks>>

----------------------------------------------------------------------------
(* The watched player: GET /api/active-run/watchers *)

Subscribe(p) ==
  /\ watched[p] = None
  /\ watched' = [watched EXCEPT ![p] = Observers(p)]
  /\ UNCHANGED <<runs, acks, conns, runObservers>>

Unsubscribe(p) ==
  /\ watched[p] # None
  /\ watched' = [watched EXCEPT ![p] = None]
  /\ UNCHANGED <<runs, acks, conns, runObservers>>

----------------------------------------------------------------------------

Next ==
  \/ \E p \in Players : Save(p) \/ Abandon(p) \/ Subscribe(p) \/ Unsubscribe(p)
  \/ \E a \in acks : Acknowledge(a)
  \/ \E c \in Connections :
       \/ \E p \in Players : Observe(c, p)
       \/ Lookup(c) \/ Admit(c) \/ ReadRow(c) \/ Open(c) \/ Close(c)

Spec == Init /\ [][Next]_vars

\* The indicator a player sees is the size of the set of their observers, whichever watchers
\* come and go and whenever the player's own stream was opened (publishObserverCount).
CountIsCurrent == \A p \in Players : watched[p] # None => watched[p] = Observers(p)

\* "Every acknowledged mutation reaches anyone watching" (the comment on PUT
\* /api/active-run): when a save is answered, nobody who watches its player is behind it.
MutationsReachWatchers ==
  [][\A a \in acks \ acks' : \A c \in runObservers[a.player] :
       conns[c].stage = "watching" /\ conns[c].open => conns'[c].shown >= a.revision]_vars
=============================================================================
