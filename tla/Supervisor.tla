----------------------------- MODULE Supervisor -----------------------------
(***************************************************************************)
(* backend/supervisor.js, PID 1 of the container: it keeps one server      *)
(* process running, replaces it on SIGHUP and ends with it on SIGTERM or   *)
(* SIGINT.  Processes may exit at any time, with a code or by a signal;    *)
(* the difference matters, since the code asks a process whether it is     *)
(* alive by its exitCode, which stays null when a signal ended it.         *)
(*                                                                         *)
(* Time is counted in seconds, because the code relies on one timer being  *)
(* shorter than the other.  The files it prepares (ensureHotPaths, the     *)
(* environment) are left out.                                              *)
(***************************************************************************)
EXTENDS Naturals, FiniteSets

CONSTANTS
  Pids,          \* more than MaxHangups; one is used again once its process is gone
  None,
  MaxHangups     \* bound: SIGHUPs

RespawnDelay == 1
KillDelay == 5

VARIABLES
  proc,          \* the processes
  child,         \* the one the variable `child` names
  stopping,
  restarting,
  killTimer,     \* seconds left, or None
  loose,         \* kill timers that were overwritten before they fired
  respawns,      \* seconds left of each pending setTimeout(startChild): how many
  exited,        \* the supervisor has ended, and the container with it
  hangups

vars == <<proc, child, stopping, restarting, killTimer, loose, respawns, exited, hangups>>

Alive == {p \in Pids : proc[p] \in {"up", "asked", "killed"}}

TypeOK ==
  /\ proc \in [Pids -> {"gone", "up", "asked", "killed", "code", "signal"}]
  /\ child \in Pids
  /\ stopping \in BOOLEAN /\ restarting \in BOOLEAN /\ exited \in BOOLEAN
  /\ killTimer \in 0..KillDelay \cup {None}
  /\ loose \subseteq 0..KillDelay
  /\ respawns \in [0..RespawnDelay -> Nat]
  /\ hangups \in 0..MaxHangups

Init ==
  /\ child \in Pids
  /\ proc = [p \in Pids |-> IF p = child THEN "up" ELSE "gone"]
  /\ stopping = FALSE /\ restarting = FALSE /\ exited = FALSE
  /\ killTimer = None
  /\ loose = {}
  /\ respawns = [s \in 0..RespawnDelay |-> 0]
  /\ hangups = 0

----------------------------------------------------------------------------
(* `child` names another process: what is left of an ended one is forgotten. *)
StartChild(procs) ==
  \E p \in Pids :
    /\ procs[p] \notin {"up", "asked", "killed"}
    /\ child' = p
    /\ proc' = [q \in Pids |->
                  IF q = p THEN "up" ELSE IF procs[q] \in {"code", "signal"} THEN "gone" ELSE procs[q]]

(* child.exitCode !== null *)
Ended == proc[child] = "code"

(* child.kill(signal) does nothing to a process that is gone. *)
Signalled(how) == [proc EXCEPT ![child] = IF @ \in {"up", "asked"} THEN how ELSE @]

\* Mutant: no kill timer for a process that a signal already ended.
TerminateChild_Alive ==
  /\ proc' = Signalled("asked")
  /\ killTimer' = IF proc[child] = "signal" THEN killTimer ELSE KillDelay
  /\ loose' = IF killTimer = None \/ proc[child] = "signal" THEN loose ELSE loose \cup {killTimer}
  /\ UNCHANGED child

TerminateChild ==
  /\ proc' = Signalled("asked")
  /\ killTimer' = KillDelay
  /\ loose' = IF killTimer = None THEN loose ELSE loose \cup {killTimer}
  /\ UNCHANGED child

----------------------------------------------------------------------------
(* The exit handler of a process, with the code or the signal that ended it. *)
Exit(p, how) ==
  LET procs == [proc EXCEPT ![p] = IF p = child THEN how ELSE "gone"] IN
  /\ ~exited
  /\ p \in Alive
  /\ proc[p] = "killed" => how = "signal"
  /\ killTimer' = None
  /\ \/ /\ stopping
        /\ exited' = TRUE
        /\ proc' = procs
        /\ UNCHANGED <<child, restarting, respawns>>
     \/ /\ ~stopping
        /\ restarting
        /\ restarting' = FALSE
        /\ StartChild(procs)
        /\ UNCHANGED <<respawns, exited>>
     \/ /\ ~stopping
        /\ ~restarting
        /\ respawns' = [respawns EXCEPT ![RespawnDelay] = @ + 1]
        /\ proc' = procs
        /\ UNCHANGED <<child, restarting, exited>>
  /\ UNCHANGED <<stopping, loose, hangups>>

(* SIGHUP *)
RestartChild ==
  /\ ~exited
  /\ hangups < MaxHangups
  /\ hangups' = hangups + 1
  /\ \/ /\ restarting
        /\ UNCHANGED <<proc, child, restarting, killTimer, loose>>
     \/ /\ ~restarting
        /\ Ended
        /\ StartChild(proc)
        /\ UNCHANGED <<restarting, killTimer, loose>>
     \/ /\ ~restarting
        /\ ~Ended
        /\ restarting' = TRUE
        /\ TerminateChild
  /\ UNCHANGED <<stopping, respawns, exited>>

(* SIGTERM or SIGINT *)
Stop ==
  /\ ~exited
  /\ stopping' = TRUE
  /\ \/ /\ Ended
        /\ exited' = TRUE
        /\ UNCHANGED <<proc, child, killTimer, loose>>
     \/ /\ ~Ended
        /\ TerminateChild
        /\ UNCHANGED exited
  /\ UNCHANGED <<restarting, respawns, hangups>>

----------------------------------------------------------------------------
(* Timers *)

KillFires ==
  /\ ~exited
  /\ \/ killTimer = 0 /\ killTimer' = None /\ UNCHANGED loose
     \/ 0 \in loose /\ loose' = loose \ {0} /\ UNCHANGED killTimer
  /\ proc' = Signalled("killed")
  /\ UNCHANGED <<child, stopping, restarting, respawns, exited, hangups>>

RespawnFires ==
  /\ ~exited
  /\ respawns[0] > 0
  /\ respawns' = [respawns EXCEPT ![0] = @ - 1]
  /\ StartChild(proc)
  /\ UNCHANGED <<stopping, restarting, killTimer, loose, exited, hangups>>

Due == killTimer = 0 \/ 0 \in loose \/ respawns[0] > 0

(* A second passes; a timer that is due fires first. *)
Tick ==
  /\ ~exited
  /\ ~Due
  /\ killTimer' = IF killTimer = None THEN None ELSE killTimer - 1
  /\ loose' = {s - 1 : s \in loose}
  /\ respawns' = [s \in 0..RespawnDelay |-> IF s = RespawnDelay THEN 0 ELSE respawns[s + 1]]
  /\ UNCHANGED <<proc, child, stopping, restarting, exited, hangups>>

Next ==
  \/ \E p \in Pids : \E how \in {"code", "signal"} : Exit(p, how)
  \/ RestartChild \/ Stop
  \/ KillFires \/ RespawnFires \/ Tick

Spec == Init /\ [][Next]_vars

----------------------------------------------------------------------------
(* Something always lies ahead of the supervisor: after SIGTERM or SIGINT a kill
   timer, or a child that was sent SIGKILL, also when the stop came while the
   child was being replaced, or when a signal ended the child a moment ago and
   only its respawn is pending; before, a server that runs or one that is due
   (supervisor.js:45-65, 68-77, 88-93). *)
NeverStranded ==
  \/ exited
  \/ stopping /\ (killTimer # None \/ loose # {} \/ proc[child] = "killed")
  \/ ~stopping /\ (Alive # {} \/ \E s \in DOMAIN respawns : respawns[s] > 0)
=============================================================================
