----------------------------- MODULE ReadBudget -----------------------------
(***************************************************************************)
(* backend/liveMediaReadBudget.js: the bytes of live media being read from *)
(* storage at one time are bounded; a read that does not fit waits, and a  *)
(* later, smaller one may pass it.  A read is aborted by its own deadline  *)
(* or by its caller, at any moment, also between the promise that grants   *)
(* its bytes and the continuation that takes them.                         *)
(*                                                                         *)
(* Abstracted: what is read, and the deadline itself, which may come at    *)
(* any time after the call.                                                *)
(***************************************************************************)
EXTENDS Naturals, FiniteSets, Sequences, FiniteSetsExt, SequencesExt

CONSTANTS
  Reads,         \* calls of run
  MaxBytes

VARIABLES
  bytesInFlight,
  waiters,       \* in the order of their calls
  read           \* the calls

vars == <<bytesInFlight, waiters, read>>

TypeOK ==
  /\ bytesInFlight \in 0..MaxBytes
  /\ waiters \in Seq(Reads)
  /\ read \in [Reads -> [stage: {"new", "queued", "granted", "reading", "over"},
                         bytes: 0..MaxBytes, aborted: BOOLEAN]]

Init ==
  /\ bytesInFlight = 0
  /\ waiters = <<>>
  /\ read = [r \in Reads |-> [stage |-> "new", bytes |-> 0, aborted |-> FALSE]]

----------------------------------------------------------------------------
Fits(used, r) == used + read[r].bytes <= MaxBytes

\* Mutant: the queue is served strictly in order.
Admit_InOrder(queue, r) ==
  IF Fits(queue.used, r) /\ queue.left = <<>>
    THEN [queue EXCEPT !.used = @ + read[r].bytes, !.granted = @ \cup {r}]
    ELSE [queue EXCEPT !.left = Append(@, r)]

(* One turn of release's loop over the waiters. *)
Admit(queue, r) ==
  IF Fits(queue.used, r)
    THEN [queue EXCEPT !.used = @ + read[r].bytes, !.granted = @ \cup {r}]
    ELSE [queue EXCEPT !.left = Append(@, r)]

(* release(bytes), called by r, which is over. *)
Release(r) ==
  LET queue == FoldLeft(Admit, [used |-> bytesInFlight - read[r].bytes, granted |-> {}, left |-> <<>>],
                        waiters)
  IN /\ bytesInFlight' = queue.used
     /\ waiters' = queue.left
     /\ read' = [q \in Reads |-> IF q = r THEN [read[q] EXCEPT !.stage = "over"]
                                 ELSE IF q \in queue.granted THEN [read[q] EXCEPT !.stage = "granted"]
                                 ELSE read[q]]

(* run, up to the await of acquire *)
Run(r, bytes) ==
  /\ read[r].stage = "new"
  /\ LET fits == bytesInFlight + bytes <= MaxBytes
     IN /\ read' = [read EXCEPT ![r].bytes = bytes, ![r].stage = IF fits THEN "granted" ELSE "queued"]
        /\ bytesInFlight' = IF fits THEN bytesInFlight + bytes ELSE bytesInFlight
        /\ waiters' = IF fits THEN waiters ELSE Append(waiters, r)

\* Mutant: only a read that has begun gives its bytes back.
Resume_Kept(r) ==
  /\ read[r].stage = "granted"
  /\ read' = [read EXCEPT ![r].stage = IF read[r].aborted THEN "over" ELSE "reading"]
  /\ UNCHANGED <<bytesInFlight, waiters>>

(* run goes on with its bytes: it reads, unless it was aborted meanwhile. *)
Resume(r) ==
  /\ read[r].stage = "granted"
  /\ \/ read[r].aborted /\ Release(r)
     \/ /\ ~read[r].aborted
        /\ read' = [read EXCEPT ![r].stage = "reading"]
        /\ UNCHANGED <<bytesInFlight, waiters>>

(* fn settles, with the bytes or an error. *)
Settle(r) ==
  /\ read[r].stage = "reading"
  /\ Release(r)

(* The deadline, or the caller's signal *)
Abort(r) ==
  \/ /\ read[r].stage = "queued"
     /\ \E index \in DOMAIN waiters :
          waiters[index] = r /\ waiters' = RemoveAt(waiters, index)
     /\ read' = [read EXCEPT ![r].stage = "over"]
     /\ UNCHANGED bytesInFlight
  \/ /\ read[r].stage = "granted"
     /\ ~read[r].aborted
     /\ read' = [read EXCEPT ![r].aborted = TRUE]
     /\ UNCHANGED <<bytesInFlight, waiters>>
  \/ /\ read[r].stage = "reading"
     /\ Release(r)

Next ==
  \E r \in Reads :
    \/ \E bytes \in 1..MaxBytes : Run(r, bytes)
    \/ Resume(r) \/ Settle(r) \/ Abort(r)

Spec == Init /\ [][Next]_vars

----------------------------------------------------------------------------
(* The counter is what the reads that were granted bytes hold, in whatever
   order they settle, miss their deadline or are aborted before they start:
   no bytes are lost, and none are given out twice (liveMediaReadBudget.js:35,
   98-105). *)
BudgetIsExact ==
  /\ bytesInFlight = MapThenSumSet(LAMBDA r : read[r].bytes,
                                   {r \in Reads : read[r].stage \in {"granted", "reading"}})
  /\ bytesInFlight <= MaxBytes

(* Nobody waits for bytes that are there: each release passes the waiters
   that do not fit and admits every one behind them that does
   (liveMediaReadBudget.js:36-52). *)
NobodyWaitsInVain == \A i \in DOMAIN waiters : ~Fits(bytesInFlight, waiters[i])
=============================================================================
